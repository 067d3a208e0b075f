-------------------------------- MODULE Prune --------------------------------
(***************************************************************************)
(* Which actions of a compiled graph a run includes: prune() of            *)
(* src/api/commands/prune.ts, and what build() of                          *)
(* src/api/commands/build.ts makes of them.                                *)
(***************************************************************************)
EXTENDS Session

CONSTANT RunConfigs   \* records: actions (a sequence of patterns, which are targets
                      \* without a schema where they have no dot), tags,
                      \* includeDependencies, includeDependents, fullRefresh

VARIABLES
  runConfig,   \* of the run
  included,    \* includedActionNames, as targets
  queue,       \* of the walk through the graph
  execution,   \* the actions of the execution graph
  pruning      \* "none", "dependencies", "dependents", "assertions", "pruned",
               \* "built", "failed"

pruneVars == <<runConfig, included, queue, execution, pruning>>
GraphVars == <<config, actions, tests, graphErrors, compiled, thrown, phase, calls, moved>>

(* Inline tables are left out.  Of actions with one name, the last is      *)
(* found by it: tables come first, then operations, then assertions.       *)
AllActions == {i \in Graph : ~Inline(actions, i)}
Names(is) == {actions[i].target : i \in is}
AllActionNames == Names(AllActions)

Before(i, j) ==
  LET rank == [table |-> 1, operation |-> 2, assertion |-> 3]
  IN \/ rank[actions[i].kind] < rank[actions[j].kind]
     \/ actions[i].kind = actions[j].kind /\ i <= j
ByName(name) ==
  LET is == {i \in AllActions : actions[i].target = name}
  IN CHOOSE j \in is : \A i \in is : Before(i, j)

(* matchPatterns(): a pattern with a dot is a whole name, one without may  *)
(* match only once.                                                        *)
MatchesName(pattern, is) == {i \in is : pattern.name = actions[i].target.name}
MatchPattern(p, is) == IF p.schema # <<>> THEN Names(is) \cap {p} ELSE Names(MatchesName(p, is))
Ambiguous(ps, is) == \E k \in DOMAIN ps : ps[k].schema = <<>> /\ Cardinality(MatchesName(ps[k], is)) > 1
MatchPatterns(ps, is) == UNION {MatchPattern(ps[k], is) : k \in DOMAIN ps}

HasSelector(rc) == rc.actions # <<>> \/ rc.tags # {}
Selected(rc) ==
  MatchPatterns(rc.actions, AllActions) \cup Names({i \in AllActions : actions[i].tags \cap rc.tags # {}})

PruneInit ==
  /\ SessionInit
  /\ runConfig = <<>> /\ included = {} /\ queue = <<>> /\ execution = <<>> /\ pruning = "none"

(* The selectors.                                                          *)
Select(rc) ==
  /\ phase = "compiled" /\ pruning = "none"
  /\ runConfig' = rc
  /\ IF ~HasSelector(rc) THEN included' = AllActionNames /\ queue' = <<>> /\ pruning' = "pruned"
     ELSE IF Ambiguous(rc.actions, AllActions)
          THEN pruning' = "failed" /\ UNCHANGED <<included, queue>>
          ELSE /\ included' = Selected(rc)
               /\ queue' = SetToSeq(Selected(rc))
               /\ pruning' = "dependencies"
  /\ UNCHANGED <<GraphVars, execution>>

(* One turn of a walk: the last of the queue is taken, what is new among   *)
(* its neighbours is queued.                                               *)
Walk(neighbours) ==
  LET new == neighbours \ included
  IN /\ included' = included \cup new
     /\ queue' = Front(queue) \o SetToSeq(new)
     /\ UNCHANGED pruning

DependenciesOf(name) == AllActionNames \cap actions[ByName(name)].dependencyTargets
DependentsOf(name) == Names({j \in AllActions : name \in actions[j].dependencyTargets})

WalkDependencies ==
  /\ pruning = "dependencies" /\ queue # <<>> /\ runConfig.includeDependencies
  /\ Walk(DependenciesOf(Last(queue)))
  /\ UNCHANGED <<GraphVars, runConfig, execution>>

(* Mutant: the second walk goes on from what the first left in its queue.  *)
StartDependentsEmpty ==
  /\ pruning = "dependencies" /\ (queue = <<>> \/ ~runConfig.includeDependencies)
  /\ pruning' = "dependents"
  /\ UNCHANGED <<GraphVars, runConfig, included, queue, execution>>

StartDependents ==
  /\ pruning = "dependencies" /\ (queue = <<>> \/ ~runConfig.includeDependencies)
  /\ pruning' = "dependents"
  /\ queue' = SetToSeq(included)
  /\ UNCHANGED <<GraphVars, runConfig, included, execution>>

WalkDependents ==
  /\ pruning = "dependents" /\ queue # <<>> /\ runConfig.includeDependents
  /\ Walk(DependentsOf(Last(queue)))
  /\ UNCHANGED <<GraphVars, runConfig, execution>>

(* Last, the assertions whose parent is included.                          *)
AutoAssertions(names) == Names({j \in Of(Graph, "assertion") : actions[j].parentAction \in names})
AddAutoAssertions ==
  /\ pruning = "dependents" /\ (queue = <<>> \/ ~runConfig.includeDependents)
  /\ pruning' = "pruned"
  /\ included' = included \cup AutoAssertions(included)
  /\ queue' = <<>>
  /\ UNCHANGED <<GraphVars, runConfig, execution>>

(* buildTable(), buildOperation() and buildAssertion(): nothing is done    *)
(* for a disabled action; operations are taken to read what is not         *)
(* declared, unless they say otherwise.                                    *)
ExecutionAction(i) ==
  LET x == actions[i]
  IN [type |-> x.kind, target |-> x.target, dependencies |-> x.dependencyTargets,
      hasTasks |-> ~x.disabled,
      hermeticity |-> CASE x.hermetic # "unset" -> x.hermetic
                        [] x.kind = "operation" /\ x.hermetic = "unset" -> "non hermetic"
                        [] OTHER -> "hermetic"]

(* build(): refuses graphs with errors, and full refreshes of protected    *)
(* tables.                                                                 *)
Build ==
  LET is == {i \in Graph : actions[i].target \in included}
  IN /\ pruning = "pruned"
     /\ IF graphErrors # {}
             \/ (runConfig.fullRefresh /\ \E i \in Of(is, "table") : "protected" \in actions[i].props)
        THEN pruning' = "failed" /\ UNCHANGED execution
        ELSE pruning' = "built" /\ execution' = [i \in is |-> ExecutionAction(i)]
     /\ UNCHANGED <<GraphVars, runConfig, included, queue>>

PruneNext ==
  \/ SessionNext /\ UNCHANGED pruneVars
  \/ \E rc \in RunConfigs : Select(rc)
  \/ WalkDependencies \/ StartDependents \/ WalkDependents \/ AddAutoAssertions \/ Build

projectVars == <<GraphVars, pruneVars>>
Selection == PruneInit /\ [][PruneNext]_projectVars
-----------------------------------------------------------------------------
IsTarget(t) == DOMAIN t = {"database", "schema", "name"}
ProjectTypeOK ==
  /\ config \in ProjectConfigs
  /\ pruning # "none" => runConfig \in RunConfigs
  /\ \A i \in DOMAIN actions :
       /\ actions[i].kind \in {"table", "operation", "assertion", "declaration"}
       /\ \A t \in actions[i].dependencyTargets : IsTarget(t)
       /\ Generated(actions, i) \subseteq Of(DOMAIN actions, "assertion")
  /\ compiled \cap thrown = {} /\ compiled \cup thrown \subseteq DOMAIN actions
  /\ phase # "define" /\ phase # "compile" => compiled \cup thrown = DOMAIN actions
  /\ included \subseteq AllActionNames /\ ToSet(queue) \subseteq included
  /\ pruning # "none" => phase = "compiled"
  /\ pruning = "built" => Names(DOMAIN execution) = included

Clean == phase = "compiled" /\ graphErrors = {}

(* A graph without errors is what the executor and the run cache take for  *)
(* granted: no two actions have one name, every dependency is an action or *)
(* a declaration of the graph, none is an inline table, there is no cycle  *)
(* of several actions; and only a query that throws makes compile() itself *)
(* fail (session.ts:374-432).                                              *)
CleanGraphsAreSound ==
  /\ phase = "crashed" => thrown # {}
  /\ Clean =>
       /\ compiled = DOMAIN actions
       /\ \A i, j \in compiled : i # j => actions[i].target # actions[j].target
       /\ \A i \in Graph : \A t \in actions[i].dependencyTargets :
            \E j \in compiled : actions[j].target = t /\ ~Inline(actions, j)
       /\ ~\E is \in SUBSET Graph :
            Cardinality(is) > 1 /\ \A i \in is : (DependsOn(i) \cap is) \ {i} # {}

(* What the text of an action names through ref(), also in the text of     *)
(* inline tables it was given, which are within each other at most as      *)
(* often as there are actions.                                             *)
References(pieces) == {piece[2] : piece \in {x \in pieces : x[1] = "ref"}}
Named(text) ==
  LET inside[n \in 0..Len(actions)] ==
        IF n = 0 THEN References(ToSet(text))
        ELSE UNION {References(ToSet(r[2])) : r \in {x \in inside[n - 1] : x[1] = "text"}}
  IN {r[2] : r \in {x \in UNION {inside[n] : n \in DOMAIN inside} : x[1] = "name"}}

(* Every dataset that the text of an action names by ref() is a dependency *)
(* of the action, under the name it has in the end, so that it is built    *)
(* before the action reads it (table.ts:716-725, session.ts:484-571).      *)
TextNamesDependencies ==
  Clean /\ moved = {} =>
    \A i \in Graph : Inline(actions, i) \/ Named(actions[i].text) \subseteq actions[i].dependencyTargets

(* What a query may say for its text to be right in any project.  It       *)
(* refers to no assertion that a table makes while the queries run: before *)
(* it is made, its name resolves to one in the default schema.  And it     *)
(* makes no table inline, and no inline table another: those that refer to *)
(* it may have been given the one or the other already.  (What refers to a *)
(* parent is the query of an assertion that a table makes.)                *)
Labels == {"uniqueKey0", "uniqueKey1", "rowConditions"}
Labelled(name) == name # <<>> /\ name[Len(name)] \in Labels
GivenType(c) == CASE c[1] = "type" -> c[2] [] c[1] = "config" -> c[2].type [] OTHER -> ""
PlainCall(c) ==
  /\ c[1] # "refParent" /\ GivenType(c) # "inline"
  /\ c[1] = "ref" => ~Labelled(c[2].name)
NoneLateInline == \A c \in LateCalls : c[1] = "type" => c[2] # "inline"
PlainQuery(q, type) ==
  \A k \in DOMAIN q :
    PlainCall(q[k]) /\ (GivenType(q[k]) # "" => type # "inline" /\ NoneLateInline)
PlainQueries == \A src \in Sources : PlainQuery(src.query, src.config.type)

(* The assertions a table has made are about that table under the name it  *)
(* has in the end, wait for it, and are disabled with it (table.ts:597).   *)
AssertionsFollowTheirTable ==
  Clean => \A i \in Of(Graph, "table") : \A j \in Generated(actions, i) :
    /\ actions[j].disabled = actions[i].disabled
    /\ i \notin moved => actions[j].parentAction = actions[i].target
    /\ i \notin moved /\ ~Inline(actions, i) => actions[i].target \in actions[j].dependencyTargets

(* The least set of actions with those given and what f leads to.          *)
Closure(names, f) ==
  CHOOSE S \in SUBSET AllActionNames :
    /\ names \subseteq S /\ \A n \in S : f[n] \subseteq S
    /\ \A U \in SUBSET S : names \subseteq U /\ (\A n \in U : f[n] \subseteq U) => U = S

Down(rc) ==
  IF rc.includeDependencies
  THEN Closure(Selected(rc), [n \in AllActionNames |-> DependenciesOf(n)])
  ELSE Selected(rc)
Both(rc) ==
  IF rc.includeDependents
  THEN Closure(Down(rc), [n \in AllActionNames |-> DependentsOf(n)])
  ELSE Down(rc)

(* What a run includes is what was selected, all that it depends on, all   *)
(* that depends on those, and the assertions of each (prune.ts:45-109).    *)
SelectionIsClosed ==
  pruning \in {"pruned", "built"} /\ HasSelector(runConfig) =>
    included = Both(runConfig) \cup
      {actions[j].target : j \in {j \in AllActions : /\ actions[j].kind = "assertion"
                                                    /\ actions[j].parentAction \in Both(runConfig)}}
=============================================================================
