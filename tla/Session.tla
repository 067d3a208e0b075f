------------------------------- MODULE Session -------------------------------
(***************************************************************************)
(* The compilation session of @dataform/core: src/core/session.ts with the *)
(* builders of src/core/table.ts, operation.ts, assertion.ts,              *)
(* declaration.ts and test.ts.  A project's files define actions on the    *)
(* session and call their builders; compile() then runs the queries, which *)
(* call back into their builders, qualifies dependencies, renames and      *)
(* checks.                                                                 *)
(*                                                                         *)
(* A part of a name is a sequence: <<"a">>, or <<"p", "a">> with a prefix. *)
(* <<>> stands for a part that is not given.  A query is the sequence of   *)
(* the calls it makes on its context; its text is what they return.        *)
(***************************************************************************)
EXTENDS Integers, Sequences, FiniteSets, SequencesExt

CONSTANTS
  ProjectConfigs,   \* records: prefix, suffix, defaultSchema, assertionSchema, useRunCache,
                    \* and canonicalSchema, the default schema before overrides
  Sources,          \* records: what a definition file gives, see SqlxAction
  LateCalls,        \* calls on a builder after its definition: <<name, argument>>
  MaxSteps          \* bound on the definitions and calls of a project, together

(* Parts of names are sequences, files have names (compilers.ts:131), and  *)
(* configs and queries are of the form that is said above.                 *)
Part == Seq(STRING)
ConfigOK(c) ==
  /\ DOMAIN c = {"type", "schema", "database", "dependencies", "disabled", "hasOutput",
                 "hermetic", "tags", "props", "assertions"}
  /\ c.schema \in Part /\ c.database \in Part
CallOK(c) == c[1] = "config" => ConfigOK(c[2])
SourceTypes ==
  {"view", "table", "inline", "incremental", "operation", "assertion", "declaration", "test"}
ASSUME SessionAssumption ==
  /\ \A p \in ProjectConfigs :
       {p.prefix, p.suffix, p.defaultSchema, p.assertionSchema} \subseteq Part
  /\ \A src \in Sources :
       /\ src.type \in SourceTypes /\ src.name \in Part \ {<<>>} /\ ConfigOK(src.config)
       /\ DOMAIN src.query = 1..Len(src.query) /\ Len(src.query) \in Nat
       /\ \A k \in DOMAIN src.query : CallOK(src.query[k])
  /\ \A c \in LateCalls : c[1] \in {"schema", "database"} => c[2] \in Part

VARIABLES
  config,       \* of the project
  actions,      \* Session.actions
  tests,        \* Session.tests, by name
  graphErrors,  \* kinds of the compilation errors so far
  compiled,     \* positions of the actions whose queries have run
  thrown,       \* positions of those whose query threw, which are not in the graph
  phase,        \* "define", "compile", "qualify", "alter", "check", "compiled",
                \* "crashed" or "endless"
  calls,        \* number of calls on builders so far
  moved         \* history: positions of the actions whose target was changed by a query,
                \* or after assertions on it were made

sessionVars == <<config, actions, tests, graphErrors, compiled, thrown, phase, calls, moved>>

NoTarget == [database |-> <<>>, schema |-> <<>>, name |-> <<>>]
Given(part, default) == IF part # <<>> THEN part ELSE default

(* What a config that says nothing amounts to.                             *)
NoConfig == [type |-> "", schema |-> <<>>, database |-> <<>>, dependencies |-> {},
             disabled |-> FALSE, hasOutput |-> FALSE, hermetic |-> "unset", tags |-> {},
             props |-> {}, assertions |-> {}]

(* target(): defaults for what is not given.                               *)
Target(default, ref) == [ref EXCEPT !.schema = Given(@, default)]

(* setNameAndTarget(): what is given is given to the canonical target too. *)
SetTarget(a, ref) ==
  [a EXCEPT !.target = Target(config.defaultSchema, ref),
            !.canonicalTarget = Target(config.canonicalSchema, ref)]

Blank(kind) ==
  [kind |-> kind, type |-> IF kind = "table" THEN "view" ELSE kind, target |-> NoTarget,
   canonicalTarget |-> NoTarget, dependencyTargets |-> {}, disabled |-> FALSE,
   hasOutput |-> FALSE, hermetic |-> "unset", tags |-> {}, props |-> {}, preOps |-> 0,
   parentAction |-> NoTarget, uniqueKeyAssertions |-> {}, rowConditionsAssertion |-> 0,
   query |-> <<>>, text |-> <<>>]
-----------------------------------------------------------------------------
(* Definitions: publish(), operate(), assert() and declare().              *)
Publish(as, name) == Append(as, SetTarget(Blank("table"), [NoTarget EXCEPT !.name = name]))
Operate(as, name) == Append(as, SetTarget(Blank("operation"), [NoTarget EXCEPT !.name = name]))
DefineAssertion(as, name) ==
  Append(as, SetTarget(Blank("assertion"),
                       [NoTarget EXCEPT !.name = name, !.schema = config.assertionSchema]))
Declare(as, ref) == Append(as, SetTarget(Blank("declaration"), ref))

(* The calls on a builder: what each makes of the session's actions.       *)
Dependencies(as, i, refs) == [as EXCEPT ![i].dependencyTargets = @ \cup refs]
Tags(as, i, tags) == [as EXCEPT ![i].tags = @ \cup tags]
Schema(as, i, schema) == [as EXCEPT ![i] = SetTarget(@, [@.target EXCEPT !.schema = schema])]
Database(as, i, db) == [as EXCEPT ![i] = SetTarget(@, [@.target EXCEPT !.database = db])]
HasOutput(as, i, value) == [as EXCEPT ![i].hasOutput = value]
Hermetic(as, i, hermetic) ==
  [as EXCEPT ![i].hermetic = IF hermetic # "unset" THEN hermetic ELSE @]
Type(as, i, type) == [as EXCEPT ![i].type = IF type # "" THEN type ELSE @]

(* Options that are only stored: where, postOps, protected, uniqueKey, the *)
(* options of each warehouse, description and columns.                     *)
Options(as, i, props) == [as EXCEPT ![i].props = @ \cup props]

(* database() and schema(), of a config that gives them.                   *)
Located(as, i, c) ==
  LET placed == IF c.database # <<>> THEN Database(as, i, c.database) ELSE as
  IN IF c.schema # <<>> THEN Schema(placed, i, c.schema) ELSE placed

(* disabled(): of a table, with the assertions it created.                 *)
Disable(as, i) ==
  [j \in DOMAIN as |->
     IF j = i \/ j \in as[i].uniqueKeyAssertions \/ j = as[i].rowConditionsAssertion
     THEN [as[j] EXCEPT !.disabled = TRUE] ELSE as[j]]

(* An assertion named for the table, on a query that refers to what the    *)
(* table's target is when the query runs.                                  *)
Generate(as, i, label) ==
  LET t == as[i].target
      made == DefineAssertion(as, t.schema \o t.name \o <<label>>)
  IN [made EXCEPT ![Len(made)].query = <<<<"refParent", i>>>>,
                  ![Len(made)].parentAction = t,
                  ![Len(made)].disabled = as[i].disabled]

UniqueKeyAssertion(as, i, label) ==
  [Generate(as, i, label) EXCEPT ![i].uniqueKeyAssertions = @ \cup {Len(as) + 1}]
RowConditionsAssertion(as, i) ==
  [Generate(as, i, "rowConditions") EXCEPT ![i].rowConditionsAssertion = Len(as) + 1]

(* assertions(): one key, or a list, here of two.                          *)
Assertions(as, i, wanted) ==
  LET first == IF wanted \cap {"uniqueKey", "uniqueKeys"} # {}
               THEN UniqueKeyAssertion(as, i, "uniqueKey0") ELSE as
      both == IF "uniqueKeys" \in wanted /\ "uniqueKey" \notin wanted
              THEN UniqueKeyAssertion(first, i, "uniqueKey1") ELSE first
  IN IF "rowConditions" \in wanted THEN RowConditionsAssertion(both, i) ELSE both

(* What config() of every builder of an action in the graph begins with.   *)
Described(as, i, c) ==
  LET a1 == Hermetic(Dependencies(as, i, c.dependencies), i, c.hermetic)
      a2 == IF c.disabled THEN Disable(a1, i) ELSE a1
  IN Options(Tags(a2, i, c.tags), i, c.props)

(* Mutant: assertions are made before the schema is set.                   *)
ConfigAssertsFirst(as, i, c) ==
  Located(Assertions(Described(Type(as, i, c.type), i, c), i, c.assertions), i, c)

(* config() of each builder, which calls its others in one order.          *)
TableConfig(as, i, c) ==
  Assertions(Located(Described(Type(as, i, c.type), i, c), i, c), i, c.assertions)
OperationConfig(as, i, c) ==
  LET described == Described(as, i, [c EXCEPT !.props = @ \cap {"description", "columns"}])
      output == IF c.hasOutput THEN HasOutput(described, i, TRUE) ELSE described
  IN Located(output, i, c)
AssertionConfig(as, i, c) ==
  Located(Described(as, i, [c EXCEPT !.props = @ \cap {"description"}]), i, c)
DeclarationConfig(as, i, c) == Options(as, i, c.props \cap {"description", "columns"})

Config(as, i, c) ==
  CASE as[i].kind = "table" -> TableConfig(as, i, c)
    [] as[i].kind = "operation" -> OperationConfig(as, i, c)
    [] as[i].kind = "assertion" -> AssertionConfig(as, i, c)
    [] as[i].kind = "declaration" -> DeclarationConfig(as, i, c)

(* checkExcessProperties(): what a config gives besides the target and the *)
(* type, against what the builder of each kind supports.                   *)
OptionsGiven(c) ==
  c.props \cup {o \in {"dependencies", "disabled", "hasOutput", "hermetic", "tags", "assertions"} :
                  c[o] # NoConfig[o]}
ForEveryAction == {"dependencies", "disabled", "hermetic", "tags", "description"}
ExcessProperties(kind, c) ==
  CASE kind = "table" -> OptionsGiven(c) \cap {"hasOutput", "where", "preOps", "postOps"}
    [] kind = "operation" -> OptionsGiven(c) \ (ForEveryAction \cup {"hasOutput", "columns"})
    [] kind = "assertion" -> OptionsGiven(c) \ ForEveryAction
    [] kind = "declaration" -> OptionsGiven(c) \ {"description", "columns"}
    [] kind = "test" -> OptionsGiven(c)
ConfigErrors(kind, c) ==
  (IF ExcessProperties(kind, c) # {} THEN {"property"} ELSE {})
  \cup (IF kind = "table" /\ {"uniqueKey", "uniqueKeys"} \subseteq c.assertions
        THEN {"unique keys"} ELSE {})

(* sqlxAction(): a file's blocks that its type does not allow.             *)
DefinesDataset(type) == type \in {"view", "table", "inline", "incremental"}
KindOf(type) == IF DefinesDataset(type) THEN "table" ELSE type
SqlxErrors(src) ==
  {e \in {"statements", "protected", "incremental_where", "input", "pre_operations",
          "post_operations"} \cap src.blocks :
     CASE e = "statements" -> src.type # "operation"
       [] e \in {"protected", "incremental_where"} -> src.type # "incremental"
       [] e = "input" -> src.type # "test"
       [] OTHER -> ~DefinesDataset(src.type)}
  \cup (IF src.type = "declaration" /\ src.config.schema = <<>> THEN {"schema"} ELSE {})
  \cup ConfigErrors(KindOf(src.type), src.config)

(* The action of a file: defined, configured, given its query.             *)
Defined(src) ==
  LET made == CASE DefinesDataset(src.type) -> Publish(actions, src.name)
                [] src.type = "operation" -> Operate(actions, src.name)
                [] src.type = "assertion" -> DefineAssertion(actions, src.name)
                [] src.type = "declaration" ->
                     Declare(actions, [database |-> src.config.database,
                                       schema |-> src.config.schema, name |-> src.name])
      i == Len(made)
  IN [Config(made, i, src.config) EXCEPT ![i].query = src.query]
-----------------------------------------------------------------------------
(* findActions(): whatever part of the path is given must match.           *)
FindActions(as, ref) ==
  {i \in DOMAIN as :
     /\ ref.database # <<>> => as[i].target.database = ref.database
     /\ ref.schema # <<>> => as[i].target.schema = ref.schema
     /\ as[i].target.name = ref.name}

(* With the suffixes and the prefix of the project.                        *)
Renamed(t) ==
  [database |-> IF t.database = <<>> THEN <<>> ELSE t.database \o config.suffix,
   schema |-> t.schema \o config.suffix,
   name |-> config.prefix \o t.name]

(* resolve(): the first match, the assumed name if there is none.          *)
First(is) == CHOOSE i \in is : \A j \in is : i <= j
Resolve(as, ref) ==
  LET found == FindActions(as, ref)
      a == as[First(found)]
  IN CASE found = {} -> <<"name", Renamed(Target(config.defaultSchema, ref))>>
       [] found # {} /\ a.type = "inline" -> <<"text", a.text>>
       [] found # {} /\ a.kind = "declaration" -> <<"name", a.target>>
       [] OTHER -> <<"name", Renamed(a.target)>>

ResolveErrors(as, ref) ==
  LET found == FindActions(as, ref)
  IN (IF Cardinality(found) > 1 THEN {"ambiguous"} ELSE {})
     \cup (IF found # {} /\ as[First(found)].kind = "operation" /\ ~as[First(found)].hasOutput
           THEN {"no output"} ELSE {})

(* The actions whose targets have changed.                                 *)
Moves(as, bs) == {i \in DOMAIN as : bs[i].target # as[i].target}

(* A call of a query on its context.  ref() adds the dependency, then      *)
(* resolves.  What every context has, and the text around the calls:       *)
Ref(r, i, ref) ==
  LET read == [Dependencies(r.as, i, {ref}) EXCEPT
                 ![i].text = Append(@, <<"ref", Resolve(r.as, ref)>>)]
  IN [r EXCEPT !.as = read, !.errors = @ \cup ResolveErrors(r.as, ref)]
CommonCalls == {"ref", "refParent", "resolve", "dependencies", "tags", "text", "throw"}
CommonCall(r, i, c) ==
  CASE c[1] = "ref" -> Ref(r, i, c[2])
    [] c[1] = "refParent" -> Ref(r, i, r.as[c[2]].target)
    [] c[1] = "resolve" ->
         [r EXCEPT !.as[i].text = Append(@, <<"resolve", Resolve(r.as, c[2])>>),
                   !.errors = @ \cup ResolveErrors(r.as, c[2])]
    [] c[1] = "dependencies" -> [r EXCEPT !.as = Dependencies(@, i, c[2])]
    [] c[1] = "tags" -> [r EXCEPT !.as = Tags(@, i, c[2])]
    [] c[1] = "text" -> [r EXCEPT !.as[i].text = Append(@, c)]
    [] c[1] = "throw" -> [r EXCEPT !.threw = TRUE]

(* What the context of each builder has besides: that of an assertion has  *)
(* nothing.  A call that a context lacks is a TypeError.                   *)
TableCalls == {"config", "type", "disabled", "preOps", "options"}
TableCall(r, i, c) ==
  CASE c[1] = "config" -> [r EXCEPT !.as = TableConfig(@, i, c[2]),
                                    !.errors = @ \cup ConfigErrors("table", c[2]),
                                    !.moved = @ \cup Moves(r.as, TableConfig(r.as, i, c[2]))]
    [] c[1] = "type" -> [r EXCEPT !.as = Type(@, i, c[2])]
    [] c[1] = "disabled" -> [r EXCEPT !.as = Disable(@, i)]
    [] c[1] = "preOps" -> [r EXCEPT !.as[i].preOps = @ + 1]
    [] c[1] = "options" -> [r EXCEPT !.as = Options(@, i, c[2])]
OperationCall(r, i, c) == [r EXCEPT !.as = HasOutput(@, i, c[2])]

ContextCall(r, i, c) ==
  IF r.threw THEN r
  ELSE IF c[1] \in CommonCalls THEN CommonCall(r, i, c)
  ELSE IF r.as[i].kind = "table" /\ c[1] \in TableCalls THEN TableCall(r, i, c)
  ELSE IF r.as[i].kind = "operation" /\ c[1] = "hasOutput" THEN OperationCall(r, i, c)
  ELSE [r EXCEPT !.threw = TRUE]

(* context.apply(): the calls of the query, one after the other.           *)
Apply(r, i) ==
  LET query == r.as[i].query
      after[n \in 0..Len(query)] ==
        IF n = 0 THEN r ELSE LET before == after[n - 1] IN ContextCall(before, i, query[n])
  IN after[Len(query)]

(* compile() of a builder.  An incremental table runs its query again, in  *)
(* a second context, for its incremental form.  Before its queries run, an *)
(* operation must have an output to describe columns.  Afterwards the text *)
(* of a table or an assertion must not end in a semicolon.                 *)
CompiledTable(r, i) ==
  LET once == Apply(r, i) IN IF once.as[i].type = "incremental" THEN Apply(once, i) ELSE once
CompiledOperation(r, i) ==
  Apply([r EXCEPT !.errors = IF "columns" \in r.as[i].props /\ ~r.as[i].hasOutput
                             THEN @ \cup {"columns"} ELSE @], i)
ValidateQueryString(r, i) ==
  IF ~r.threw /\ r.as[i].text # <<>> /\ Last(r.as[i].text) = <<"text", ";">>
  THEN [r EXCEPT !.errors = @ \cup {"semicolon"}] ELSE r
Compiled(i) ==
  LET r == [as |-> actions, errors |-> {}, threw |-> FALSE, moved |-> moved]
  IN CASE actions[i].kind = "table" -> ValidateQueryString(CompiledTable(r, i), i)
       [] actions[i].kind = "operation" -> CompiledOperation(r, i)
       [] actions[i].kind = "assertion" -> ValidateQueryString(Apply(r, i), i)
       [] actions[i].kind = "declaration" -> r

(* compile() of a test: the query of its dataset, with the test's inputs   *)
(* where the query refers to others, by the name it uses; its other calls  *)
(* do nothing.                                                             *)
RefsOf(i) == {actions[i].query[k][2] : k \in {k \in DOMAIN actions[i].query :
                                               actions[i].query[k][1] \in {"ref", "resolve"}}}
Tested(t) == IF t.dataset = NoTarget THEN {} ELSE FindActions(actions, t.dataset)
Testable(t) ==
  /\ Tested(t) # {}
  /\ actions[First(Tested(t))].kind = "table"
  /\ actions[First(Tested(t))].type # "incremental"
TestErrors(t) ==
  (IF Cardinality(Tested(t)) > 1 THEN {"ambiguous"} ELSE {})
  \cup (IF ~Testable(t) THEN {"test dataset"}
        ELSE IF RefsOf(First(Tested(t))) \subseteq t.inputs THEN {} ELSE {"test input"})
TestQuery(t) ==
  IF Testable(t) THEN [t EXCEPT !.testQuery = RefsOf(First(Tested(t))) \cap t.inputs] ELSE t
-----------------------------------------------------------------------------
(* The graph: tables first, then operations, assertions, declarations.     *)
Of(is, kind) == {i \in is : actions[i].kind = kind}
Graph == compiled \ Of(compiled, "declaration")

(* compileGraphChunk() goes through the actions of a kind there were when  *)
(* the chunk was begun; a query of a table can only add assertions.        *)
Waiting(kind) == Of(DOMAIN actions, kind) \ (compiled \cup thrown)
NextToCompile ==
  LET kinds == {k \in {"table", "operation", "assertion", "declaration"} : Waiting(k) # {}}
      kind == CASE "table" \in kinds -> "table" [] "operation" \in kinds -> "operation"
                [] "assertion" \in kinds -> "assertion" [] OTHER -> "declaration"
  IN First(Waiting(kind))

Inline(as, i) == as[i].kind = "table" /\ as[i].type = "inline"

(* What is reached from the start in n rounds, f giving what leads where.  *)
Reached(f, start, n) ==
  LET within[k \in 0..n] ==
        IF k = 0 THEN start
        ELSE within[k - 1] \cup UNION {f[x] : x \in within[k - 1] \cap DOMAIN f}
  IN within[n]

(* Mutant: an inline table gives no dependencies.                          *)
ThroughNothing(as, ref) == {}

(* The dependencies of the inline table that alone is found by a name.     *)
Through(as, ref) ==
  UNION {as[i].dependencyTargets : i \in {j \in DOMAIN as : Inline(as, j) /\ FindActions(as, ref) = {j}}}

(* The dependencies of an action, and, through inline tables, theirs: the  *)
(* list grows while it is gone through.  Each round that adds any has come *)
(* to another inline table.                                                *)
Expanded(as, refs) ==
  LET all == refs \cup UNION {as[i].dependencyTargets : i \in DOMAIN as}
  IN Reached([r \in all |-> Through(as, r)], refs, Len(as))

(* Inline tables that lead to themselves are gone through for ever.        *)
InlineCycle(as, i) ==
  \E j \in DOMAIN as :
    /\ Inline(as, j)
    /\ \E r \in Expanded(as, as[i].dependencyTargets) : FindActions(as, r) = {j}
    /\ \E r \in Expanded(as, as[j].dependencyTargets) : FindActions(as, r) = {j}

QualifyErrors(as, i) ==
  {IF FindActions(as, r) = {} THEN "missing" ELSE "ambiguous" :
     r \in {q \in Expanded(as, as[i].dependencyTargets) : Cardinality(FindActions(as, q)) # 1}}

(* Mutant: inline tables are kept as dependencies.                         *)
QualifiedInlines(as, i) ==
  {as[First(FindActions(as, r))].target :
     r \in {q \in as[i].dependencyTargets : Cardinality(FindActions(as, q)) = 1}}

Qualified(as, i) ==
  {as[First(FindActions(as, r))].target :
     r \in {q \in Expanded(as, as[i].dependencyTargets) :
              Cardinality(FindActions(as, q)) = 1 /\ ~Inline(as, First(FindActions(as, q)))}}

(* alterActionName(): targets that no action of the graph had have no new  *)
(* name: a parent is forgotten, a dependency is a TypeError.               *)
KnownTargets == {actions[i].target : i \in compiled}
NewTarget(t) ==
  IF t \in {actions[i].target : i \in Graph} THEN Renamed(t)
  ELSE IF t \in KnownTargets THEN t ELSE NoTarget
Altered(i) ==
  [actions[i] EXCEPT !.target = Renamed(@),
                     !.dependencyTargets = {NewTarget(t) : t \in @},
                     !.parentAction = IF @ = NoTarget THEN @ ELSE NewTarget(@)]
-----------------------------------------------------------------------------
(* The checks of the graph.                                                *)
NamesTwice(field(_)) ==
  \E i, j \in compiled : i # j /\ field(actions[i]) = field(actions[j])
CheckActionNameUniqueness ==
  IF NamesTwice(LAMBDA a : a.target) THEN {"duplicate name"} ELSE {}
CheckCanonicalTargetUniqueness ==
  IF NamesTwice(LAMBDA a : a.canonicalTarget) THEN {"duplicate canonical target"} ELSE {}

(* checkTableConfigValidity(), for each option the types it is valid for.  *)
ValidFor ==
  [secure |-> {"view"}, transient |-> {"table"}, snowflakeClusterBy |-> {"table", "incremental"},
   sqlDataWarehouseUniqueKey |-> {}, badDistribution |-> {}, distStyleWithoutKey |-> {},
   sortStyleWithoutKeys |-> {}, partitionBy |-> {"table", "incremental", "inline"}]
IgnoredInline ==
  {"bigquery", "redshift", "snowflake", "sqlDataWarehouse", "presto", "postOps", "where",
   "description", "columns"}
CheckTableConfigValidity ==
  IF \E i \in Of(compiled, "table") :
       \/ \E p \in actions[i].props \cap DOMAIN ValidFor : actions[i].type \notin ValidFor[p]
       \/ actions[i].type = "inline"
            /\ (actions[i].disabled \/ actions[i].preOps > 0
                  \/ actions[i].props \cap IgnoredInline # {})
  THEN {"config"} ELSE {}

(* The library's strongly connected components, of more than one action.   *)
DependsOn(i) == {j \in Graph : actions[j].target \in actions[i].dependencyTargets}
Reach(is) == Reached([i \in DOMAIN actions |-> DependsOn(i)], is, Len(actions))
Cyclic == {i \in Graph : \E j \in Reach(DependsOn(i)) \ {i} : i \in Reach(DependsOn(j))}
CheckCircularity == IF Cyclic # {} THEN {"circular"} ELSE {}

CheckRunCachingCorrectness ==
  IF config.useRunCache
     /\ \E i \in Graph : /\ actions[i].kind = "operation" => actions[i].hasOutput
                         /\ actions[i].dependencyTargets = {}
                         /\ actions[i].hermetic = "unset"
  THEN {"hermeticity"} ELSE {}
-----------------------------------------------------------------------------
SessionInit ==
  /\ config \in ProjectConfigs
  /\ actions = <<>> /\ tests = <<>> /\ graphErrors = {} /\ compiled = {} /\ thrown = {}
  /\ phase = "define" /\ calls = 0 /\ moved = {}

Generated(as, i) == (as[i].uniqueKeyAssertions \cup {as[i].rowConditionsAssertion}) \ {0}
Own == {i \in DOMAIN actions : actions[i].parentAction = NoTarget}
CanStep == phase = "define" /\ Cardinality(Own) + Cardinality(DOMAIN tests) + calls < MaxSteps

(* A definition file is required.                                          *)
SqlxAction(src) ==
  /\ CanStep /\ src.type # "test"
  /\ actions' = Defined(src)
  /\ graphErrors' = graphErrors \cup SqlxErrors(src)
  /\ UNCHANGED <<config, tests, compiled, thrown, phase, calls, moved>>

(* test(): one test for each name, the last that was defined.              *)
NewTest(src) == [dataset |-> src.dataset, inputs |-> src.inputs, testQuery |-> {}]
SqlxTest(src) ==
  /\ CanStep /\ src.type = "test"
  /\ tests' = [n \in DOMAIN tests \cup {src.name} |->
                 IF n = src.name THEN NewTest(src) ELSE tests[n]]
  /\ graphErrors' = graphErrors \cup SqlxErrors(src)
  /\ UNCHANGED <<config, actions, compiled, thrown, phase, calls, moved>>

(* A call on the builder a definition returned.                            *)
ActionCalls == {"schema", "database", "dependencies", "disabled", "tags"}
CallsOf(kind) ==
  CASE kind = "table" -> ActionCalls \cup {"type", "assertions"}
    [] kind = "operation" -> ActionCalls \cup {"hasOutput"}
    [] kind = "assertion" -> ActionCalls
    [] kind = "declaration" -> {}
Called(i, c) ==
  CASE c[1] = "schema" -> Schema(actions, i, c[2])
    [] c[1] = "database" -> Database(actions, i, c[2])
    [] c[1] = "dependencies" -> Dependencies(actions, i, c[2])
    [] c[1] = "disabled" -> Disable(actions, i)
    [] c[1] = "tags" -> Tags(actions, i, c[2])
    [] c[1] = "type" -> Type(actions, i, c[2])
    [] c[1] = "assertions" -> Assertions(actions, i, c[2])
    [] c[1] = "hasOutput" -> HasOutput(actions, i, c[2])
Call(i, c) ==
  /\ CanStep
  /\ i \in Own /\ c[1] \in CallsOf(actions[i].kind)
  /\ actions' = Called(i, c)
  /\ calls' = calls + 1
  /\ moved' = moved \cup {j \in Moves(actions, actions') : Generated(actions, j) # {}}
  /\ UNCHANGED <<config, tests, graphErrors, compiled, thrown, phase>>

StartCompile ==
  /\ phase = "define" /\ actions # <<>>
  /\ phase' = "compile"
  /\ UNCHANGED <<config, actions, tests, graphErrors, compiled, thrown, calls, moved>>

(* compileGraphChunk(): a query that throws keeps its action out of the    *)
(* graph, not out of the session.                                          *)
CompileAction ==
  /\ phase = "compile"
  /\ \E k \in {"table", "operation", "assertion", "declaration"} : Waiting(k) # {}
  /\ LET i == NextToCompile
         r == Compiled(i)
     IN /\ actions' = r.as
        /\ graphErrors' = graphErrors \cup r.errors \cup (IF r.threw THEN {"thrown"} ELSE {})
        /\ IF r.threw THEN thrown' = thrown \cup {i} /\ UNCHANGED compiled
           ELSE compiled' = compiled \cup {i} /\ UNCHANGED thrown
        /\ moved' = r.moved
  /\ UNCHANGED <<config, tests, phase, calls>>

ChunksDone ==
  /\ phase = "compile"
  /\ \A k \in {"table", "operation", "assertion", "declaration"} : Waiting(k) = {}
  /\ phase' = "qualify"
  /\ tests' = [n \in DOMAIN tests |-> TestQuery(tests[n])]
  /\ graphErrors' = graphErrors \cup UNION {TestErrors(tests[n]) : n \in DOMAIN tests}
  /\ UNCHANGED <<config, actions, compiled, thrown, calls, moved>>

FullyQualifyDependencies ==
  /\ phase = "qualify"
  /\ IF \E i \in Graph : InlineCycle(actions, i)
     THEN phase' = "endless" /\ UNCHANGED <<actions, graphErrors>>
     ELSE /\ phase' = "alter"
          /\ actions' = [i \in DOMAIN actions |->
               IF i \in Graph THEN [actions[i] EXCEPT !.dependencyTargets = Qualified(actions, i)]
               ELSE actions[i]]
          /\ graphErrors' = graphErrors \cup UNION {QualifyErrors(actions, i) : i \in Graph}
  /\ UNCHANGED <<config, tests, compiled, thrown, calls, moved>>

AlterActionName ==
  /\ phase = "alter"
  /\ CASE config.prefix = <<>> /\ config.suffix = <<>> ->
            phase' = "check" /\ UNCHANGED actions
       [] OTHER ->
            /\ actions' = [i \in DOMAIN actions |-> IF i \in Graph THEN Altered(i) ELSE actions[i]]
            /\ phase' = IF \E i \in Graph : NoTarget \in actions'[i].dependencyTargets
                        THEN "crashed" ELSE "check"
  /\ UNCHANGED <<config, tests, graphErrors, compiled, thrown, calls, moved>>

Check ==
  /\ phase = "check"
  /\ phase' = "compiled"
  /\ graphErrors' =
       graphErrors \cup CheckActionNameUniqueness \cup CheckCanonicalTargetUniqueness
         \cup CheckTableConfigValidity \cup CheckCircularity \cup CheckRunCachingCorrectness
  /\ UNCHANGED <<config, actions, tests, compiled, thrown, calls, moved>>

SessionNext ==
  \/ \E src \in Sources : SqlxAction(src) \/ SqlxTest(src)
  \/ \E i \in DOMAIN actions, c \in LateCalls : Call(i, c)
  \/ StartCompile \/ CompileAction \/ ChunksDone
  \/ FullyQualifyDependencies \/ AlterActionName \/ Check
=============================================================================
