------------------------------ MODULE MCProject ------------------------------
(***************************************************************************)
(* Small projects for TLC: files from a menu, a few calls on the builders  *)
(* they return, with and without affixes, compiled and pruned.  And the    *)
(* contents of SQLX files, each lexed, compiled, formatted and compiled    *)
(* again: everything of at most three symbols, and longer ones.            *)
(***************************************************************************)
EXTENDS Prune, Sqlx

VARIABLE part   \* rigid: "project" or "sqlx"

a == <<"a">>
b == <<"b">>
T(schema, name) == [database |-> <<>>, schema |-> schema, name |-> name]
NameOnly(name) == T(<<>>, name)

SmallConfigs ==
  {[prefix |-> <<>>, suffix |-> <<>>, defaultSchema |-> <<"s">>, canonicalSchema |-> <<"s">>,
    assertionSchema |-> <<"assertions">>, useRunCache |-> FALSE],
   [prefix |-> <<"p">>, suffix |-> <<"dev">>, defaultSchema |-> <<"s">>, canonicalSchema |-> <<"o">>,
    assertionSchema |-> <<"assertions">>, useRunCache |-> TRUE]}

Src(type, name, c, query) ==
  [type |-> type, name |-> name, config |-> [c EXCEPT !.type = IF DefinesDataset(type) THEN type ELSE ""],
   query |-> query, blocks |-> {}, dataset |-> NoTarget, inputs |-> {}]

ToA == <<<<"ref", NameOnly(a)>>>>
ToB == <<<<"ref", T(<<"s">>, b)>>>>
Asserted == [NoConfig EXCEPT !.assertions = {"uniqueKey", "rowConditions"}, !.schema = <<"t">>]
Declared == [NoConfig EXCEPT !.hermetic = "hermetic"]

SmallSources ==
  {Src("table", a, NoConfig, ToB), Src("table", a, Declared, <<>>), Src("table", b, NoConfig, ToA),
   Src("table", b, [Declared EXCEPT !.tags = {"tag"}], <<>>),
   Src("inline", a, NoConfig, ToB), Src("inline", b, NoConfig, ToA), Src("inline", b, Declared, <<>>),
   Src("incremental", b, [NoConfig EXCEPT !.props = {"protected"}], ToA \o <<<<"preOps">>>>),
   Src("view", a, Asserted, <<>>),
   Src("view", <<"c">>, NoConfig, ToA \o ToB), Src("view", <<"c">>, [Asserted EXCEPT !.disabled = TRUE], ToA),
   Src("view", <<"c">>, [Declared EXCEPT !.props = {"partitionBy"}], <<>>),
   Src("view", <<"c">>, NoConfig, <<<<"config", Asserted>>, <<"disabled">>, <<"resolve", NameOnly(b)>>>>),
   Src("view", b, NoConfig, ToA \o <<<<"throw">>>>),
   Src("operation", b, [Declared EXCEPT !.hasOutput = TRUE], <<>>), Src("operation", a, NoConfig, ToB),
   Src("operation", b, [Declared EXCEPT !.props = {"columns"}], <<<<"tags", {"tag"}>>, <<"hasOutput", TRUE>>>>),
   Src("operation", a, [Declared EXCEPT !.props = {"columns"}, !.hasOutput = TRUE], ToB \o <<<<"tags", {"tag"}>>>>),
   Src("assertion", <<"c">>, NoConfig, ToA), Src("assertion", <<"c">>, [NoConfig EXCEPT !.tags = {"tag"}, !.schema = <<"t">>], ToB),
   Src("assertion", <<"c">>, [NoConfig EXCEPT !.props = {"columns"}], ToA \o <<<<"preOps">>>>),
   Src("view", b, [Asserted EXCEPT !.assertions = {"uniqueKeys"}], <<<<"dependencies", {NameOnly(a)}>>, <<"text", ";">>>>),
   Src("view", b, [Asserted EXCEPT !.assertions = {"uniqueKeys"}], <<<<"dependencies", {NameOnly(a)}>>>>),
   Src("declaration", a, [NoConfig EXCEPT !.schema = <<"s">>], <<>>),
   Src("declaration", <<"p", "b">>, [NoConfig EXCEPT !.schema = <<"s", "dev">>], <<>>),
   [Src("view", <<"c">>, NoConfig, ToB) EXCEPT !.blocks = {"incremental_where", "pre_operations"}],
   [Src("test", a, NoConfig, <<>>) EXCEPT !.dataset = NameOnly(b), !.inputs = {NameOnly(a)}]}

SmallCalls ==
  {<<"schema", <<"t">>>>, <<"database", <<"d">>>>, <<"dependencies", {NameOnly(b)}>>, <<"type", "incremental">>,
   <<"disabled">>, <<"assertions", {"rowConditions"}>>, <<"tags", {"tag"}>>, <<"hasOutput", TRUE>>}

(* The theorem about texts is about such projects, among others.           *)
ASSUME SmallQueriesArePlain == PlainQueries

Run(selected, tags, down, up) ==
  [actions |-> selected, tags |-> tags, includeDependencies |-> down, includeDependents |-> up,
   fullRefresh |-> selected = <<>> /\ tags = {}]
SmallRuns ==
  {Run(<<>>, {}, FALSE, FALSE), Run(<<>>, {"tag"}, TRUE, FALSE), Run(<<NameOnly(b)>>, {}, TRUE, TRUE),
   Run(<<NameOnly(b)>>, {}, FALSE, TRUE), Run(<<T(<<"s">>, a)>>, {"tag"}, FALSE, FALSE),
   Run(<<NameOnly(<<"c">>)>>, {}, TRUE, FALSE)}

Symbols == {"config {", "pre_operations {", "${", "}", "'", "\"", "backtick", "\\", "--", "---",
            "\n", "/*", "*/"}
Ended(text) == \A i \in DOMAIN text : text[i] = "/*" => \E j \in i..Len(text) : text[j] = "*/"
ShortTexts == {text \in UNION {[1..n -> Symbols] : n \in 0..3} : Ended(text)}

q == "'"
t == "backtick"
pre == "pre_operations {"
LongTexts ==
 {<<"select", "\n", "js {", "let", "{", "}", "\n", "//", "}", q, "\n", "}", "from", "${", "x", "}">>,
  <<"config {", "}", "\n", pre, "a", "\n", "---", "\n", "b", "}", "\n", "c", "\n", "---", "\n", "d">>,
  <<"incremental_where {", "a", "}", "b", "post_operations {", "${", t, "${", "x", "}", t, "}", "}">>,
  <<"incremental_where {", "a", "\n", "---", "\n", "b", "}", "select", "1">>,
  <<"input {", "a", "}", "input {", "b", "}", "select", "--", "c", "\n", "x">>,
  <<"a", "${", t, "b", "\\", "${", t, "}", "c">>,
  <<"a", "${", t, "\\", "\\", "${", "{", "}", "}", t, "}", "b">>,
  <<"a", q, "b", "\\", q, "${", "x", "}", q, "c">>, <<"a", q, "b", "\n", "${", "f", "\n", "}", q, "c">>,
  <<"a", "/*", "b", "\n", "c", "*/", "d", "--", "e", "${", "\n", "f">>,
  <<"a", "/*", "config {", "b", "}", "*/", "c">>,
  <<pre, "a", "}", pre, "b", "--", "}", "\n", "}", "c">>,
  <<"config {", "\"", "}", "\\", "\"", "\"", "}", "a", "config {", "}">>,
  <<"a", "\\", "\\", q, "\\", "\\", q, t, "b", t>>,
  <<pre, "${", "{", "}", "}", q, "}", q, "}", "\n", "---", "\n">>,
  <<"js {", "//", "}", "\n", "/*", "}", "*/", q, "}", q, "a", "}", "b", "---", "c">>,
  <<"a", "\"", "b", q, "c", "\"", "--", "d", "\n", "/*", "e", "*/">>,
  <<pre, "\n", "---", "\n", "---", "\n", "}", "---">>,
  <<"a", "config {", "b", "}", "c", "js {", "d", "}", "e">>}
SmallTexts == ShortTexts \cup LongTexts

(* The other part stays as it began, with something that is not read.      *)
Init ==
  \/ part = "project" /\ PruneInit /\ SqlxInit /\ code = <<>>
  \/ part = "sqlx" /\ PruneInit /\ config = (CHOOSE c \in ProjectConfigs : TRUE) /\ SqlxInit
Next ==
  \/ part = "project" /\ PruneNext /\ UNCHANGED <<sqlxVars, part>>
  \/ part = "sqlx" /\ SqlxNext /\ UNCHANGED <<projectVars, part>>
Spec == Init /\ [][Next]_<<projectVars, sqlxVars, part>>
=============================================================================
