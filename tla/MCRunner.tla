------------------------------ MODULE MCRunner ------------------------------
(***************************************************************************)
(* Small graphs for TLC, and the run executor as an implementation of      *)
(* DagExecution.                                                           *)
(***************************************************************************)
EXTENDS Runner, TLC

CONSTANTS a, b, c, d, x, s, t

Three == {a, b, c}
Four == {a, b, c, d}

(* c waits for the others; x is not in the graph.                          *)
JoinDeps  == a :> {} @@ b :> {x} @@ c :> {a, b, d} @@ d :> {}
ForkDeps  == a :> {} @@ b :> {} @@ c :> {a, b}
ChainDeps == a :> {} @@ b :> {a} @@ c :> {b}

(* a is built in two statements, b is an assertion, c an operation, and d  *)
(* is disabled: it has no tasks.                                           *)
JoinTasks == a :> <<"statement", "operation">> @@ b :> <<"assertion">>
             @@ c :> <<"operation">> @@ d :> <<>>
ForkTasks == a :> <<"statement", "operation">> @@ b :> <<"assertion">> @@ c :> <<"operation">>
StatementTasks == [n \in Actions |-> <<"statement">>]

OneSchema  == [n \in Actions |-> s]
TwoSchemas == [n \in Actions |-> IF n = a THEN s ELSE t]

None == {}
OnlyA == {a}
=============================================================================
