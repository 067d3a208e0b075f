----------------------------- MODULE TestCommand -----------------------------
(***************************************************************************)
(* runTest() of src/api/commands/test.ts: the query of a unit test and the *)
(* query of what it should give are executed together, and their rows are  *)
(* compared, whatever the case and the order of the columns.               *)
(*                                                                         *)
(* A row is a function from names of columns to values; a value has a type *)
(* of JavaScript, and null is an object.  Results are those that byteLimit *)
(* has let through.                                                        *)
(***************************************************************************)
EXTENDS Naturals, Sequences, FiniteSets

CONSTANTS
  Results,     \* what a query may give: sequences of rows
  UpperCase,   \* toUpperCase(), of every name of a column
  Cells        \* values of columns

Rows == UNION {[names -> Cells] : names \in SUBSET DOMAIN UpperCase}

(* The rows of a result have the same columns, and runTest() assumes that  *)
(* "column names are unique".                                              *)
ASSUME TestCaseAssumption ==
  /\ IsFiniteSet(DOMAIN UpperCase) /\ Results \subseteq Seq(Rows)
  /\ \A cell \in Cells : cell = [type |-> cell.type, value |-> cell.value]
  /\ \A rows \in Results : \A i \in DOMAIN rows :
       /\ DOMAIN rows[i] = DOMAIN rows[1]
       /\ \A c, d \in DOMAIN rows[i] : UpperCase[c] = UpperCase[d] => c = d

VARIABLES
  actual,      \* what testQuery gives, chosen once
  expected,    \* what expectedOutputQuery gives, chosen once
  executions,  \* how far the two are
  verdict      \* of the test

testCaseVars == <<actual, expected, executions, verdict>>

Undefined == [type |-> "undefined", value |-> 0]

TestCaseInit ==
  /\ actual \in Results /\ expected \in Results
  /\ executions = [actual |-> "running", expected |-> "running"]
  /\ verdict = "none"
-----------------------------------------------------------------------------
(* Object.keys() of the first row.                                         *)
Columns(rows) == DOMAIN rows[1]

(* Mutant: the columns that are there are looked for, not those expected.  *)
SameColumnsBackwards(rows, others) ==
  \A c \in Columns(rows) : \E d \in Columns(others) : UpperCase[c] = UpperCase[d]

SameColumns(rows, others) ==
  /\ Cardinality(Columns(rows)) = Cardinality(Columns(others))
  /\ \A d \in Columns(others) : \E c \in Columns(rows) : UpperCase[c] = UpperCase[d]

(* normalizeRow(), asked for one column: undefined when there is none.     *)
At(row, column) ==
  IF \E d \in DOMAIN row : UpperCase[d] = column
  THEN row[CHOOSE d \in DOMAIN row : UpperCase[d] = column] ELSE Undefined

(* Types are compared first: a row's comparison ends at a difference.      *)
SameRow(row, other, columns) ==
  \A c \in columns :
    /\ At(row, UpperCase[c]).type = At(other, UpperCase[c]).type
    /\ At(row, UpperCase[c]).value = At(other, UpperCase[c]).value

Successful ==
  /\ Len(actual) = Len(expected)
  /\ actual # <<>> =>
       /\ SameColumns(actual, expected)
       /\ \A i \in DOMAIN actual : SameRow(actual[i], expected[i], Columns(actual))

Answered(q) ==
  /\ executions[q] = "running"
  /\ executions' = [executions EXCEPT ![q] = "answered"]
  /\ verdict' = IF verdict = "none" /\ \A p \in DOMAIN executions : executions'[p] = "answered"
                THEN IF Successful THEN "successful" ELSE "failed"
                ELSE verdict
  /\ UNCHANGED <<actual, expected>>

(* The first that fails is the verdict; the other goes on.                 *)
Rejected(q) ==
  /\ executions[q] = "running"
  /\ executions' = [executions EXCEPT ![q] = "rejected"]
  /\ verdict' = "failed"
  /\ UNCHANGED <<actual, expected>>

TestCaseNext == \E q \in DOMAIN executions : Answered(q) \/ Rejected(q)
-----------------------------------------------------------------------------
(* A result as a table: its rows with the names of columns in upper case.  *)
Table(rows) ==
  [i \in DOMAIN rows |-> {<<UpperCase[c], rows[i][c]>> : c \in DOMAIN rows[i]}]

(* A test succeeds exactly when both queries have given the same table, in *)
(* whichever order they end (api/commands/test.ts:11-115).                 *)
TestVerdicts ==
  \A q \in DOMAIN executions : executions[q] # "running" =>
    /\ verdict = "successful" =>
         /\ Table(actual) = Table(expected)
         /\ \A p \in DOMAIN executions : executions[p] = "answered"
    /\ verdict = "failed" =>
         \/ \E p \in DOMAIN executions : executions[p] = "rejected"
         \/ Table(actual) # Table(expected)
=============================================================================
