---------------------------- MODULE DagExecution ----------------------------
(***************************************************************************)
(* What a run promises its caller, without how src/api/commands/run.ts     *)
(* keeps it: actions of a dependency graph go from no outcome to a final   *)
(* one, a start is justified by successful dependencies and a skip by a    *)
(* cancelled run or a dependency that ended badly, and the verdict is      *)
(* given once, when nothing is in progress, and agrees with the outcomes.  *)
(* Several actions may change in one step: a cancel skips all of them, and *)
(* an action's return starts the actions that waited for it.               *)
(***************************************************************************)
CONSTANTS Actions, Deps

VARIABLES
  outcome,   \* "none", "running", "success", "failure" or "skipped"
  aborted,   \* the run was cancelled at some time
  verdict    \* "open", "success", "failure" or "aborted"

vars == <<outcome, aborted, verdict>>

Final == {"success", "failure", "skipped"}

Before(a) == Deps[a] \cap Actions

Ready(a) == \A d \in Before(a) : outcome[d] = "success"

Hopeless(a) == \E d \in Before(a) : outcome[d] \in {"failure", "skipped"}

Init ==
  /\ outcome = [a \in Actions |-> "none"]
  /\ aborted = FALSE
  /\ verdict = "open"

(* The outcomes that a may have after a step that begins in this state.    *)
Successors(a) ==
  CASE outcome[a] = "none" ->
         {"none"} \cup (IF Ready(a) THEN {"running", "success"} ELSE {})
                  \cup (IF aborted \/ Hopeless(a) THEN {"skipped"} ELSE {})
    [] outcome[a] = "running" -> {"running", "success", "failure"}
    [] OTHER -> {outcome[a]}

Progress ==
  /\ verdict = "open"
  /\ outcome' \in [Actions -> {"none", "running"} \cup Final]
  /\ \A a \in Actions : outcome'[a] \in Successors(a)
  /\ UNCHANGED <<aborted, verdict>>

Abort ==
  /\ aborted' = TRUE
  /\ UNCHANGED <<outcome, verdict>>

Close ==
  /\ verdict = "open"
  /\ \A a \in Actions : outcome[a] # "running"
  /\ verdict' \in
       (IF aborted \/ \A a \in Actions : outcome[a] = "success"
          THEN {"success"} ELSE {})
       \cup (IF \E a \in Actions : outcome[a] = "failure" THEN {"failure"} ELSE {})
       \cup (IF aborted THEN {"aborted"} ELSE {})
  /\ UNCHANGED <<outcome, aborted>>

Next == Progress \/ Abort \/ Close

Spec == Init /\ [][Next]_vars
=============================================================================
