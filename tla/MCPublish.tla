------------------------------ MODULE MCPublish ------------------------------
(***************************************************************************)
(* Small projects for TLC: one action in each warehouse.                   *)
(***************************************************************************)
EXTENDS PublishTasks

Project(w, ts, key, prot, stop) ==
  [warehouse |-> w, types |-> ts, uniqueKey |-> key, protected |-> prot, mayStop |-> stop]

(* Datasets that change their type; stops where tasks do not share the     *)
(* state of a session.                                                     *)
SmallProjects ==
  {Project("bigquery", DatasetTypes, TRUE, FALSE, FALSE),
   Project("redshift", DatasetTypes, TRUE, FALSE, FALSE),
   Project("snowflake", DatasetTypes, FALSE, TRUE, TRUE),
   Project("sqldatawarehouse", {"table", "incremental"}, FALSE, TRUE, FALSE),
   Project("sqldatawarehouse", {"assertion"}, FALSE, FALSE, TRUE),
   Project("redshift", {"assertion"}, FALSE, FALSE, TRUE)}

SqlDwViews == {Project("sqldatawarehouse", {"table", "view"}, FALSE, FALSE, FALSE)}
=============================================================================
