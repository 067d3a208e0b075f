----------------------------- MODULE QueryCommand -----------------------------
(***************************************************************************)
(* run() of src/api/commands/query.ts: a query is compiled in a child      *)
(* process (src/api/commands/compile.ts, src/sandbox/vm/compile.ts) and    *)
(* then executed by an adapter, inside a promise that can be cancelled at  *)
(* any moment (src/api/utils/cancellable_promise.ts).                      *)
(*                                                                         *)
(* The child compiles, never ends, or dies; what it did reaches the parent *)
(* as events, in their order.  The adapter is any that registers a cancel  *)
(* handler some time after execute() was called.                           *)
(***************************************************************************)
EXTENDS Naturals, Sequences

VARIABLES
  compiles,    \* a project directory was given, chosen once
  child,       \* the process
  events,      \* of the process, not yet seen by the parent
  compilation, \* compileInChildProcess
  timer,       \* of the compilation
  query,       \* where run() is, and how it ended
  statement,   \* what the warehouse does
  cancelled,   \* of the CancellablePromise
  handlers,    \* handlers of its emitter
  heard        \* history: the adapter's handler was called

queryVars == <<compiles, child, events, compilation, timer, query, statement, cancelled, handlers, heard>>

QueryTypeOK ==
  /\ compiles \in BOOLEAN
  /\ child \in {"none", "compiling", "answered", "exited", "killed"}
  /\ compilation \in {"none", "pending", "resolved", "rejected"}
  /\ timer \in {"none", "set", "fired", "cleared"}
  /\ query \in {"new", "compiling", "executing", "resolved", "rejected"}
  /\ statement \in {"none", "running", "done", "failed", "stopped"}
  /\ cancelled \in BOOLEAN /\ handlers \in {0, 1} /\ heard \in BOOLEAN

QueryInit ==
  /\ compiles \in BOOLEAN
  /\ child = "none" /\ events = <<>> /\ compilation = "none" /\ timer = "none"
  /\ query = "new" /\ statement = "none"
  /\ cancelled = FALSE /\ handlers = 0 /\ heard = FALSE

AtAdapter == <<statement, handlers, heard>>
AtChild == <<child, events, compilation, timer>>
-----------------------------------------------------------------------------
(* forkProcess() and compile(); without a project the query is executed as *)
(* it is.                                                                  *)
RunQuery ==
  /\ query = "new"
  /\ IF compiles
     THEN /\ query' = "compiling" /\ child' = "compiling"
          /\ compilation' = "pending" /\ timer' = "set"
          /\ UNCHANGED <<events, statement>>
     ELSE /\ query' = "executing" /\ statement' = "running"
          /\ UNCHANGED AtChild
  /\ UNCHANGED <<compiles, cancelled, handlers, heard>>

(* listenForCompileRequest(): the result is sent, or the error it threw;   *)
(* the process stays.                                                      *)
ChildAnswers ==
  /\ child = "compiling"
  /\ child' = "answered"
  /\ \E answer \in {"string", "error"} : events' = Append(events, answer)
  /\ UNCHANGED <<compiles, compilation, timer, query, AtAdapter, cancelled>>

(* The process cannot be started or reached ("error"), or it dies.         *)
ChildErrors ==
  /\ child = "compiling"
  /\ child' = "exited"
  /\ events' = Append(events, "error")
  /\ UNCHANGED <<compiles, compilation, timer, query, AtAdapter, cancelled>>

ChildExits ==
  /\ child \in {"compiling", "answered"}
  /\ child' = "exited"
  /\ \E code \in {"close 0", "close 1"} : events' = Append(events, code)
  /\ UNCHANGED <<compiles, compilation, timer, query, AtAdapter, cancelled>>

(* compile() goes on after the race: when it has settled, the finally      *)
(* block kills the process and clears the timer; then run() executes the   *)
(* compiled query or rejects.                                              *)
AfterKill == IF child = "exited" THEN child ELSE "killed"

CompileEnds(ok, over) ==
  /\ child' = AfterKill
  /\ timer' = over
  /\ query' = IF ok THEN "executing" ELSE "rejected"
  /\ statement' = IF ok THEN "running" ELSE "none"

(* The listeners of the process; only the first settles the promise, and   *)
(* an exit with code 0 does not.                                           *)
ParentHears ==
  /\ events # <<>>
  /\ events' = Tail(events)
  /\ LET outcome == CASE Head(events) = "string" -> "resolved"
                      [] Head(events) \in {"error", "close 1"} -> "rejected"
                      [] OTHER -> "pending"
     IN IF compilation = "pending" /\ outcome # "pending"
        THEN /\ compilation' = outcome
             /\ IF query = "compiling" THEN CompileEnds(outcome = "resolved", "cleared")
                ELSE UNCHANGED <<child, timer, query, statement>>
        ELSE UNCHANGED <<child, compilation, timer, query, statement>>
  /\ UNCHANGED <<compiles, cancelled, handlers, heard>>

(* The timeout wins the race: CompilationTimeoutError.                     *)
CompileTimesOut ==
  /\ timer = "set" /\ query = "compiling"
  /\ CompileEnds(FALSE, "fired")
  /\ UNCHANGED <<compiles, events, compilation, cancelled, handlers, heard>>

-----------------------------------------------------------------------------
(* The adapter's handler: the statement is stopped and execute() rejects.  *)
Stopped ==
  /\ heard' = TRUE
  /\ statement' = IF statement = "running" THEN "stopped" ELSE statement
  /\ query' = IF query = "executing" THEN "rejected" ELSE query

(* Mutant: after a cancel, a handler waits for the next one.               *)
OnCancelOnly ==
  /\ query = "executing" /\ handlers = 0 /\ ~heard
  /\ handlers' = 1
  /\ UNCHANGED <<compiles, AtChild, query, statement, cancelled, heard>>

(* The adapter calls onCancel(): after a cancel, its handler is called.    *)
OnCancel ==
  /\ query = "executing" /\ handlers = 0 /\ ~heard
  /\ IF cancelled
     THEN Stopped /\ UNCHANGED handlers
     ELSE handlers' = 1 /\ UNCHANGED <<query, statement, heard>>
  /\ UNCHANGED <<compiles, AtChild, cancelled>>

(* cancel(), at any moment, more than once.                                *)
Cancel ==
  /\ query # "new"
  /\ cancelled' = TRUE
  /\ IF handlers = 1 THEN Stopped ELSE UNCHANGED <<query, statement, heard>>
  /\ UNCHANGED <<compiles, AtChild, handlers>>

StatementEnds ==
  /\ statement = "running"
  /\ statement' \in {"done", "failed"}
  /\ query' = IF statement' = "done" THEN "resolved" ELSE "rejected"
  /\ UNCHANGED <<compiles, AtChild, cancelled, handlers, heard>>

QueryStep == RunQuery \/ ParentHears \/ CompileTimesOut \/ StatementEnds
QueryNext == QueryStep \/ ChildAnswers \/ ChildErrors \/ ChildExits \/ OnCancel \/ Cancel

QuerySpec == QueryInit /\ [][QueryNext]_queryVars
-----------------------------------------------------------------------------
(* Once the adapter has registered its handler, a cancelled query does not *)
(* go on at the warehouse, whenever the cancel came; and however           *)
(* compilation ended, no process is left behind                            *)
(* (cancellable_promise.ts:17-27, compile.ts:109-119).                     *)
NothingOutlivesAQuery ==
  /\ cancelled /\ (handlers = 1 \/ heard) => statement # "running"
  /\ query \notin {"new", "compiling"} => child \in {"none", "exited", "killed"}
=============================================================================
