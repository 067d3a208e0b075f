-------------------------------- MODULE PgPool --------------------------------
(***************************************************************************)
(* PgPoolExecutor of src/api/utils/postgres.ts, through which the Postgres *)
(* and Redshift adapters execute everything: a client of the pool is       *)
(* locked for a callback, which executes statements on it.                 *)
(*                                                                         *)
(* A client is given back by release(); with an error, it is closed and    *)
(* leaves the pool.  Both a failed statement and the end of the callback   *)
(* release it, and the library throws at the second release, which is      *)
(* caught.  The executor may repeat a failed statement inside the lock.    *)
(***************************************************************************)
EXTENDS Integers, FiniteSets

CONSTANTS
  Locks,       \* calls of withClientLock()
  Length,      \* statements that each callback executes
  PgRetries,   \* how often the callback repeats a failed statement
  MaxClients,  \* options.concurrencyLimit, the "max" of the pool
  Connections  \* names for clients; that of a client that is gone is used again

ASSUME PoolAssumption ==
  /\ IsFiniteSet(Locks) /\ IsFiniteSet(Connections)
  /\ Length \in Nat \ {0} /\ PgRetries \in Nat /\ MaxClients \in Nat \ {0}
  /\ 0 \notin Connections

VARIABLES
  lock,     \* where each call is
  client,   \* the client it was given, 0 for none
  state,    \* of each client
  left,     \* statements the callback has still to execute
  again,    \* times the current statement was repeated
  result,   \* how the call ended
  ended     \* close() was called

poolVars == <<lock, client, state, left, again, result, ended>>

LockPlaces == {"new", "waiting", "held", "query", "finally", "over"}

PoolTypeOK ==
  /\ lock \in [Locks -> LockPlaces]
  /\ client \in [Locks -> Connections \cup {0}]
  /\ state \in [Connections -> {"idle", "out", "closed"}]
  /\ left \in [Locks -> 0..Length]
  /\ again \in [Locks -> 0..PgRetries]
  /\ result \in [Locks -> {"none", "ok", "error"}]
  /\ ended \in BOOLEAN

PoolInit ==
  /\ lock = [l \in Locks |-> "new"]
  /\ client = [l \in Locks |-> 0]
  /\ state = [c \in Connections |-> "closed"]
  /\ left = [l \in Locks |-> Length]
  /\ again = [l \in Locks |-> 0]
  /\ result = [l \in Locks |-> "none"]
  /\ ended = FALSE
-----------------------------------------------------------------------------
Pooled == {c \in Connections : state[c] \in {"idle", "out"}}
Free == {c \in Connections : state[c] = "idle"}
Holding(l) == lock[l] \in {"held", "query", "finally"}

(* withClientLock() asks the pool, which refuses once it was closed; calls *)
(* that wait then are forgotten.                                           *)
Ask(l) ==
  /\ lock[l] = "new"
  /\ lock' = [lock EXCEPT ![l] = IF ended THEN "over" ELSE "waiting"]
  /\ result' = [result EXCEPT ![l] = IF ended THEN "error" ELSE "none"]
  /\ UNCHANGED <<client, state, left, again, ended>>

Unused(c) == state[c] = "closed" /\ \A l \in Locks : Holding(l) => client[l] # c

(* pool.connect(): an idle client, or a new one below the maximum ...      *)
Connect(l) ==
  /\ lock[l] = "waiting" /\ ~ended
  /\ \E c \in Connections :
       /\ IF Free # {} THEN c \in Free ELSE Unused(c) /\ Cardinality(Pooled) < MaxClients
       /\ client' = [client EXCEPT ![l] = c]
       /\ state' = [state EXCEPT ![c] = "out"]
  /\ lock' = [lock EXCEPT ![l] = "held"]
  /\ UNCHANGED <<left, again, result, ended>>

(* ... to which no connection can be made.                                 *)
ConnectFails(l) ==
  /\ lock[l] = "waiting" /\ ~ended
  /\ Free = {} /\ Cardinality(Pooled) < MaxClients
  /\ lock' = [lock EXCEPT ![l] = "over"]
  /\ result' = [result EXCEPT ![l] = "error"]
  /\ UNCHANGED <<client, state, left, again, ended>>

(* execute(): the statement is sent, with a cancel handler.                *)
Execute(l) ==
  /\ lock[l] = "held" /\ left[l] > 0
  /\ lock' = [lock EXCEPT ![l] = "query"]
  /\ UNCHANGED <<client, state, left, again, result, ended>>

(* "end", after the last row or because the row limit closed the cursor.   *)
QueryEnds(l) ==
  /\ lock[l] = "query" /\ state[client[l]] = "out"
  /\ left' = [left EXCEPT ![l] = @ - 1]
  /\ again' = [again EXCEPT ![l] = 0]
  /\ lock' = [lock EXCEPT ![l] = "held"]
  /\ UNCHANGED <<client, state, result, ended>>

(* Mutant: an errored client goes back to the pool like any other.         *)
AfterReleaseIdle(c, failed) == IF state[c] = "out" THEN "idle" ELSE state[c]

(* release(): what becomes of a client that was not released before.       *)
AfterRelease(c, failed) ==
  IF state[c] = "out" THEN IF failed \/ ended THEN "closed" ELSE "idle" ELSE state[c]

(* "error": of the statement or its columns, by the cancel handler, or     *)
(* because the client is closed.  The callback repeats the statement or    *)
(* rejects.                                                                *)
QueryFails(l) ==
  /\ lock[l] = "query"
  /\ state' = [state EXCEPT ![client[l]] = AfterRelease(client[l], TRUE)]
  /\ IF again[l] < PgRetries
     THEN again' = [again EXCEPT ![l] = @ + 1] /\ lock' = [lock EXCEPT ![l] = "held"]
          /\ UNCHANGED result
     ELSE lock' = [lock EXCEPT ![l] = "finally"] /\ result' = [result EXCEPT ![l] = "error"]
          /\ UNCHANGED again
  /\ UNCHANGED <<client, left, ended>>

CallbackEnds(l) ==
  /\ lock[l] = "held" /\ left[l] = 0
  /\ lock' = [lock EXCEPT ![l] = "finally"]
  /\ result' = [result EXCEPT ![l] = "ok"]
  /\ UNCHANGED <<client, state, left, again, ended>>

(* Mutant: the client is only released after an error.                     *)
FinallyNothing(l) ==
  /\ lock[l] = "finally"
  /\ lock' = [lock EXCEPT ![l] = "over"]
  /\ UNCHANGED <<client, state, left, again, result, ended>>

(* The finally block.                                                      *)
Finally(l) ==
  /\ lock[l] = "finally"
  /\ state' = [state EXCEPT ![client[l]] = AfterRelease(client[l], FALSE)]
  /\ lock' = [lock EXCEPT ![l] = "over"]
  /\ UNCHANGED <<client, left, again, result, ended>>

(* A connection breaks: the listeners of this lock and of earlier ones     *)
(* release the client; an idle one leaves the pool.                        *)
ClientErrors(c) ==
  /\ state[c] \in {"idle", "out"}
  /\ state' = [state EXCEPT ![c] = "closed"]
  /\ UNCHANGED <<lock, client, left, again, result, ended>>

(* close(): idle clients are closed at once, the others when released.     *)
Close ==
  /\ ~ended
  /\ ended' = TRUE
  /\ state' = [c \in Connections |-> IF state[c] = "idle" THEN "closed" ELSE state[c]]
  /\ UNCHANGED <<lock, client, left, again, result>>

LockStep(l) ==
  \/ Ask(l) \/ Connect(l) \/ ConnectFails(l) \/ Execute(l) \/ QueryEnds(l) \/ QueryFails(l)
  \/ CallbackEnds(l) \/ Finally(l)

PoolNext ==
  \/ \E l \in Locks : LockStep(l)
  \/ \E c \in Connections : ClientErrors(c)
  \/ Close

PoolSpec == PoolInit /\ [][PoolNext]_poolVars
-----------------------------------------------------------------------------
(* No client serves two callbacks, nor is one in the pool that a callback  *)
(* still has, whatever errors come when: a released client that came back  *)
(* would run one action's statements in another's session.                 *)
ClientsAreNotShared ==
  \A l \in Locks : Holding(l) =>
    /\ state[client[l]] \in {"out", "closed"}
    /\ \A k \in Locks \ {l} : Holding(k) => client[k] # client[l]

(* Every client outside the pool is with a callback, so that errors and    *)
(* double releases leave as many clients to others as there were.          *)
NoClientIsLost ==
  \A c \in Connections : state[c] = "out" => \E l \in Locks : Holding(l) /\ client[l] = c
=============================================================================
