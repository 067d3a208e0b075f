------------------------------ MODULE RedisCache ------------------------------
(***************************************************************************)
(* The cache client of src/redis/client.ts, for one key: get() races a     *)
(* calculation with a lookup by promiseAny() of                            *)
(* src/common/promises/index.ts, and writes what it answers back to Redis  *)
(* without waiting for it.                                                 *)
(*                                                                         *)
(* Each process has a connection of its own, on which commands are         *)
(* executed in the order they were sent; when it breaks, those not yet     *)
(* answered fail, executed or not, and further ones fail at once.          *)
(***************************************************************************)
EXTENDS Naturals, Sequences

CONSTANTS
  Gets,             \* calls of get()
  Clients,          \* processes with a Cache
  ClientOf,         \* the process of each call
  MaxVersion,       \* bound on the changes of what is calculated
  MaxInvalidations, \* bound on the calls of invalidate()
  MaxBreaks         \* bound on the breaks of connections

ASSUME RedisAssumption ==
  ClientOf \in [Gets -> Clients] /\ "nobody" \notin Gets /\ MaxVersion \in Nat \ {0}

VARIABLES
  callbacks,  \* onCacheHit and the others were given, chosen once
  forced,     \* calls with forceRefresh, chosen once
  version,    \* what a calculation that starts now gives
  entry,      \* the value of the key in Redis, 0 for none
  wire,       \* commands sent on each connection
  up,         \* connections that are up
  getAt,      \* where each call is
  calc,       \* its calculation
  calculated, \* the value the calculation read
  lookup,     \* its lookup
  lastError,  \* storedError of promiseAny()
  answer,     \* of the call
  spent       \* breaks and invalidations so far

redisVars == <<callbacks, forced, version, entry, wire, up, getAt, calc, calculated, lookup,
               lastError, answer, spent>>

Versions == 1..MaxVersion
Pending == [kind |-> "pending"]
Value(v) == [kind |-> "value", value |-> v]
Error(e) == [kind |-> "error", error |-> e]

RedisTypeOK ==
  /\ callbacks \in BOOLEAN /\ forced \subseteq Gets
  /\ version \in Versions /\ entry \in 0..MaxVersion
  /\ \A c \in Clients : \A k \in DOMAIN wire[c] : wire[c][k].op \in {"get", "set", "del"}
  /\ up \subseteq Clients
  /\ getAt \in [Gets -> {"new", "deleting", "racing", "over"}]
  /\ calc \in [Gets -> {"none", "sleeping", "running", "ok", "failed"}]
  /\ calculated \in [Gets -> 0..MaxVersion]
  /\ lookup \in [Gets -> {"none", "sent", "hit", "failed"}]
  /\ \A g \in Gets : answer[g].kind \in {"pending", "value", "error"}

RedisInit ==
  /\ callbacks \in BOOLEAN /\ forced \in SUBSET Gets
  /\ version = 1 /\ entry = 0
  /\ wire = [c \in Clients |-> <<>>]
  /\ up = Clients
  /\ getAt = [g \in Gets |-> "new"]
  /\ calc = [g \in Gets |-> "none"]
  /\ calculated = [g \in Gets |-> 0]
  /\ lookup = [g \in Gets |-> "none"]
  /\ lastError = [g \in Gets |-> "undefined"]
  /\ answer = [g \in Gets |-> Pending]
  /\ spent = [breaks |-> 0, invalidations |-> 0]
-----------------------------------------------------------------------------
Command(op, g, v) == [op |-> op, by |-> g, value |-> v]
Sent(w, c, command) == [w EXCEPT ![c] = IF c \in up THEN Append(@, command) ELSE @]

(* Mutant: as Promise.race() does it, the first failure ends the race.     *)
FailedFirst(g, e) ==
  /\ lastError' = [lastError EXCEPT ![g] = e]
  /\ IF answer[g] = Pending
     THEN answer' = [answer EXCEPT ![g] = Error(e)] /\ getAt' = [getAt EXCEPT ![g] = "over"]
     ELSE UNCHANGED <<answer, getAt>>

(* promiseAny(): what each promise does to the race, given as the state    *)
(* after it: the first value answers, at once written back; when both have *)
(* failed, the error stored last is thrown.                                *)
Failed(g, e) ==
  /\ lastError' = [lastError EXCEPT ![g] = e]
  /\ IF answer[g] = Pending /\ "failed" \in {calc[g], lookup[g]}
     THEN answer' = [answer EXCEPT ![g] = Error(e)] /\ getAt' = [getAt EXCEPT ![g] = "over"]
     ELSE UNCHANGED <<answer, getAt>>

Succeeded(g, v, w) ==
  /\ UNCHANGED lastError
  /\ IF answer[g] = Pending
     THEN /\ answer' = [answer EXCEPT ![g] = Value(v)]
          /\ getAt' = [getAt EXCEPT ![g] = "over"]
          /\ wire' = Sent(w, ClientOf[g], Command("set", g, v))
     ELSE wire' = w /\ UNCHANGED <<answer, getAt>>

(* Both are started: the calculation, after waitForCacheMillis, and the    *)
(* lookup, which fails at once on a connection that is down.               *)
StartRace(g, w) ==
  /\ calc' = [calc EXCEPT ![g] = "sleeping"]
  /\ wire' = Sent(w, ClientOf[g], Command("get", g, 0))
  /\ IF ClientOf[g] \in up
     THEN lookup' = [lookup EXCEPT ![g] = "sent"] /\ UNCHANGED lastError
     ELSE /\ lookup' = [lookup EXCEPT ![g] = "failed"]
          /\ lastError' = [lastError EXCEPT ![g] = "cache"]
  /\ getAt' = [getAt EXCEPT ![g] = "racing"]
  /\ UNCHANGED answer

DelFails(g) ==
  /\ answer' = [answer EXCEPT ![g] = Error("invalidation")]
  /\ getAt' = [getAt EXCEPT ![g] = "over"]

Get(g) ==
  /\ getAt[g] = "new"
  /\ CASE g \notin forced -> StartRace(g, wire)
       [] g \in forced /\ ClientOf[g] \in up ->
            /\ getAt' = [getAt EXCEPT ![g] = "deleting"]
            /\ wire' = Sent(wire, ClientOf[g], Command("del", g, 0))
            /\ UNCHANGED <<calc, lookup, lastError, answer>>
       [] OTHER -> DelFails(g) /\ UNCHANGED <<wire, calc, lookup, lastError>>
  /\ UNCHANGED <<callbacks, forced, version, entry, up, calculated, spent>>

(* calculateValue() begins, and reads what it calculates from.             *)
Calculate(g) ==
  /\ calc[g] = "sleeping"
  /\ calc' = [calc EXCEPT ![g] = "running"]
  /\ calculated' = [calculated EXCEPT ![g] = version]
  /\ UNCHANGED <<callbacks, forced, version, entry, wire, up, getAt, lookup, lastError, answer, spent>>

CalculationEnds(g) ==
  /\ calc[g] = "running"
  /\ calc' = [calc EXCEPT ![g] = "ok"]
  /\ Succeeded(g, calculated[g], wire)
  /\ UNCHANGED <<callbacks, forced, version, entry, up, calculated, lookup, spent>>

CalculationFails(g) ==
  /\ calc[g] = "running"
  /\ calc' = [calc EXCEPT ![g] = "failed"]
  /\ Failed(g, "calculation")
  /\ UNCHANGED <<callbacks, forced, version, entry, wire, up, calculated, lookup, spent>>

(* The answer to a lookup: no entry is an error, and so is an entry when   *)
(* there is no callback to tell of it.                                     *)
LookedUp(g, w) ==
  IF entry # 0 /\ callbacks
  THEN /\ lookup' = [lookup EXCEPT ![g] = "hit"]
       /\ Succeeded(g, entry, w)
  ELSE /\ lookup' = [lookup EXCEPT ![g] = "failed"]
       /\ Failed(g, "cache") /\ wire' = w

(* Redis executes the next command of a connection and answers it.         *)
Execute(c) ==
  /\ wire[c] # <<>>
  /\ LET command == Head(wire[c])
         rest == [wire EXCEPT ![c] = Tail(@)]
         g == command.by
     IN CASE command.op = "get" -> LookedUp(g, rest) /\ UNCHANGED <<entry, calc>>
          [] command.op = "set" ->
               /\ entry' = command.value /\ wire' = rest
               /\ UNCHANGED <<getAt, calc, lookup, lastError, answer>>
          [] command.op = "del" /\ g \in Gets ->
               StartRace(g, rest) /\ entry' = 0
          [] OTHER ->
               /\ entry' = 0 /\ wire' = rest
               /\ UNCHANGED <<getAt, calc, lookup, lastError, answer>>
  /\ UNCHANGED <<callbacks, forced, version, up, calculated, spent>>

(* A connection breaks: its commands fail, the first of them after they    *)
(* were executed, the last one of which that writes is seen in the entry.  *)
Break(c) ==
  /\ c \in up /\ spent.breaks < MaxBreaks
  /\ spent' = [spent EXCEPT !.breaks = @ + 1]
  /\ up' = up \ {c}
  /\ \/ UNCHANGED entry
     \/ \E k \in DOMAIN wire[c] : wire[c][k].op # "get" /\ entry' = wire[c][k].value
  /\ wire' = [wire EXCEPT ![c] = <<>>]
  /\ LET of(op) == {g \in Gets : \E k \in DOMAIN wire[c] : wire[c][k].op = op /\ wire[c][k].by = g}
         lost == of("get")
         over == of("del") \cup {g \in lost : answer[g] = Pending /\ calc[g] = "failed"}
     IN /\ lookup' = [g \in Gets |-> IF g \in lost THEN "failed" ELSE lookup[g]]
        /\ lastError' = [g \in Gets |-> IF g \in lost THEN "cache" ELSE lastError[g]]
        /\ answer' = [g \in Gets |-> IF g \in of("del") THEN Error("invalidation")
                                     ELSE IF g \in over THEN Error("cache") ELSE answer[g]]
        /\ getAt' = [g \in Gets |-> IF g \in over THEN "over" ELSE getAt[g]]
  /\ UNCHANGED <<callbacks, forced, version, calc, calculated>>

(* retry_strategy: the client connects again after a second.               *)
Reconnect(c) ==
  /\ c \notin up
  /\ up' = up \cup {c}
  /\ UNCHANGED <<callbacks, forced, version, entry, wire, getAt, calc, calculated, lookup, lastError,
                 answer, spent>>

(* invalidate(), called from outside.                                      *)
Invalidate(c) ==
  /\ c \in up /\ spent.invalidations < MaxInvalidations
  /\ spent' = [spent EXCEPT !.invalidations = @ + 1]
  /\ wire' = Sent(wire, c, Command("del", "nobody", 0))
  /\ UNCHANGED <<callbacks, forced, version, entry, up, getAt, calc, calculated, lookup, lastError, answer>>

(* What the value is calculated from changes; the entry's time is over.    *)
Change ==
  /\ version < MaxVersion
  /\ version' = version + 1
  /\ UNCHANGED <<callbacks, forced, entry, wire, up, getAt, calc, calculated, lookup, lastError, answer, spent>>

Expire ==
  /\ entry # 0
  /\ entry' = 0
  /\ UNCHANGED <<callbacks, forced, version, wire, up, getAt, calc, calculated, lookup, lastError, answer, spent>>

GetStep(g) == Get(g) \/ Calculate(g) \/ CalculationEnds(g) \/ CalculationFails(g)

RedisNext ==
  \/ \E g \in Gets : GetStep(g)
  \/ \E c \in Clients : Execute(c) \/ Break(c) \/ Reconnect(c) \/ Invalidate(c)
  \/ Change \/ Expire
-----------------------------------------------------------------------------
(* Whatever happens to Redis, get() rejects only when the calculation has  *)
(* failed, or the invalidation that was asked for; and it answers its own  *)
(* calculation, or an entry that it found and that some calculation has    *)
(* left there (client.ts:90-124).                                          *)
AnswersDespiteCache ==
  \A g \in Gets :
    /\ answer[g].kind = "error" =>
         IF answer[g].error = "invalidation" THEN g \in forced /\ calc[g] = "none"
         ELSE calc[g] = "failed" /\ lookup[g] = "failed"
    /\ answer[g].kind = "value" =>
         \/ calc[g] = "ok" /\ answer[g].value = calculated[g]
         \/ /\ lookup[g] = "hit" /\ callbacks
            /\ \E h \in Gets : calc[h] = "ok" /\ answer[g].value = calculated[h]

(* client.ts:91-92 "Calculate value is placed first in this list, as if  *)
(* both fail then the calculation error will be the one propagated."       *)
CalculationErrorWins ==
  \A g \in Gets : answer[g].kind = "error" /\ calc[g] = "failed" => answer[g].error = "calculation"
=============================================================================
