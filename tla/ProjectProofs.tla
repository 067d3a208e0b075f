---------------------------- MODULE ProjectProofs ----------------------------
(***************************************************************************)
(* What compile() promises of a graph without errors, for every project:   *)
(* its files, its configs, its queries and the calls on its builders.      *)
(* Lists of actions are lists of anything here; a query is followed call   *)
(* by call, and what it leaves of the actions is said by Went.             *)
(* Then what a run of it includes, for every graph and every run           *)
(* configuration: the two walks of prune() end with the least sets they    *)
(* are meant to compute.                                                   *)
(***************************************************************************)
EXTENDS Prune, FiniteSetTheorems, WellFoundedInduction, SequenceTheorems, TLAPS

(* Induction, by least elements.                                           *)
LEMMA LeastNumber ==
  ASSUME NEW T \in SUBSET Nat, T # {}
  PROVE  \E n \in T : \A m \in T : n <= m
<1> DEFINE R == OpToRel(<, Nat)
<1>1. PICK x \in T : \A y \in T : ~(<<y, x>> \in R)
  <2>1. IsWellFoundedOn(R, Nat)
    BY NatLessThanWellFounded
  <2> HIDE DEF R
  <2> QED
    BY <2>1, WFMin
<1>2. R = {ss \in Nat \X Nat : ss[1] < ss[2]}
  BY Zenon DEF OpToRel
<1> HIDE DEF R
<1>3. ASSUME NEW y \in T PROVE x <= y
  <2>1. <<y, x>> \notin R
    BY <1>1
  <2>2. ~(y < x)
    BY <1>2, <2>1
  <2> QED
    BY <2>2
<1> QED
  BY <1>3

(* A set of numbers with 0 and the next of each that is less than n.       *)
LEMMA UpTo ==
  ASSUME NEW n \in Nat, NEW T, 0 \in T, \A k \in 1..n : k - 1 \in T => k \in T
  PROVE  \A k \in 0..n : k \in T
<1> DEFINE U == {k \in 0..n : k \notin T}
<1>1. SUFFICES ASSUME U # {} PROVE FALSE
  OBVIOUS
<1>2. PICK k \in U : \A m \in U : k <= m
  <2>1. U \in SUBSET Nat
    OBVIOUS
  <2> HIDE DEF U
  <2> QED
    BY <1>1, <2>1, LeastNumber
<1>3. k \in 1..n /\ k - 1 \in 0..n /\ ~(k <= k - 1)
  OBVIOUS
<1>4. k - 1 \in T
  BY <1>2, <1>3
<1> QED
  BY <1>3, <1>4

(* The calls of a query, one after the other.                              *)
LEMMA QueryRounds ==
  ASSUME NEW r, NEW i, NEW q, q = r.as[i].query, Len(q) \in Nat
  PROVE \E f : /\ DOMAIN f = 0..Len(q)
               /\ f[0] = r /\ \A n \in 1..Len(q) : f[n] = ContextCall(f[n-1], i, q[n])
               /\ Apply(r, i) = f[Len(q)]
<1> DEFINE Is(f, k) == f = [n \in 0..k |-> IF n = 0 THEN r ELSE ContextCall(f[n - 1], i, q[n])]
<1>1. \A k \in Nat : \E f : Is(f, k)
  <2> DEFINE T == {k \in Nat : ~\E f : Is(f, k)}
  <2>1. SUFFICES ASSUME T # {} PROVE FALSE
    OBVIOUS
  <2>2. PICK k \in T : \A m \in T : k <= m
    <3> HIDE DEF T
    <3> QED
      BY <2>1, LeastNumber DEF T
  <2>3. k # 0
    <3> SUFFICES ASSUME k = 0 PROVE FALSE
      OBVIOUS
    <3>1. Is([n \in 0..0 |-> r], 0)
      OBVIOUS
    <3> QED
      BY <2>2, <3>1
  <2>4. k - 1 \in Nat /\ k - 1 \notin T
    <3>1. k \in Nat
      OBVIOUS
    <3>2. k - 1 \in Nat /\ ~(k <= k - 1)
      BY <3>1, <2>3
    <3> HIDE DEF T
    <3> QED
      BY <2>2, <3>2
  <2>5. PICK f : Is(f, k - 1)
    BY <2>4
  <2>6. Is([n \in 0..k |-> IF n = k THEN ContextCall(f[k - 1], i, q[k]) ELSE f[n]], k)
    <3> DEFINE g == [n \in 0..k |-> IF n = k THEN ContextCall(f[k - 1], i, q[k]) ELSE f[n]]
    <3>1. \A n \in 0..k : n = k \/ n \in 0..(k - 1)
      BY <2>4
    <3>2. \A n \in 0..(k-1) : g[n] = f[n] /\ f[n] = IF n = 0 THEN r ELSE ContextCall(f[n - 1], i, q[n])
      BY <2>4, <2>5
    <3>3. \A n \in 0..k : n # 0 => n - 1 \in 0..(k - 1)
      BY <2>4
    <3>4. g[k] = ContextCall(f[k - 1], i, q[k])
      BY <2>4
    <3>5. \A n \in 0..k : g[n] = IF n = 0 THEN r ELSE ContextCall(g[n - 1], i, q[n])
      BY <2>4, <2>3, <3>1, <3>2, <3>3, <3>4
    <3> QED
      BY <3>5
  <2> QED
    BY <2>2, <2>6
<1>2. PICK f : Is(f, Len(q)) /\ Apply(r, i) = f[Len(q)]
  <2> DEFINE c == CHOOSE f : Is(f, Len(q))
  <2>1. Is(c, Len(q))
    <3> HIDE DEF Is
    <3> QED
      BY <1>1
  <2>2. Apply(r, i) = c[Len(q)]
    BY DEF Apply
  <2> QED
    BY <2>1, <2>2
<1>3. DOMAIN f = 0..Len(q) /\ \A n \in 0..Len(q) : f[n] = IF n = 0 THEN r ELSE ContextCall(f[n - 1], i, q[n])
  BY <1>2
<1>4. f[0] = r /\ \A n \in 1..Len(q) : f[n] = ContextCall(f[n - 1], i, q[n])
  BY <1>3
<1> HIDE DEF Is
<1> QED
  BY <1>2, <1>3, <1>4

(* One round of Reached, and all of them.                                  *)
Wider(f, from) == from \cup UNION {f[x] : x \in from \cap DOMAIN f}
AreRounds(w, f, start, last) ==
  /\ w[0] = start /\ \A n \in 1..last : w[n] = Wider(f, w[n - 1])
  /\ Reached(f, start, last) = w[last]
LEMMA ReachedRounds ==
  ASSUME NEW f, NEW start, NEW last \in Nat
  PROVE \E w : AreRounds(w, f, start, last)
<1> DEFINE Is(w, k) == w = [n \in 0..k |-> IF n = 0 THEN start ELSE Wider(f, w[n - 1])]
<1>1. \A k \in Nat : \E w : Is(w, k)
  <2> DEFINE T == {k \in Nat : ~\E w : Is(w, k)}
  <2>1. SUFFICES ASSUME T # {} PROVE FALSE
    OBVIOUS
  <2>2. PICK k \in T : \A m \in T : k <= m
    <3> HIDE DEF T
    <3> QED
      BY <2>1, LeastNumber DEF T
  <2>3. k # 0
    <3> SUFFICES ASSUME k = 0 PROVE FALSE
      OBVIOUS
    <3>1. Is([n \in 0..0 |-> start], 0)
      OBVIOUS
    <3> QED
      BY <2>2, <3>1
  <2>4. k - 1 \in Nat /\ k - 1 \notin T
    <3>1. k \in Nat
      OBVIOUS
    <3>2. k - 1 \in Nat /\ ~(k <= k - 1)
      BY <3>1, <2>3
    <3> HIDE DEF T
    <3> QED
      BY <2>2, <3>2
  <2>5. PICK w : Is(w, k - 1)
    BY <2>4
  <2>6. Is([n \in 0..k |-> IF n = k THEN Wider(f, w[k - 1]) ELSE w[n]], k)
    <3> DEFINE g == [n \in 0..k |-> IF n = k THEN Wider(f, w[k - 1]) ELSE w[n]]
    <3>1. \A n \in 0..k : n = k \/ n \in 0..(k - 1)
      BY <2>4
    <3>2. \A n \in 0..(k-1) : g[n] = w[n] /\ w[n] = IF n = 0 THEN start ELSE Wider(f, w[n - 1])
      BY <2>4, <2>5
    <3>3. \A n \in 0..k : n # 0 => n - 1 \in 0..(k - 1)
      BY <2>4
    <3>4. g[k] = Wider(f, w[k - 1])
      BY <2>4
    <3>5. \A n \in 0..k : g[n] = IF n = 0 THEN start ELSE Wider(f, g[n - 1])
      BY <2>4, <2>3, <3>1, <3>2, <3>3, <3>4
    <3> QED
      BY <3>5
  <2> QED
    BY <2>2, <2>6
<1>2. PICK w : Is(w, last) /\ Reached(f, start, last) = w[last]
  <2> DEFINE c == CHOOSE w : Is(w, last)
  <2>1. Is(c, last)
    <3> HIDE DEF Is
    <3> QED
      BY <1>1
  <2>2. Reached(f, start, last) = c[last]
    BY DEF Reached, Wider
  <2> QED
    BY <2>1, <2>2
<1>3. DOMAIN w = 0..last /\ \A n \in 0..last : w[n] = IF n = 0 THEN start ELSE Wider(f, w[n - 1])
  BY <1>2
<1>4. w[0] = start /\ \A n \in 1..last : w[n] = Wider(f, w[n - 1])
  BY <1>3
<1> HIDE DEF Is
<1> QED
  BY <1>2, <1>4 DEF AreRounds

(* What is reached has the start in it, and is the least such set with what *)
(* each of its elements leads to, if there are no more than last of them.  *)
LEMMA ReachedFromStart ==
  ASSUME NEW f, NEW start, NEW last \in Nat
  PROVE  start \subseteq Reached(f, start, last)
<1>0. PICK w : AreRounds(w, f, start, last)
  BY ReachedRounds
<1>1. /\ w[0] = start /\ \A n \in 1..last : w[n] = Wider(f, w[n - 1])
      /\ Reached(f, start, last) = w[last]
  BY <1>0 DEF AreRounds
<1> DEFINE T == {n \in 0..last : start \subseteq w[n]}
<1>2. 0 \in T
  BY <1>1
<1>3. \A n \in 1..last : n - 1 \in T => n \in T
  BY <1>1 DEF Wider
<1> HIDE DEF T
<1>4. last \in T
  BY <1>2, <1>3, UpTo
<1> QED
  BY <1>1, <1>4 DEF T

(* Nothing else is reached.                                                *)
LEMMA ReachedIsLeast ==
  ASSUME NEW f, NEW start, NEW last \in Nat, NEW U, start \subseteq U,
         \A x \in U \cap DOMAIN f : f[x] \subseteq U
  PROVE  Reached(f, start, last) \subseteq U
<1>0. PICK w : AreRounds(w, f, start, last)
  BY ReachedRounds
<1>1. /\ w[0] = start /\ \A n \in 1..last : w[n] = Wider(f, w[n - 1])
      /\ Reached(f, start, last) = w[last]
  BY <1>0 DEF AreRounds
<1> DEFINE T == {n \in 0..last : w[n] \subseteq U}
<1>2. 0 \in T
  BY <1>1
<1>3. \A n \in 1..last : n - 1 \in T => n \in T
  BY <1>1 DEF Wider
<1> HIDE DEF T
<1>4. last \in T
  BY <1>2, <1>3, UpTo
<1> QED
  BY <1>1, <1>4 DEF T

(* When the last number is reached, each round that added anything has     *)
(* added one of as many.                                                   *)
LEMMA ReachedIsClosed ==
  ASSUME NEW f, NEW start, NEW last \in Nat, DOMAIN f = 1..last, start \subseteq 1..last,
         \A x \in 1..last : f[x] \subseteq 1..last
  PROVE  \A x \in Reached(f, start, last) : f[x] \subseteq Reached(f, start, last)
<1>0. PICK w : AreRounds(w, f, start, last)
  BY ReachedRounds
<1>1. /\ w[0] = start /\ \A n \in 1..last : w[n] = Wider(f, w[n - 1])
      /\ Reached(f, start, last) = w[last]
  BY <1>0 DEF AreRounds
<1> DEFINE Closed(S) == \A x \in S : f[x] \subseteq S
           T == {n \in 0..last : w[n] \subseteq 1..last /\ (Closed(w[n]) \/ Cardinality(w[n]) >= n)}
<1>2. IsFiniteSet(1..last) /\ Cardinality(1..last) = last
  BY FS_Interval
<1>3. 0 \in T
  <2>1. Cardinality(start) \in Nat
    BY <1>2, FS_Subset, FS_CardinalityType
  <2>2. w[0] = start /\ Cardinality(w[0]) >= 0
    BY <1>1, <2>1
  <2>3. w[0] \subseteq 1..last
    BY <1>1
  <2>4. 0 \in 0..last
    OBVIOUS
  <2> HIDE DEF Closed
  <2> QED
    BY <2>2, <2>3, <2>4
<1>4. ASSUME NEW n \in 1..last, n - 1 \in T PROVE n \in T
  <2> DEFINE S == w[n - 1]
  <2>1. w[n] = Wider(f, S) /\ S \subseteq 1..last /\ (Closed(S) \/ Cardinality(S) >= n - 1)
    BY <1>1, <1>4
  <2> HIDE DEF S
  <2>2. w[n] \subseteq 1..last /\ S \subseteq w[n]
    BY <2>1 DEF Wider
  <2>3. CASE w[n] = S
    <3>1. Closed(S)
      BY <2>1, <2>3 DEF Wider
    <3> QED
      BY <2>2, <2>3, <3>1
  <2>4. CASE w[n] # S
    <3>1. ~Closed(S)
      BY <2>1, <2>4 DEF Wider
    <3>2. IsFiniteSet(w[n]) /\ IsFiniteSet(S)
      BY <1>2, <2>1, <2>2, FS_Subset
    <3>4. Cardinality(S) \in Nat /\ Cardinality(w[n]) \in Nat
      BY <3>2, FS_CardinalityType
    <3>3. Cardinality(S) < Cardinality(w[n])
      <4>1. Cardinality(S) <= Cardinality(w[n]) /\ Cardinality(S) # Cardinality(w[n])
        BY <2>2, <2>4, <3>2, FS_Subset
      <4> QED
        BY <3>4, <4>1
    <3> HIDE DEF Closed
    <3>5. Cardinality(w[n]) >= n
      BY <2>1, <3>1, <3>3, <3>4
    <3> QED
      BY <2>2, <3>5
  <2> QED
    BY <2>3, <2>4
<1> HIDE DEF T
<1>5. last \in T
  BY <1>3, <1>4, UpTo
<1>6. w[last] \subseteq 1..last /\ (Closed(w[last]) \/ Cardinality(w[last]) >= last)
  BY <1>5 DEF T
<1>7. Closed(1..last)
  OBVIOUS
<1>8. Cardinality(w[last]) >= last => w[last] = 1..last
  <2>1. /\ IsFiniteSet(w[last]) /\ Cardinality(w[last]) <= Cardinality(1..last)
        /\ Cardinality(1..last) = Cardinality(w[last]) => 1..last = w[last]
    BY <1>2, <1>6, FS_Subset
  <2>2. Cardinality(w[last]) \in Nat
    BY <2>1, FS_CardinalityType
  <2> QED
    BY <1>2, <2>1, <2>2
<1>9. Closed(w[last])
  <2> HIDE DEF Closed
  <2> QED
    BY <1>6, <1>7, <1>8
<1> QED
  BY <1>1, <1>9
-----------------------------------------------------------------------------
(* What the actions of a session are. Their names have a last part, their  *)
(* targets the three fields.                                               *)
Kinds == {"table", "operation", "assertion", "declaration"}
ActionFields ==
  {"kind", "type", "target", "canonicalTarget", "dependencyTargets", "disabled", "hasOutput",
   "hermetic", "tags", "props", "preOps", "parentAction", "uniqueKeyAssertions",
   "rowConditionsAssertion", "query", "text"}
IsList(xs) == \E S : xs \in Seq(S)
NameOK(t) == /\ DOMAIN t = {"database", "schema", "name"} /\ t = [f \in DOMAIN t |-> t[f]]
             /\ IsList(t.database) /\ IsList(t.schema) /\ IsList(t.name) /\ t.name # <<>>
QueryOK(q) == DOMAIN q = 1..Len(q) /\ Len(q) \in Nat /\ \A k \in DOMAIN q : CallOK(q[k])
ActionOK(x) ==
  /\ DOMAIN x = ActionFields
  /\ x.kind \in Kinds /\ NameOK(x.target) /\ QueryOK(x.query)

Typed(xs) == IsList(xs) /\ \A i \in DOMAIN xs : ActionOK(xs[i])

(* Lists of anything: what they are, how they are made, one more and one   *)
(* other entry.                                                            *)
LEMMA ListFacts == ASSUME NEW xs, IsList(xs)
  PROVE Len(xs) \in Nat /\ DOMAIN xs = 1..Len(xs) /\ xs = [k \in 1..Len(xs) |-> xs[k]]
<1>1. PICK S : xs \in Seq(S)
  BY DEF IsList
<1>2. Len(xs) \in Nat /\ DOMAIN xs = 1..Len(xs)
  BY <1>1
<1>3. xs \in [1..Len(xs) -> S]
  BY <1>1
<1>4. xs = [k \in 1..Len(xs) |-> xs[k]]
  BY <1>3
<1> QED
  BY <1>2, <1>4

LEMMA MakeList == ASSUME NEW xs, NEW n \in Nat, xs = [k \in 1..n |-> xs[k]]
  PROVE IsList(xs) /\ Len(xs) = n /\ DOMAIN xs = 1..n
<1> DEFINE S == {xs[k] : k \in 1..n}
<1>1. xs \in [1..n -> S]
  OBVIOUS
<1> HIDE DEF S
<1>2. xs \in Seq(S)
  BY <1>1, n \in Nat
<1>3. Len(xs) = n
  BY <1>1, <1>2
<1> QED
  BY <1>1, <1>2, <1>3 DEF IsList

LEMMA ListAppend == ASSUME NEW xs, IsList(xs), NEW x
  PROVE /\ IsList(Append(xs, x)) /\ Len(Append(xs, x)) = Len(xs) + 1
        /\ Append(xs, x)[Len(xs) + 1] = x
        /\ \A k \in DOMAIN xs : Append(xs, x)[k] = xs[k]
<1>1. PICK S : xs \in Seq(S)
  BY DEF IsList
<1> DEFINE T == S \cup {x}
<1>2. x \in T /\ S \subseteq T
  OBVIOUS
<1>3. xs \in Seq(T)
  <2>1. Len(xs) \in Nat /\ DOMAIN xs = 1..Len(xs) /\ xs = [k \in 1..Len(xs) |-> xs[k]]
    BY ListFacts
  <2>2. \A k \in 1..Len(xs) : xs[k] \in S
    BY <1>1, <2>1
  <2>3. xs \in [1..Len(xs) -> T]
    BY <1>2, <2>1, <2>2
  <2> HIDE DEF T
  <2> QED
    BY <2>1, <2>3
<1> HIDE DEF T
<1>4. Append(xs, x) \in Seq(T) /\ Len(Append(xs, x)) = Len(xs) + 1
  BY <1>2, <1>3
<1>5. Append(xs, x)[Len(xs) + 1] = x /\ \A k \in 1..Len(xs) : Append(xs, x)[k] = xs[k]
  BY <1>2, <1>3
<1>6. DOMAIN xs = 1..Len(xs)
  BY ListFacts
<1> QED
  BY <1>4, <1>5, <1>6 DEF IsList

LEMMA NothingIsList == IsList(<<>>)
<1>1. <<>> \in Seq({})
  OBVIOUS
<1> QED
  BY <1>1 DEF IsList

(* Parts of names.                                                         *)
LEMMA PartsAreLists == ASSUME NEW p \in Part PROVE IsList(p)
BY DEF Part, IsList

LEMMA NamesAreJoined ==
  ASSUME NEW p, IsList(p), NEW q, IsList(q), NEW x
  PROVE  IsList(p \o q \o <<x>>) /\ p \o q \o <<x>> # <<>>
<1>1. Len(p) \in Nat /\ Len(q) \in Nat
  BY ListFacts
<1>2. PICK S, T : p \in Seq(S) /\ q \in Seq(T)
  BY DEF IsList
<1> DEFINE U == S \cup T \cup {x}
<1>3. p \in Seq(U) /\ q \in Seq(U) /\ x \in U
  <2>1. S \subseteq U /\ T \subseteq U /\ x \in U
    OBVIOUS
  <2> HIDE DEF U
  <2> QED
    BY <1>2, <2>1, SeqMonotonic
<1> HIDE DEF U
<1>4. p \o q \o <<x>> \in Seq(U) /\ Len(p \o q \o <<x>>) = Len(p) + Len(q) + 1
  BY <1>3
<1> DEFINE name == p \o q \o <<x>>
<1>5. IsList(name)
  BY <1>4 DEF IsList
<1> HIDE DEF name
<1>6. PICK m \in Nat, n \in Nat : Len(name) = m + n + 1
  BY <1>1, <1>4 DEF name
<1>7. name # <<>>
  BY <1>6
<1> QED
  BY <1>5, <1>7 DEF name

(* A list with another entry at one of its positions.                      *)
WithEntry(xs, i, x, ys) ==
  /\ IsList(ys) /\ Len(ys) = Len(xs) /\ DOMAIN ys = DOMAIN xs
  /\ ys[i] = x /\ \A k \in DOMAIN xs : k # i => ys[k] = xs[k]
Put(xs, i, x) == [xs EXCEPT ![i] = x]
LEMMA ListExcept ==
  ASSUME NEW xs, IsList(xs), NEW i \in DOMAIN xs, NEW x
  PROVE  WithEntry(xs, i, x, Put(xs, i, x))
<1>1. Len(xs) \in Nat /\ DOMAIN xs = 1..Len(xs)
  BY ListFacts
<1> DEFINE ys == [xs EXCEPT ![i] = x]
<1>2. ys = [k \in 1..Len(xs) |-> ys[k]]
  BY <1>1
<1> HIDE DEF ys
<1>3. IsList(ys) /\ Len(ys) = Len(xs)
  BY <1>1, <1>2, MakeList
<1> QED
  BY <1>1, <1>3 DEF ys, WithEntry, Put
-----------------------------------------------------------------------------
(* An assertion that a table has made.                                     *)
MadeBy(xs, i, j, M) ==
  /\ j \in DOMAIN xs /\ xs[j].kind = "assertion" /\ xs[j].query = <<<<"refParent", i>>>>
  /\ xs[j].disabled = xs[i].disabled /\ xs[j].parentAction # NoTarget
  /\ i \notin M => xs[j].parentAction = xs[i].target

(* The actions of a session, of which those in M have been moved.          *)
Sound(xs, M) ==
  /\ Typed(xs)
  /\ \A i \in DOMAIN xs : /\ xs[i].kind # "table" => Generated(xs, i) = {}
                          /\ \A j \in Generated(xs, i) : MadeBy(xs, i, j, M)

(* No assertion that a table has made.                                     *)
Free(xs, i) == \A k \in DOMAIN xs : i \notin Generated(xs, k)

(* Later actions: no action goes, nor its kind, its query and its          *)
(* dependencies, and none of those there were becomes an assertion of      *)
(* another.                                                                *)
Extends(xs, ys) ==
  /\ DOMAIN xs \subseteq DOMAIN ys
  /\ \A k \in DOMAIN xs :
       /\ ys[k].kind = xs[k].kind /\ ys[k].query = xs[k].query
       /\ xs[k].dependencyTargets \subseteq ys[k].dependencyTargets
  /\ \A k \in DOMAIN ys : \A j \in Generated(ys, k) \cap DOMAIN xs :
       k \in DOMAIN xs /\ j \in Generated(xs, k)

(* Later than later is later.                                              *)
LEMMA ExtendsFurther ==
  ASSUME NEW xs, NEW ys, NEW zs, Extends(xs, ys), Extends(ys, zs)
  PROVE  Extends(xs, zs)
BY DEF Extends

LEMMA StaysFree ==
  ASSUME NEW xs, NEW ys, Extends(xs, ys), NEW i \in DOMAIN xs, Free(xs, i)
  PROVE  Free(ys, i)
BY DEF Extends, Free

LEMMA ExtendsItself == ASSUME NEW xs PROVE Extends(xs, xs)
BY DEF Extends

(* More that has been moved is less that is promised.                      *)
LEMMA MoreMoved == ASSUME NEW xs, NEW M, NEW N, Sound(xs, M), M \subseteq N PROVE Sound(xs, N)
BY DEF Sound, MadeBy

(* Changing what is not about assertions of an action.                     *)
SameRole(x, y) ==
  /\ y.kind = x.kind /\ y.query = x.query /\ y.disabled = x.disabled
  /\ y.parentAction = x.parentAction /\ y.uniqueKeyAssertions = x.uniqueKeyAssertions
  /\ y.rowConditionsAssertion = x.rowConditionsAssertion
  /\ x.dependencyTargets \subseteq y.dependencyTargets

SameWords(x, y) ==
  y.text = x.text /\ y.type = x.type /\ y.target.name = x.target.name

(* Another target is allowed where it is known to M, or where nothing      *)
(* follows it.                                                             *)
LEMMA FieldUpdate ==
  ASSUME NEW xs, NEW M, NEW N, NEW i \in DOMAIN xs, NEW x, NEW ys,
         Sound(xs, M), M \subseteq N, ActionOK(x), SameRole(xs[i], x), WithEntry(xs, i, x, ys),
         x.target = xs[i].target \/ i \in N \/ Generated(xs, i) = {}
  PROVE  Sound(ys, N) /\ Extends(xs, ys) /\ DOMAIN ys = DOMAIN xs
<1>1. IsList(ys) /\ DOMAIN ys = DOMAIN xs /\ ys[i] = x /\ \A k \in DOMAIN xs : k # i => ys[k] = xs[k]
  BY DEF WithEntry
<1>2. Typed(ys)
  BY <1>1 DEF Sound, Typed
<1>3. \A k \in DOMAIN xs : Generated(ys, k) = Generated(xs, k) /\ SameRole(xs[k], ys[k])
  BY <1>1 DEF Generated, SameRole
<1>4. ASSUME NEW k \in DOMAIN xs, NEW j \in Generated(xs, k) PROVE MadeBy(ys, k, j, N)
  <2>1. MadeBy(xs, k, j, M)
    BY DEF Sound
  <2>2. j # i \/ ys[j].kind = "assertion"
    BY <1>3, <2>1 DEF MadeBy, SameRole
  <2>3. k \notin N => ys[k].target = xs[k].target
    BY <1>1
  <2> QED
    BY <1>1, <1>3, <2>1, <2>3 DEF MadeBy, SameRole
<1>5. Sound(ys, N)
  BY <1>1, <1>2, <1>3, <1>4 DEF Sound, SameRole
<1>6. Extends(xs, ys)
  BY <1>1, <1>3 DEF Extends, SameRole
<1> QED
  BY <1>1, <1>5, <1>6
-----------------------------------------------------------------------------
(* The calls on a builder that change one field.                           *)
Update(xs, i, ys) ==
  \E x : ActionOK(x) /\ SameRole(xs[i], x) /\ x.target = xs[i].target /\ ys = [xs EXCEPT ![i] = x]

LEMMA UpdateIsSound ==
  ASSUME NEW xs, NEW M, NEW i \in DOMAIN xs, NEW ys, Sound(xs, M), Update(xs, i, ys)
  PROVE  /\ Sound(ys, M) /\ Extends(xs, ys) /\ DOMAIN ys = DOMAIN xs
         /\ \A k \in DOMAIN xs : ys[k].target = xs[k].target /\ ys[k].disabled = xs[k].disabled
<1>1. PICK x : ActionOK(x) /\ SameRole(xs[i], x) /\ x.target = xs[i].target /\ ys = [xs EXCEPT ![i] = x]
  BY DEF Update
<1>2. WithEntry(xs, i, x, ys)
  <2>1. WithEntry(xs, i, x, Put(xs, i, x))
    BY ListExcept DEF Sound, Typed
  <2>2. ys = Put(xs, i, x)
    BY <1>1 DEF Put
  <2> QED
    BY <2>1, <2>2
<1>3. Sound(ys, M) /\ Extends(xs, ys) /\ DOMAIN ys = DOMAIN xs
  BY <1>1, <1>2, FieldUpdate
<1>4. ys[i] = x /\ \A k \in DOMAIN xs : k # i => ys[k] = xs[k]
  BY <1>2 DEF WithEntry
<1> QED
  BY <1>1, <1>3, <1>4 DEF SameRole

LEMMA FieldsAreUpdates ==
  ASSUME NEW xs, NEW i \in DOMAIN xs, ActionOK(xs[i]), NEW v
  PROVE  /\ Update(xs, i, Dependencies(xs, i, v))
         /\ Update(xs, i, Tags(xs, i, v))
         /\ Update(xs, i, HasOutput(xs, i, v))
         /\ Update(xs, i, Hermetic(xs, i, v))
         /\ Update(xs, i, Type(xs, i, v))
         /\ Update(xs, i, Options(xs, i, v))
         /\ Update(xs, i, [xs EXCEPT ![i].text = Append(@, v)])
         /\ Update(xs, i, [xs EXCEPT ![i].preOps = @ + 1])
<1> DEFINE x == xs[i]
<1> USE DEF ActionOK, ActionFields, SameRole
<1>1. Update(xs, i, Dependencies(xs, i, v))
  BY DEF Dependencies, Update
<1>2. Update(xs, i, Tags(xs, i, v))
  BY DEF Tags, Update
<1>3. Update(xs, i, HasOutput(xs, i, v))
  BY DEF HasOutput, Update
<1>4. Update(xs, i, Hermetic(xs, i, v))
  BY DEF Hermetic, Update
<1>5. Update(xs, i, Type(xs, i, v))
  BY DEF Type, Update
<1>6. Update(xs, i, Options(xs, i, v))
  BY DEF Options, Update
<1>7. Update(xs, i, [xs EXCEPT ![i].text = Append(@, v)])
  BY DEF Update
<1>8. Update(xs, i, [xs EXCEPT ![i].preOps = @ + 1])
  BY DEF Update
<1> QED
  BY <1>1, <1>2, <1>3, <1>4, <1>5, <1>6, <1>7, <1>8

(* database() and schema() change the target only.                         *)
Place(c) == c.schema \in Part /\ c.database \in Part
LEMMA LocatedFacts ==
  ASSUME NEW xs, IsList(xs), NEW i \in DOMAIN xs, ActionOK(xs[i]), config \in ProjectConfigs, NEW c
  PROVE  /\ Place(c) =>
              \E x : /\ ActionOK(x) /\ SameRole(xs[i], x) /\ SameWords(xs[i], x)
                    /\ Located(xs, i, c) = [xs EXCEPT ![i] = x]
         /\ c \in Part =>
              \E x : /\ ActionOK(x) /\ SameRole(xs[i], x) /\ SameWords(xs[i], x)
                    /\ Schema(xs, i, c) = [xs EXCEPT ![i] = x]
         /\ c \in Part =>
              \E x : /\ ActionOK(x) /\ SameRole(xs[i], x) /\ SameWords(xs[i], x)
                    /\ Database(xs, i, c) = [xs EXCEPT ![i] = x]
<1>1. IsList(config.defaultSchema) /\ \A p \in Part : IsList(p)
  BY SessionAssumption, PartsAreLists
<1>2. ASSUME NEW x, ActionOK(x), NEW schema \in Part
      PROVE  LET y == SetTarget(x, [x.target EXCEPT !.schema = schema]) IN ActionOK(y) /\ SameRole(x, y) /\ SameWords(x, y)
  <2> DEFINE t == [x.target EXCEPT !.schema = schema]
  <2>1. NameOK(t) /\ t.name = x.target.name
    BY <1>1, <1>2 DEF ActionOK, NameOK
  <2>2. NameOK(Target(config.defaultSchema, t)) /\ Target(config.defaultSchema, t).name = t.name
    <3> HIDE DEF t
    <3> QED
      BY <1>1, <2>1 DEF Target, NameOK, Given
  <2> HIDE DEF t
  <2>3. LET y == SetTarget(x, t) IN ActionOK(y) /\ SameRole(x, y) /\ SameWords(x, y)
    BY <1>2, <2>1, <2>2 DEF ActionOK, ActionFields, SameRole, SameWords, SetTarget
  <2> QED
    BY <2>3 DEF t
<1>3. ASSUME NEW x, ActionOK(x), NEW db \in Part
      PROVE  LET y == SetTarget(x, [x.target EXCEPT !.database = db]) IN ActionOK(y) /\ SameRole(x, y) /\ SameWords(x, y)
  <2> DEFINE t == [x.target EXCEPT !.database = db]
  <2>1. NameOK(t) /\ t.name = x.target.name
    BY <1>1, <1>3 DEF ActionOK, NameOK
  <2>2. NameOK(Target(config.defaultSchema, t)) /\ Target(config.defaultSchema, t).name = t.name
    <3> HIDE DEF t
    <3> QED
      BY <1>1, <2>1 DEF Target, NameOK, Given
  <2> HIDE DEF t
  <2>3. LET y == SetTarget(x, t) IN ActionOK(y) /\ SameRole(x, y) /\ SameWords(x, y)
    BY <1>3, <2>1, <2>2 DEF ActionOK, ActionFields, SameRole, SameWords, SetTarget
  <2> QED
    BY <2>3 DEF t
<1>4. c \in Part => \E x : ActionOK(x) /\ SameRole(xs[i], x) /\ SameWords(xs[i], x) /\ Schema(xs, i, c) = [xs EXCEPT ![i] = x]
  BY <1>2 DEF Schema
<1>5. c \in Part => \E x : ActionOK(x) /\ SameRole(xs[i], x) /\ SameWords(xs[i], x) /\ Database(xs, i, c) = [xs EXCEPT ![i] = x]
  BY <1>3 DEF Database
<1>6. ASSUME Place(c)
      PROVE  \E x : ActionOK(x) /\ SameRole(xs[i], x) /\ SameWords(xs[i], x) /\ Located(xs, i, c) = [xs EXCEPT ![i] = x]
  <2>1. PICK y : /\ ActionOK(y) /\ SameRole(xs[i], y) /\ SameWords(xs[i], y)
                 /\ (IF c.database # <<>> THEN Database(xs, i, c.database) ELSE xs) = [xs EXCEPT ![i] = y]
    <3>1. CASE c.database # <<>>
      BY <1>3, <1>6, <3>1 DEF Database, Place
    <3>2. CASE c.database = <<>>
      <4>1. xs = [xs EXCEPT ![i] = xs[i]] /\ SameRole(xs[i], xs[i]) /\ SameWords(xs[i], xs[i])
        BY ListFacts DEF SameRole, SameWords
      <4> QED
        BY <3>2, <4>1
    <3> QED
      BY <3>1, <3>2
  <2>2. CASE c.schema = <<>>
    BY <2>1, <2>2 DEF Located
  <2>3. CASE c.schema # <<>>
    <3> DEFINE ys == [xs EXCEPT ![i] = y]
               z == SetTarget(y, [y.target EXCEPT !.schema = c.schema])
    <3>1. ActionOK(z) /\ SameRole(y, z) /\ SameWords(y, z)
      BY <1>2, <1>6, <2>1 DEF Place
    <3>2. SameRole(xs[i], z) /\ SameWords(xs[i], z)
      BY <2>1, <3>1 DEF SameRole, SameWords
    <3>3. Located(xs, i, c) = Schema(ys, i, c.schema)
      BY <2>1, <2>3 DEF Located
    <3>4. Schema(ys, i, c.schema) = [ys EXCEPT ![i] = z]
      BY DEF Schema
    <3>5. [ys EXCEPT ![i] = z] = [xs EXCEPT ![i] = z]
      <4> HIDE DEF z
      <4> QED
        OBVIOUS
    <3> HIDE DEF z
    <3> QED
      BY <3>1, <3>2, <3>3, <3>4, <3>5
  <2> QED
    BY <2>2, <2>3
<1> QED
  BY <1>4, <1>5, <1>6
-----------------------------------------------------------------------------
(* What is no assertion was made by no table.                              *)
LEMMA TablesAreFree ==
  ASSUME NEW xs, NEW M, NEW i \in DOMAIN xs, Sound(xs, M), xs[i].kind # "assertion"
  PROVE  Free(xs, i)
BY DEF Sound, MadeBy, Free

(* disabled() reaches the assertions of a table as well.                   *)
LEMMA DisableIsSound ==
  ASSUME NEW xs, NEW M, NEW i \in DOMAIN xs, Sound(xs, M), Free(xs, i)
  PROVE  /\ Sound(Disable(xs, i), M) /\ Extends(xs, Disable(xs, i)) /\ DOMAIN Disable(xs, i) = DOMAIN xs
         /\ \A k \in DOMAIN xs : Disable(xs, i)[k].target = xs[k].target
<1> DEFINE ys == Disable(xs, i)
           hit(k) == k = i \/ k \in xs[i].uniqueKeyAssertions \/ k = xs[i].rowConditionsAssertion
<1>0. Len(xs) \in Nat /\ DOMAIN xs = 1..Len(xs)
  BY ListFacts DEF Sound, Typed
<1>1. /\ DOMAIN ys = DOMAIN xs /\ ys = [k \in 1..Len(xs) |-> ys[k]]
      /\ \A k \in DOMAIN xs : ys[k] = IF hit(k) THEN [xs[k] EXCEPT !.disabled = TRUE] ELSE xs[k]
  BY <1>0 DEF Disable
<1>2. \A k \in DOMAIN xs : hit(k) <=> k = i \/ k \in Generated(xs, i)
  BY <1>0 DEF Generated
<1> HIDE DEF ys, hit
<1>3. IsList(ys)
  BY <1>0, <1>1, MakeList
<1>4. \A k \in DOMAIN xs : ActionOK(xs[k])
  BY DEF Sound, Typed
<1>5. ASSUME NEW k \in DOMAIN xs
      PROVE  /\ ActionOK(ys[k]) /\ Generated(ys, k) = Generated(xs, k) /\ ys[k].target = xs[k].target
             /\ ys[k].kind = xs[k].kind /\ ys[k].query = xs[k].query
             /\ ys[k].dependencyTargets = xs[k].dependencyTargets
             /\ ys[k].parentAction = xs[k].parentAction
             /\ ys[k].disabled = IF hit(k) THEN TRUE ELSE xs[k].disabled
  <2>1. CASE hit(k)
    BY <1>1, <1>4, <2>1 DEF ActionOK, ActionFields, Generated
  <2>2. CASE ~hit(k)
    BY <1>1, <1>4, <2>2 DEF Generated
  <2> QED
    BY <2>1, <2>2
<1>6. ASSUME NEW k \in DOMAIN xs, NEW j \in Generated(xs, k) PROVE MadeBy(ys, k, j, M)
  <2>1. MadeBy(xs, k, j, M) /\ j \in DOMAIN xs /\ j # i
    BY DEF Sound, MadeBy, Free
  <2>2. hit(k) <=> hit(j)
    <3>1. CASE k = i
      BY <1>2, <2>1, <3>1
    <3>2. CASE k # i
      <4>1. k \notin Generated(xs, i)
        BY <2>1 DEF Sound, MadeBy
      <4>2. j \notin Generated(xs, i)
        <5>1. j \in Generated(xs, i) => xs[j].query = <<<<"refParent", i>>>>
          BY DEF Sound, MadeBy
        <5>2. xs[j].query = <<<<"refParent", k>>>>
          BY <2>1 DEF MadeBy
        <5> QED
          BY <3>2, <5>1, <5>2
      <4> QED
        BY <1>2, <2>1, <3>2, <4>1, <4>2
    <3> QED
      BY <3>1, <3>2
  <2> QED
    BY <1>1, <1>5, <2>1, <2>2 DEF MadeBy
<1>7. Sound(ys, M)
  BY <1>1, <1>3, <1>5, <1>6 DEF Sound, Typed
<1>8. Extends(xs, ys)
  BY <1>1, <1>5 DEF Extends
<1> QED
  BY <1>1, <1>5, <1>7, <1>8 DEF ys

(* An assertion more, and the table that has made it.                      *)
WithAssertion(xs, i, label, ys, n) ==
  /\ IsList(ys) /\ DOMAIN ys = DOMAIN xs \cup {n} /\ n \notin DOMAIN xs /\ n # 0
  /\ \A k \in DOMAIN xs : ys[k] = xs[k]
  /\ ActionOK(ys[n]) /\ ys[n].kind = "assertion" /\ ys[n].query = <<<<"refParent", i>>>>
  /\ ys[n].disabled = xs[i].disabled /\ ys[n].parentAction = xs[i].target
  /\ ys[n].text = <<>> /\ ys[n].type = "assertion"
  /\ ys[n].target.name = xs[i].target.schema \o xs[i].target.name \o <<label>>
  /\ Generated(ys, n) = {}
(* What Generate adds to the actions.                                      *)
LEMMA GenerateFacts ==
  ASSUME NEW xs, Typed(xs), NEW i \in DOMAIN xs, config \in ProjectConfigs, NEW label
  PROVE  WithAssertion(xs, i, label, Generate(xs, i, label), Len(xs) + 1)
<1> PICK n : n = Len(xs) + 1
  OBVIOUS
<1> PICK ys : ys = Generate(xs, i, label)
  OBVIOUS
<1> DEFINE t == xs[i].target
           name == t.schema \o t.name \o <<label>>
           made == DefineAssertion(xs, name)
           x == SetTarget(Blank("assertion"), [NoTarget EXCEPT !.name = name, !.schema = config.assertionSchema])
           y == [x EXCEPT !.query = <<<<"refParent", i>>>>, !.parentAction = t, !.disabled = xs[i].disabled]
<1>1. IsList(xs) /\ Len(xs) \in Nat /\ DOMAIN xs = 1..Len(xs) /\ NameOK(t)
  BY ListFacts DEF Typed, ActionOK
<1>2. IsList(name) /\ name # <<>>
  BY <1>1, NamesAreJoined DEF NameOK
<1>3. IsList(config.defaultSchema) /\ IsList(config.assertionSchema) /\ IsList(<<>>)
  BY SessionAssumption, PartsAreLists, NothingIsList
<1> HIDE DEF t, name
<1>4. ActionOK(y) /\ y.kind = "assertion" /\ y.uniqueKeyAssertions = {} /\ y.rowConditionsAssertion = 0
      /\ y.query = <<<<"refParent", i>>>> /\ y.disabled = xs[i].disabled /\ y.parentAction = t
      /\ y.text = <<>> /\ y.type = "assertion" /\ y.target.name = name
  <2>1. /\ NameOK(Target(config.defaultSchema, [NoTarget EXCEPT !.name = name, !.schema = config.assertionSchema]))
        /\ Target(config.defaultSchema, [NoTarget EXCEPT !.name = name, !.schema = config.assertionSchema]).name = name
    BY <1>2, <1>3 DEF NameOK, Target, NoTarget, Given
  <2>2. QueryOK(<<<<"refParent", i>>>>)
    BY DEF QueryOK, CallOK
  <2>3. x.target = Target(config.defaultSchema, [NoTarget EXCEPT !.name = name, !.schema = config.assertionSchema])
        /\ DOMAIN x = ActionFields /\ x.kind = "assertion" /\ x.uniqueKeyAssertions = {}
        /\ x.rowConditionsAssertion = 0 /\ x.text = <<>> /\ x.type = "assertion"
    BY DEF SetTarget, Blank, ActionFields
  <2> HIDE DEF x
  <2> QED
    BY <2>1, <2>2, <2>3 DEF ActionOK, ActionFields, Kinds
<1>5. made = Append(xs, x)
  BY DEF DefineAssertion
<1> HIDE DEF x
<1>6. IsList(made) /\ Len(made) = n /\ made[n] = x /\ \A k \in DOMAIN xs : made[k] = xs[k]
  BY <1>1, <1>5, ListAppend
<1>7. ys = [made EXCEPT ![n].query = <<<<"refParent", i>>>>, ![n].parentAction = t, ![n].disabled = xs[i].disabled]
  BY <1>6 DEF Generate, t, name
<1> HIDE DEF made
<1>8. n \in DOMAIN made /\ DOMAIN made = 1..n
  BY <1>1, <1>6, ListFacts
<1>9. ys = Put(made, n, y)
  BY <1>6, <1>7, <1>8 DEF Put
<1> HIDE DEF y
<1>10. IsList(ys) /\ DOMAIN ys = 1..n /\ ys[n] = y /\ \A k \in 1..n : k # n => ys[k] = made[k]
  <2>1. WithEntry(made, n, y, ys)
    BY <1>6, <1>8, <1>9, ListExcept
  <2> QED
    BY <1>8, <2>1 DEF WithEntry
<1>11. DOMAIN ys = DOMAIN xs \cup {n} /\ n \notin DOMAIN xs /\ n # 0
  BY <1>1, <1>10
<1>12. Generated(ys, n) = {}
  BY <1>4, <1>10 DEF Generated
<1> QED
  BY <1>4, <1>6, <1>10, <1>11, <1>12, <1>1 DEF t, name, WithAssertion

(* What the calls that make assertions have in common: the table i is the  *)
(* same but for the positions of its assertions, among which n is new.     *)
Grown(xs, M, zs) ==
  /\ Sound(zs, M) /\ Extends(xs, zs)
  /\ \A k \in DOMAIN xs : zs[k].target = xs[k].target

LEMMA MadeIsSound ==
  ASSUME NEW xs, NEW M, NEW i \in DOMAIN xs, Sound(xs, M), xs[i].kind = "table",
         config \in ProjectConfigs, NEW label, NEW x,
         ActionOK(x), x.kind = "table", x.query = xs[i].query, x.disabled = xs[i].disabled,
         x.target = xs[i].target, x.dependencyTargets = xs[i].dependencyTargets,
         (x.uniqueKeyAssertions \cup {x.rowConditionsAssertion}) \ {0}
           \subseteq Generated(xs, i) \cup {Len(xs) + 1}
  PROVE  Grown(xs, M, Put(Generate(xs, i, label), i, x))
<1> PICK zs : zs = Put(Generate(xs, i, label), i, x)
  OBVIOUS
<1> PICK ys : ys = Generate(xs, i, label)
  OBVIOUS
<1> PICK n : n = Len(xs) + 1
  OBVIOUS
<1>1. WithAssertion(xs, i, label, ys, n)
  BY GenerateFacts DEF Sound
<1>1a. IsList(ys)
  BY <1>1 DEF WithAssertion
<1>2. zs = Put(ys, i, x)
  BY DEF Put
<1>3. IsList(zs) /\ DOMAIN zs = DOMAIN ys /\ zs[i] = x /\ \A k \in DOMAIN ys : k # i => zs[k] = ys[k]
  <2>1. i \in DOMAIN ys
    BY <1>1 DEF WithAssertion
  <2>2. WithEntry(ys, i, x, zs)
    BY <1>1a, <1>2, <2>1, ListExcept
  <2> QED
    BY <2>2 DEF WithEntry
<1>4. \A k \in DOMAIN xs : k # i => zs[k] = xs[k]
  BY <1>1, <1>3 DEF WithAssertion
<1>5. zs[n] = ys[n] /\ n # i
  BY <1>1, <1>3 DEF WithAssertion
<1>6. Generated(zs, i) \subseteq Generated(xs, i) \cup {n} /\ Generated(zs, n) = {}
  BY <1>1, <1>3, <1>5 DEF Generated, WithAssertion
<1>7. \A k \in DOMAIN xs : k # i => Generated(zs, k) = Generated(xs, k)
  BY <1>4 DEF Generated
<1>8. \A k \in DOMAIN xs : ActionOK(xs[k])
  BY DEF Sound, Typed
<1>9. Typed(zs)
  BY <1>1, <1>3, <1>4, <1>5, <1>8 DEF Typed, WithAssertion
<1>10. NameOK(xs[i].target) /\ xs[i].target # NoTarget
  BY <1>8 DEF ActionOK, NameOK, NoTarget
<1>11. MadeBy(zs, i, n, M)
  BY <1>1, <1>3, <1>5, <1>10 DEF MadeBy, WithAssertion
<1>12. ASSUME NEW k \in DOMAIN xs, NEW j \in Generated(xs, k) PROVE MadeBy(zs, k, j, M)
  <2>1. MadeBy(xs, k, j, M) /\ j \in DOMAIN xs /\ j # i
    BY DEF Sound, MadeBy
  <2> QED
    BY <1>1, <1>3, <1>4, <2>1 DEF MadeBy, WithAssertion
<1>13. Sound(zs, M)
  <2>1. ASSUME NEW k \in DOMAIN zs
        PROVE  /\ zs[k].kind # "table" => Generated(zs, k) = {}
               /\ \A j \in Generated(zs, k) : MadeBy(zs, k, j, M)
    <3>1. CASE k = i
      BY <1>3, <1>6, <1>11, <1>12, <3>1
    <3>2. CASE k = n
      BY <1>6, <3>2
    <3>3. CASE k # i /\ k # n
      <4>1. k \in DOMAIN xs /\ zs[k] = xs[k] /\ Generated(zs, k) = Generated(xs, k)
        BY <1>1, <1>3, <1>4, <1>7, <3>3 DEF WithAssertion
      <4>2. xs[k].kind # "table" => Generated(xs, k) = {}
        BY <4>1 DEF Sound
      <4> QED
        BY <1>12, <4>1, <4>2
    <3> QED
      BY <3>1, <3>2, <3>3
  <2> QED
    BY <1>9, <2>1 DEF Sound
<1>14. Extends(xs, zs)
  BY <1>1, <1>3, <1>4, <1>6, <1>7 DEF Extends, WithAssertion
<1> QED
  BY <1>3, <1>4, <1>13, <1>14 DEF Grown

(* And again.                                                              *)
LEMMA GrownFurther ==
  ASSUME NEW xs, NEW M, NEW ys, NEW zs, Grown(xs, M, ys), Grown(ys, M, zs) PROVE Grown(xs, M, zs)
BY ExtendsFurther DEF Grown, Extends

(* assertions() makes up to three of them.                                 *)
LEMMA AssertionsAreSound ==
  ASSUME NEW xs, NEW M, NEW i \in DOMAIN xs, Sound(xs, M), xs[i].kind = "table",
         config \in ProjectConfigs, NEW wanted
  PROVE  Grown(xs, M, Assertions(xs, i, wanted))
<1>1. ASSUME NEW ys, Sound(ys, M), i \in DOMAIN ys, ys[i].kind = "table", NEW label
      PROVE  LET zs == UniqueKeyAssertion(ys, i, label)
             IN Grown(ys, M, zs)
  <2> DEFINE x == [ys[i] EXCEPT !.uniqueKeyAssertions = ys[i].uniqueKeyAssertions \cup {Len(ys) + 1}]
             zs == UniqueKeyAssertion(ys, i, label)
  <2> PICK gs : gs = Generate(ys, i, label)
    OBVIOUS
  <2>1. gs[i] = ys[i] /\ ActionOK(ys[i]) /\ i \in DOMAIN gs
    <3>1. WithAssertion(ys, i, label, gs, Len(ys) + 1)
      BY <1>1, GenerateFacts DEF Sound
    <3> QED
      BY <1>1, <3>1 DEF Sound, Typed, WithAssertion
  <2>2. zs = Put(Generate(ys, i, label), i, x)
    BY <2>1 DEF UniqueKeyAssertion, Put
  <2>3. /\ ActionOK(x) /\ x.kind = "table" /\ x.query = ys[i].query /\ x.disabled = ys[i].disabled
        /\ x.target = ys[i].target /\ x.dependencyTargets = ys[i].dependencyTargets
        /\ x.uniqueKeyAssertions = ys[i].uniqueKeyAssertions \cup {Len(ys) + 1}
        /\ x.rowConditionsAssertion = ys[i].rowConditionsAssertion
    BY <1>1, <2>1 DEF ActionOK, ActionFields
  <2>4. (x.uniqueKeyAssertions \cup {x.rowConditionsAssertion}) \ {0} \subseteq Generated(ys, i) \cup {Len(ys) + 1}
    BY <2>3 DEF Generated
  <2> HIDE DEF x, zs
  <2>5. Grown(ys, M, zs)
    BY <1>1, <2>2, <2>3, <2>4, MadeIsSound
  <2> QED
    BY <2>5 DEF zs
<1>2. ASSUME NEW ys, Sound(ys, M), i \in DOMAIN ys, ys[i].kind = "table"
      PROVE  Grown(ys, M, RowConditionsAssertion(ys, i))
  <2> PICK label : label = "rowConditions"
    OBVIOUS
  <2> DEFINE x == [ys[i] EXCEPT !.rowConditionsAssertion = Len(ys) + 1]
             zs == RowConditionsAssertion(ys, i)
  <2> PICK gs : gs = Generate(ys, i, label)
    OBVIOUS
  <2>1. gs[i] = ys[i] /\ ActionOK(ys[i]) /\ i \in DOMAIN gs
    <3>1. WithAssertion(ys, i, label, gs, Len(ys) + 1)
      BY <1>2, GenerateFacts DEF Sound
    <3> QED
      BY <1>2, <3>1 DEF Sound, Typed, WithAssertion
  <2>2. zs = Put(Generate(ys, i, label), i, x)
    BY <2>1 DEF RowConditionsAssertion, Put
  <2>3. /\ ActionOK(x) /\ x.kind = "table" /\ x.query = ys[i].query /\ x.disabled = ys[i].disabled
        /\ x.target = ys[i].target /\ x.dependencyTargets = ys[i].dependencyTargets
        /\ x.uniqueKeyAssertions = ys[i].uniqueKeyAssertions
        /\ x.rowConditionsAssertion = Len(ys) + 1
    BY <1>2, <2>1 DEF ActionOK, ActionFields
  <2>4. (x.uniqueKeyAssertions \cup {x.rowConditionsAssertion}) \ {0} \subseteq Generated(ys, i) \cup {Len(ys) + 1}
    BY <2>3 DEF Generated
  <2> HIDE DEF x, zs
  <2>5. Grown(ys, M, zs)
    BY <1>2, <2>2, <2>3, <2>4, MadeIsSound
  <2> QED
    BY <2>5 DEF zs
<1> DEFINE Goes(ys) == Grown(xs, M, ys)
<1>0. ASSUME NEW ys, Goes(ys) PROVE i \in DOMAIN ys /\ ys[i].kind = "table" /\ Sound(ys, M)
  BY <1>0 DEF Grown, Extends
<1>3. Goes(xs)
  BY ExtendsItself DEF Grown
<1>4. ASSUME NEW ys, Goes(ys), NEW label PROVE Goes(UniqueKeyAssertion(ys, i, label))
  <2>1. Grown(ys, M, UniqueKeyAssertion(ys, i, label))
    BY <1>0, <1>1, <1>4
  <2> QED
    BY <1>4, <2>1, GrownFurther
<1>5. ASSUME NEW ys, Goes(ys) PROVE Goes(RowConditionsAssertion(ys, i))
  <2>1. Grown(ys, M, RowConditionsAssertion(ys, i))
    BY <1>0, <1>2, <1>5
  <2> QED
    BY <1>5, <2>1, GrownFurther
<1> DEFINE first == IF wanted \cap {"uniqueKey", "uniqueKeys"} # {} THEN UniqueKeyAssertion(xs, i, "uniqueKey0") ELSE xs
           both == IF "uniqueKeys" \in wanted /\ "uniqueKey" \notin wanted THEN UniqueKeyAssertion(first, i, "uniqueKey1") ELSE first
<1> HIDE DEF Goes
<1>6. Goes(first)
  <2> PICK label : label = "uniqueKey0"
    OBVIOUS
  <2>1. Goes(UniqueKeyAssertion(xs, i, label))
    BY <1>3, <1>4
  <2> QED
    BY <1>3, <2>1
<1>7. Goes(both)
  <2> HIDE DEF first
  <2> PICK label : label = "uniqueKey1"
    OBVIOUS
  <2>1. Goes(UniqueKeyAssertion(first, i, label))
    BY <1>6, <1>4
  <2> QED
    BY <1>6, <2>1
<1>8. Goes(Assertions(xs, i, wanted))
  <2>1. Assertions(xs, i, wanted) = IF "rowConditions" \in wanted THEN RowConditionsAssertion(both, i) ELSE both
    BY DEF Assertions
  <2> HIDE DEF both
  <2> QED
    BY <1>7, <1>5, <2>1
<1> QED
  BY <1>8 DEF Goes
-----------------------------------------------------------------------------
(* What an action leads to.                                                *)
LEMMA LeadsTo ==
  ASSUME IsList(actions), Graph \subseteq DOMAIN actions, NEW i \in DOMAIN actions
  PROVE  /\ DependsOn(i) \subseteq Reach(DependsOn(i)) /\ Reach(DependsOn(i)) \subseteq Graph
         /\ \A x \in Reach(DependsOn(i)) : Reach(DependsOn(x)) \subseteq Reach(DependsOn(i))
<1> PICK n \in Nat : n = Len(actions)
  BY ListFacts
<1> PICK f : f = [k \in DOMAIN actions |-> DependsOn(k)]
  OBVIOUS
<1>1. DOMAIN f = 1..n /\ DOMAIN actions = 1..n
  BY ListFacts
<1>2. \A k \in DOMAIN actions : f[k] = DependsOn(k) /\ DependsOn(k) \subseteq Graph
  BY DEF DependsOn
<1>3. \A S : Reach(S) = Reached(f, S, n)
  BY DEF Reach
<1>4. DependsOn(i) \subseteq Graph
  BY <1>2
<1>5. DependsOn(i) \subseteq Reach(DependsOn(i))
  BY <1>3, ReachedFromStart
<1>6. Reach(DependsOn(i)) \subseteq Graph
  <2>1. \A x \in Graph \cap DOMAIN f : f[x] \subseteq Graph
    BY <1>1, <1>2
  <2> QED
    BY <1>3, <1>4, <2>1, ReachedIsLeast
<1>7. \A x \in Reach(DependsOn(i)) : f[x] \subseteq Reach(DependsOn(i))
  <2>1. \A x \in 1..n : f[x] \subseteq 1..n
    BY <1>1, <1>2
  <2>2. DependsOn(i) \subseteq 1..n
    BY <1>1, <1>4
  <2>3. \A x \in Reached(f, DependsOn(i), n) : f[x] \subseteq Reached(f, DependsOn(i), n)
    BY <1>1, <2>1, <2>2, ReachedIsClosed
  <2> QED
    BY <1>3, <2>3
<1>8. ASSUME NEW x \in Reach(DependsOn(i)) PROVE Reach(DependsOn(x)) \subseteq Reach(DependsOn(i))
  <2> PICK U : U = Reach(DependsOn(i))
    OBVIOUS
  <2>1. DependsOn(x) \subseteq U /\ \A y \in U \cap DOMAIN f : f[y] \subseteq U
    BY <1>1, <1>2, <1>6, <1>7
  <2>2. Reached(f, DependsOn(x), n) \subseteq U
    BY <2>1, ReachedIsLeast
  <2> QED
    BY <1>3, <2>2
<1> QED
  BY <1>5, <1>6, <1>8

(* Of actions that each lead to another of them, one leads to the fewest:  *)
(* it and what it leads to are in one component.                           *)
LEMMA NoCircle ==
  ASSUME IsList(actions), Graph \subseteq DOMAIN actions, Cyclic = {}
  PROVE  ~\E is \in SUBSET Graph :
            Cardinality(is) > 1 /\ \A i \in is : (DependsOn(i) \cap is) \ {i} # {}
<1> DEFINE f(i) == Reach(DependsOn(i))
<1>1. SUFFICES ASSUME NEW is \in SUBSET Graph, Cardinality(is) > 1,
                      \A i \in is : (DependsOn(i) \cap is) \ {i} # {}
               PROVE  FALSE
  OBVIOUS
<1>2. \A i \in Graph : /\ DependsOn(i) \subseteq f(i) /\ f(i) \subseteq Graph
                       /\ \A x \in f(i) : f(x) \subseteq f(i)
  BY LeadsTo
<1>3. IsFiniteSet(Graph)
  <2>1. DOMAIN actions = 1..Len(actions) /\ Len(actions) \in Nat
    BY ListFacts
  <2>2. IsFiniteSet(DOMAIN actions)
    BY <2>1, FS_Interval
  <2> QED
    BY <2>2, FS_Subset
<1> HIDE DEF f
<1>4. \A i \in Graph : IsFiniteSet(f(i)) /\ Cardinality(f(i)) \in Nat
  BY <1>2, <1>3, FS_Subset, FS_CardinalityType
<1>5. is # {}
  BY <1>1, FS_EmptySet
<1>6. PICK i \in is : \A j \in is : Cardinality(f(i)) <= Cardinality(f(j))
  <2> DEFINE T == {Cardinality(f(j)) : j \in is}
  <2>1. T \in SUBSET Nat /\ T # {}
    BY <1>4, <1>5
  <2>2. PICK c \in T : \A m \in T : c <= m
    <3> HIDE DEF T
    <3> QED
      BY <2>1, LeastNumber
  <2> QED
    BY <2>2
<1>7. ASSUME NEW j \in is, j \in f(i) PROVE f(j) = f(i)
  <2>1. f(j) \subseteq f(i)
    BY <1>2, <1>7
  <2>2. Cardinality(f(j)) <= Cardinality(f(i)) /\ (Cardinality(f(i)) = Cardinality(f(j)) => f(i) = f(j))
    BY <1>4, <2>1, FS_Subset
  <2>3. Cardinality(f(i)) <= Cardinality(f(j)) /\ Cardinality(f(i)) \in Nat /\ Cardinality(f(j)) \in Nat
    BY <1>4, <1>6
  <2> QED
    BY <2>2, <2>3
<1>8. PICK j : j \in DependsOn(i) /\ j \in is /\ j # i
  BY <1>1
<1>9. PICK k : k \in DependsOn(j) /\ k \in is /\ k # j
  BY <1>1, <1>8
<1>10. j \in f(i) /\ f(j) = f(i) /\ k \in f(j)
  BY <1>2, <1>7, <1>8, <1>9
<1>11. j \in f(k)
  BY <1>7, <1>9, <1>10
<1>12. j \in Cyclic
  BY <1>8, <1>9, <1>10, <1>11 DEF Cyclic, f
<1> QED
  BY <1>12
-----------------------------------------------------------------------------
(* An action that alone is found.                                          *)
LEMMA FoundAlone ==
  ASSUME NEW xs, IsList(xs), NEW ref, Cardinality(FindActions(xs, ref)) = 1
  PROVE  \E j \in DOMAIN xs : FindActions(xs, ref) = {j} /\ First(FindActions(xs, ref)) = j
<1>1. FindActions(xs, ref) \subseteq DOMAIN xs
  BY DEF FindActions
<1>2. DOMAIN xs = 1..Len(xs) /\ Len(xs) \in Nat
  BY ListFacts
<1>3. IsFiniteSet(FindActions(xs, ref))
  <2>1. IsFiniteSet(DOMAIN xs)
    BY <1>2, FS_Interval
  <2> QED
    BY <1>1, <2>1, FS_Subset
<1>4. PICK j : FindActions(xs, ref) = {j}
  BY <1>3, FS_Singleton
<1>5. j \in DOMAIN xs /\ j <= j
  BY <1>1, <1>2, <1>4
<1>6. First({j}) = j
  BY <1>5 DEF First
<1> QED
  BY <1>4, <1>5, <1>6

(* An action is found by whatever finds another of its target.             *)
LEMMA FoundByTarget ==
  ASSUME NEW xs, NEW i \in DOMAIN xs, NEW k \in DOMAIN xs, NEW ref, i \in FindActions(xs, ref),
         xs[k].target = xs[i].target
  PROVE  k \in FindActions(xs, ref)
BY DEF FindActions

(* What qualified dependencies are: each the target of one action, which   *)
(* is no inline table.                                                     *)
TargetOfOne(xs, t) ==
  \E j \in DOMAIN xs : /\ xs[j].target = t /\ ~Inline(xs, j)
                       /\ \A k \in DOMAIN xs : xs[k].target = t => k = j

LEMMA QualifiedAreTargets ==
  ASSUME NEW xs, IsList(xs), NEW i \in DOMAIN xs, NEW t \in Qualified(xs, i)
  PROVE  TargetOfOne(xs, t)
<1>1. PICK ref : /\ Cardinality(FindActions(xs, ref)) = 1
                 /\ ~Inline(xs, First(FindActions(xs, ref)))
                 /\ t = xs[First(FindActions(xs, ref))].target
  BY DEF Qualified
<1>2. PICK j \in DOMAIN xs : FindActions(xs, ref) = {j} /\ First(FindActions(xs, ref)) = j
  BY <1>1, FoundAlone
<1>3. \A k \in DOMAIN xs : xs[k].target = t => k = j
  BY <1>1, <1>2, FoundByTarget
<1> QED
  BY <1>1, <1>2, <1>3 DEF TargetOfOne

(* A dependency on an action is kept, if it can be resolved.               *)
LEMMA QualifiedKeeps ==
  ASSUME NEW xs, IsList(xs), NEW i \in DOMAIN xs, NEW j \in DOMAIN xs,
         xs[i].target \in xs[j].dependencyTargets, ~Inline(xs, i), QualifyErrors(xs, j) = {}
  PROVE  xs[i].target \in Qualified(xs, j)
<1> DEFINE ref == xs[i].target
           refs == xs[j].dependencyTargets
<1>1. ref \in Expanded(xs, refs)
  <2>1. Len(xs) \in Nat
    BY ListFacts
  <2> DEFINE f == [r \in refs \cup UNION {xs[k].dependencyTargets : k \in DOMAIN xs} |-> Through(xs, r)]
  <2>2. Expanded(xs, refs) = Reached(f, refs, Len(xs))
    BY DEF Expanded
  <2> HIDE DEF f, refs
  <2>3. refs \subseteq Reached(f, refs, Len(xs))
    BY <2>1, ReachedFromStart
  <2> QED
    BY <2>2, <2>3 DEF refs
<1>2. Cardinality(FindActions(xs, ref)) = 1
  BY <1>1 DEF QualifyErrors
<1>3. i \in FindActions(xs, ref)
  BY DEF FindActions
<1>4. First(FindActions(xs, ref)) = i
  <2>1. PICK k \in DOMAIN xs : FindActions(xs, ref) = {k} /\ First(FindActions(xs, ref)) = k
    BY <1>2, FoundAlone
  <2> QED
    BY <1>3, <2>1
<1> QED
  BY <1>1, <1>2, <1>4 DEF Qualified
-----------------------------------------------------------------------------
(* Steps that leave the positions and the targets as they are.             *)
Same(xs, M, ys) == Grown(xs, M, ys) /\ DOMAIN ys = DOMAIN xs

(* The calls on a builder that change a field are such steps, and so are   *)
(* disabled() and the first part of every config().                        *)
LEMMA SameFurther ==
  ASSUME NEW xs, NEW M, NEW ys, NEW zs, Same(xs, M, ys), Same(ys, M, zs) PROVE Same(xs, M, zs)
BY GrownFurther DEF Same

LEMMA UpdateIsSame ==
  ASSUME NEW xs, NEW M, NEW i \in DOMAIN xs, NEW ys, Sound(xs, M), Update(xs, i, ys)
  PROVE  Same(xs, M, ys)
BY UpdateIsSound DEF Same, Grown

LEMMA DisableIsSame ==
  ASSUME NEW xs, NEW M, NEW i \in DOMAIN xs, Sound(xs, M), Free(xs, i)
  PROVE  Same(xs, M, Disable(xs, i))
BY DisableIsSound DEF Same, Grown

LEMMA SoundEntries ==
  ASSUME NEW xs, NEW M, Sound(xs, M), NEW i \in DOMAIN xs
  PROVE  ActionOK(xs[i]) /\ IsList(xs)
BY DEF Sound, Typed

LEMMA FieldsAreSame ==
  ASSUME NEW xs, NEW M, NEW i \in DOMAIN xs, Sound(xs, M), NEW v
  PROVE  /\ Same(xs, M, Dependencies(xs, i, v))
         /\ Same(xs, M, Tags(xs, i, v))
         /\ Same(xs, M, HasOutput(xs, i, v))
         /\ Same(xs, M, Hermetic(xs, i, v))
         /\ Same(xs, M, Type(xs, i, v))
         /\ Same(xs, M, Options(xs, i, v))
         /\ Same(xs, M, [xs EXCEPT ![i].text = Append(@, v)])
         /\ Same(xs, M, [xs EXCEPT ![i].preOps = @ + 1])
<1>1. ActionOK(xs[i])
  BY SoundEntries
<1>2. /\ Update(xs, i, Dependencies(xs, i, v))
      /\ Update(xs, i, Tags(xs, i, v))
      /\ Update(xs, i, HasOutput(xs, i, v))
      /\ Update(xs, i, Hermetic(xs, i, v))
      /\ Update(xs, i, Type(xs, i, v))
      /\ Update(xs, i, Options(xs, i, v))
      /\ Update(xs, i, [xs EXCEPT ![i].text = Append(@, v)])
      /\ Update(xs, i, [xs EXCEPT ![i].preOps = @ + 1])
  BY <1>1, FieldsAreUpdates
<1> QED
  BY <1>2, UpdateIsSame

LEMMA DescribedIsSame ==
  ASSUME NEW xs, NEW M, NEW i \in DOMAIN xs, Sound(xs, M), Free(xs, i), NEW c
  PROVE  Same(xs, M, Described(xs, i, c))
<1> DEFINE Goes(ys) == Same(xs, M, ys)
           a0 == Dependencies(xs, i, c.dependencies)
           a1 == Hermetic(a0, i, c.hermetic)
           a2 == IF c.disabled THEN Disable(a1, i) ELSE a1
           a3 == Tags(a2, i, c.tags)
           a4 == Options(a3, i, c.props)
<1>1. ASSUME NEW ys, Goes(ys) PROVE i \in DOMAIN ys /\ Sound(ys, M) /\ Free(ys, i)
  BY <1>1, StaysFree DEF Same, Grown
<1>2. ASSUME NEW ys, NEW zs, Goes(ys), Same(ys, M, zs) PROVE Goes(zs)
  BY <1>2, SameFurther
<1>3. Goes(a0)
  BY FieldsAreSame
<1>4. Described(xs, i, c) = a4
  BY DEF Described
<1> HIDE DEF Goes, a0
<1>5. Goes(a1)
  <2>1. Same(a0, M, a1)
    BY <1>1, <1>3, FieldsAreSame
  <2> HIDE DEF a1
  <2> QED
    BY <1>2, <1>3, <2>1
<1> HIDE DEF a1
<1>6. Goes(a2)
  <2>1. Same(a1, M, Disable(a1, i))
    BY <1>1, <1>5, DisableIsSame
  <2> QED
    BY <1>2, <1>5, <2>1
<1> HIDE DEF a2
<1>7. Goes(a3)
  <2>1. Same(a2, M, a3)
    BY <1>1, <1>6, FieldsAreSame
  <2> HIDE DEF a3
  <2> QED
    BY <1>2, <1>6, <2>1
<1> HIDE DEF a3
<1>8. Goes(a4)
  <2>1. Same(a3, M, a4)
    BY <1>1, <1>7, FieldsAreSame
  <2> HIDE DEF a4
  <2> QED
    BY <1>2, <1>7, <2>1
<1> QED
  BY <1>4, <1>8 DEF Goes

(* What a config makes of the actions: one of them may get another target. *)
Configured(xs, i, ys) ==
  Extends(xs, ys) /\ \A k \in DOMAIN xs : k # i => ys[k].target = xs[k].target
Known(xs, i, ys, N) == i \in N \/ Generated(xs, i) = {} \/ ys[i].target = xs[i].target

(* A new target, and then what config() has put before it.                 *)
LEMMA PlacedIsSound ==
  ASSUME NEW xs, NEW M, NEW N, M \subseteq N, Sound(xs, M), NEW i \in DOMAIN xs, NEW ys,
         \E x : ActionOK(x) /\ SameRole(xs[i], x) /\ ys = [xs EXCEPT ![i] = x],
         Known(xs, i, ys, N)
  PROVE  Sound(ys, N) /\ Configured(xs, i, ys) /\ DOMAIN ys = DOMAIN xs
<1>1. PICK x : ActionOK(x) /\ SameRole(xs[i], x) /\ ys = [xs EXCEPT ![i] = x]
  OBVIOUS
<1>2. WithEntry(xs, i, x, ys)
  <2>1. WithEntry(xs, i, x, Put(xs, i, x))
    BY SoundEntries, ListExcept
  <2>2. ys = Put(xs, i, x)
    BY <1>1 DEF Put
  <2> QED
    BY <2>1, <2>2
<1>3. x.target = xs[i].target \/ i \in N \/ Generated(xs, i) = {}
  BY <1>2 DEF WithEntry, Known
<1>4. Sound(ys, N) /\ Extends(xs, ys) /\ DOMAIN ys = DOMAIN xs
  BY <1>1, <1>2, <1>3, FieldUpdate
<1> QED
  BY <1>2, <1>4 DEF WithEntry, Configured

LEMMA ThenPlaced ==
  ASSUME NEW xs, NEW M, NEW N, M \subseteq N, NEW i \in DOMAIN xs, NEW bs, Same(xs, M, bs),
         config \in ProjectConfigs, NEW c, Place(c), Known(xs, i, Located(bs, i, c), N)
  PROVE  /\ Sound(Located(bs, i, c), N) /\ Configured(xs, i, Located(bs, i, c))
         /\ DOMAIN Located(bs, i, c) = DOMAIN xs
<1> PICK ys : ys = Located(bs, i, c)
  OBVIOUS
<1>1. /\ Sound(bs, M) /\ i \in DOMAIN bs /\ Extends(xs, bs) /\ DOMAIN bs = DOMAIN xs
      /\ \A k \in DOMAIN xs : bs[k].target = xs[k].target
  BY DEF Same, Grown
<1>2. \E x : ActionOK(x) /\ SameRole(bs[i], x) /\ ys = [bs EXCEPT ![i] = x]
  BY <1>1, SoundEntries, LocatedFacts
<1>3. Generated(bs, i) \subseteq DOMAIN bs
  BY <1>1 DEF Sound, MadeBy
<1>4. Generated(bs, i) \subseteq Generated(xs, i)
  BY <1>1, <1>3 DEF Extends
<1>5. Known(bs, i, ys, N)
  BY <1>1, <1>4 DEF Known
<1>6. Sound(ys, N) /\ Configured(bs, i, ys) /\ DOMAIN ys = DOMAIN bs
  BY <1>1, <1>2, <1>5, PlacedIsSound
<1> QED
  BY <1>1, <1>6, ExtendsFurther DEF Configured
-----------------------------------------------------------------------------
(* config() of each builder. The assertions of a table do not change its   *)
(* target, so that what is known of the target in the end is known of it   *)
(* before.                                                                 *)
LEMMA TableConfigIsSound ==
  ASSUME NEW xs, NEW M, NEW N, M \subseteq N, Sound(xs, M), NEW i \in DOMAIN xs, xs[i].kind = "table",
         config \in ProjectConfigs, NEW c, Place(c), Known(xs, i, TableConfig(xs, i, c), N)
  PROVE  Sound(TableConfig(xs, i, c), N) /\ Configured(xs, i, TableConfig(xs, i, c))
<1> PICK zs : zs = TableConfig(xs, i, c)
  OBVIOUS
<1> DEFINE typed == Type(xs, i, c.type)
           described == Described(typed, i, c)
           placed == Located(described, i, c)
<1>1. zs = Assertions(placed, i, c.assertions)
  BY DEF TableConfig
<1>2. Same(xs, M, described)
  <2>1. Same(xs, M, typed)
    BY FieldsAreSame
  <2> HIDE DEF typed
  <2>2. Sound(typed, M) /\ i \in DOMAIN typed /\ typed[i].kind = "table"
    BY <2>1 DEF Same, Grown, Extends
  <2>3. Free(typed, i)
    BY <2>2, TablesAreFree
  <2>4. Same(typed, M, described)
    BY <2>2, <2>3, DescribedIsSame
  <2> HIDE DEF described
  <2> QED
    BY <2>1, <2>4, SameFurther
<1> HIDE DEF described
<1>3. ASSUME NEW P, M \subseteq P, Known(xs, i, placed, P)
      PROVE  Configured(xs, i, placed) /\ DOMAIN placed = DOMAIN xs /\ Grown(placed, P, zs)
  <2>1. Sound(placed, P) /\ Configured(xs, i, placed) /\ DOMAIN placed = DOMAIN xs
    BY <1>2, <1>3, ThenPlaced
  <2> HIDE DEF placed
  <2>2. i \in DOMAIN placed /\ placed[i].kind = "table"
    BY <2>1 DEF Configured, Extends
  <2>3. Grown(placed, P, Assertions(placed, i, c.assertions))
    BY <2>1, <2>2, AssertionsAreSound
  <2> QED
    BY <1>1, <2>1, <2>3
<1>4. zs[i].target = placed[i].target
  <2> DEFINE P == M \cup {i}
  <2>1. M \subseteq P /\ Known(xs, i, placed, P)
    BY DEF Known
  <2> HIDE DEF P, placed
  <2> QED
    BY <1>3, <2>1 DEF Grown
<1>5. Known(xs, i, placed, N)
  BY <1>4 DEF Known
<1>6. Configured(xs, i, placed) /\ DOMAIN placed = DOMAIN xs /\ Grown(placed, N, zs)
  BY <1>3, <1>5
<1> HIDE DEF placed
<1>7. Sound(zs, N) /\ Configured(xs, i, zs)
  BY <1>6, ExtendsFurther DEF Grown, Configured
<1> QED
  BY <1>7

LEMMA OperationConfigIsSound ==
  ASSUME NEW xs, NEW M, NEW N, M \subseteq N, Sound(xs, M), NEW i \in DOMAIN xs, Free(xs, i),
         config \in ProjectConfigs, NEW c, Place(c), Known(xs, i, OperationConfig(xs, i, c), N)
  PROVE  Sound(OperationConfig(xs, i, c), N) /\ Configured(xs, i, OperationConfig(xs, i, c))
<1> DEFINE d == [c EXCEPT !.props = @ \cap {"description", "columns"}]
           described == Described(xs, i, d)
           output == IF c.hasOutput THEN HasOutput(described, i, TRUE) ELSE described
<1>1. OperationConfig(xs, i, c) = Located(output, i, c)
  BY DEF OperationConfig
<1>2. Same(xs, M, described)
  <2> HIDE DEF d
  <2> QED
    BY DescribedIsSame
<1> HIDE DEF described
<1>3. Same(described, M, HasOutput(described, i, TRUE))
  <2>1. Sound(described, M) /\ i \in DOMAIN described
    BY <1>2 DEF Same, Grown
  <2> QED
    BY <2>1, FieldsAreSame
<1>4. Same(xs, M, output)
  <2>1. Same(xs, M, HasOutput(described, i, TRUE))
    BY <1>2, <1>3, SameFurther
  <2> QED
    BY <1>2, <2>1
<1> HIDE DEF output
<1> QED
  BY <1>1, <1>4, ThenPlaced

LEMMA AssertionConfigIsSound ==
  ASSUME NEW xs, NEW M, NEW N, M \subseteq N, Sound(xs, M), NEW i \in DOMAIN xs, Free(xs, i),
         config \in ProjectConfigs, NEW c, Place(c), Known(xs, i, AssertionConfig(xs, i, c), N)
  PROVE  Sound(AssertionConfig(xs, i, c), N) /\ Configured(xs, i, AssertionConfig(xs, i, c))
<1> DEFINE d == [c EXCEPT !.props = @ \cap {"description"}]
           described == Described(xs, i, d)
<1>1. AssertionConfig(xs, i, c) = Located(described, i, c)
  BY DEF AssertionConfig
<1>2. Same(xs, M, described)
  <2> HIDE DEF d
  <2> QED
    BY DescribedIsSame
<1> HIDE DEF described
<1> QED
  BY <1>1, <1>2, ThenPlaced

LEMMA ConfigIsSound ==
  ASSUME NEW xs, NEW M, NEW N, M \subseteq N, Sound(xs, M), NEW i \in DOMAIN xs, Free(xs, i),
         config \in ProjectConfigs, NEW c, Place(c), Known(xs, i, Config(xs, i, c), N)
  PROVE  Sound(Config(xs, i, c), N) /\ Configured(xs, i, Config(xs, i, c))
<1>1. xs[i].kind \in Kinds
  BY SoundEntries DEF ActionOK
<1>2. CASE xs[i].kind = "table"
  <2>1. Config(xs, i, c) = TableConfig(xs, i, c)
    BY <1>2 DEF Config
  <2> QED
    BY <1>2, <2>1, TableConfigIsSound
<1>3. CASE xs[i].kind = "operation"
  <2>1. Config(xs, i, c) = OperationConfig(xs, i, c)
    BY <1>3 DEF Config
  <2> QED
    BY <2>1, OperationConfigIsSound
<1>4. CASE xs[i].kind = "assertion"
  <2>1. Config(xs, i, c) = AssertionConfig(xs, i, c)
    BY <1>4 DEF Config
  <2> QED
    BY <2>1, AssertionConfigIsSound
<1>5. CASE xs[i].kind = "declaration"
  <2>1. Config(xs, i, c) = Options(xs, i, c.props \cap {"description", "columns"})
    BY <1>5 DEF Config, DeclarationConfig
  <2> PICK v : v = c.props \cap {"description", "columns"}
    OBVIOUS
  <2>2. Same(xs, M, Options(xs, i, v))
    BY FieldsAreSame
  <2> QED
    BY <2>1, <2>2, MoreMoved DEF Same, Grown, Configured
<1> QED
  BY <1>1, <1>2, <1>3, <1>4, <1>5 DEF Kinds
-----------------------------------------------------------------------------
(* A new action is of its kind, and has made and was made by nothing.      *)
AddedTo(xs, M, kind, ys) ==
  /\ Sound(ys, M) /\ Len(ys) \in DOMAIN ys /\ ys[Len(ys)].kind = kind
  /\ Free(ys, Len(ys)) /\ Generated(ys, Len(ys)) = {}
  /\ DOMAIN ys = DOMAIN xs \cup {Len(ys)} /\ Len(ys) \notin DOMAIN xs
  /\ \A k \in DOMAIN xs : ys[k] = xs[k]
  /\ ys[Len(ys)].text = <<>> /\ ys[Len(ys)].type # "inline"
RefOK(ref) ==
  /\ DOMAIN ref = {"database", "schema", "name"} /\ ref = [f \in DOMAIN ref |-> ref[f]]
  /\ IsList(ref.database) /\ IsList(ref.schema) /\ IsList(ref.name) /\ ref.name # <<>>

LEMMA NewIsSound ==
  ASSUME NEW xs, NEW M, Sound(xs, M), config \in ProjectConfigs, NEW kind \in Kinds, NEW ref, RefOK(ref)
  PROVE  AddedTo(xs, M, kind, Append(xs, SetTarget(Blank(kind), ref)))
<1> PICK n : n = Len(xs) + 1
  OBVIOUS
<1> PICK x : x = SetTarget(Blank(kind), ref)
  OBVIOUS
<1> PICK ys : ys = Append(xs, x)
  OBVIOUS
<1>1. IsList(xs) /\ Len(xs) \in Nat /\ DOMAIN xs = 1..Len(xs) /\ \A k \in DOMAIN xs : ActionOK(xs[k])
  BY ListFacts DEF Sound, Typed
<1>2. IsList(config.defaultSchema)
  BY SessionAssumption, PartsAreLists
<1>3. NameOK(Target(config.defaultSchema, ref))
  BY <1>2 DEF RefOK, NameOK, Target, Given
<1>4. QueryOK(<<>>)
  BY DEF QueryOK
<1>5. /\ DOMAIN x = ActionFields /\ x.kind = kind /\ x.query = <<>>
      /\ x.target = Target(config.defaultSchema, ref)
      /\ x.uniqueKeyAssertions = {} /\ x.rowConditionsAssertion = 0
      /\ x.text = <<>> /\ x.type # "inline"
  BY DEF SetTarget, Blank, ActionFields, Kinds
<1>6. ActionOK(x)
  BY <1>3, <1>4, <1>5 DEF ActionOK
<1>7. IsList(ys) /\ Len(ys) = n /\ ys[n] = x /\ \A k \in DOMAIN xs : ys[k] = xs[k]
  BY <1>1, ListAppend
<1>8. DOMAIN ys = DOMAIN xs \cup {n} /\ n \notin DOMAIN xs /\ n \in DOMAIN ys
  <2>1. DOMAIN ys = 1..n
    BY <1>7, ListFacts
  <2> QED
    BY <1>1, <2>1
<1>9. Generated(ys, n) = {}
  BY <1>5, <1>7 DEF Generated
<1>10. \A k \in DOMAIN xs : Generated(ys, k) = Generated(xs, k)
  BY <1>7 DEF Generated
<1>11. ASSUME NEW k \in DOMAIN xs, NEW j \in Generated(xs, k) PROVE MadeBy(ys, k, j, M) /\ j # n
  <2>1. MadeBy(xs, k, j, M)
    BY DEF Sound
  <2> QED
    BY <1>7, <1>8, <2>1 DEF MadeBy
<1>12. Sound(ys, M)
  <2>1. Typed(ys)
    BY <1>1, <1>6, <1>7, <1>8 DEF Typed
  <2>2. \A k \in DOMAIN xs : xs[k].kind # "table" => Generated(xs, k) = {}
    BY DEF Sound
  <2> QED
    BY <1>7, <1>8, <1>9, <1>10, <1>11, <2>1, <2>2 DEF Sound
<1>13. Free(ys, n)
  BY <1>8, <1>9, <1>10, <1>11 DEF Free
<1> QED
  BY <1>5, <1>7, <1>8, <1>9, <1>12, <1>13 DEF AddedTo

(* The query of what no table has made may be set.                         *)
LEMMA QueryIsSound ==
  ASSUME NEW xs, NEW M, Sound(xs, M), NEW i \in DOMAIN xs, Free(xs, i), NEW q, QueryOK(q)
  PROVE  Sound([xs EXCEPT ![i].query = q], M)
<1> PICK x : x = [xs[i] EXCEPT !.query = q]
  OBVIOUS
<1> PICK ys : ys = Put(xs, i, x)
  OBVIOUS
<1>1. WithEntry(xs, i, x, ys)
  BY SoundEntries, ListExcept
<1>2. ActionOK(xs[i])
  BY SoundEntries
<1>3. /\ ActionOK(x) /\ x.kind = xs[i].kind /\ x.target = xs[i].target /\ x.disabled = xs[i].disabled
      /\ x.uniqueKeyAssertions = xs[i].uniqueKeyAssertions
      /\ x.rowConditionsAssertion = xs[i].rowConditionsAssertion
  BY <1>2 DEF ActionOK, ActionFields
<1>4. /\ IsList(ys) /\ DOMAIN ys = DOMAIN xs /\ \A k \in DOMAIN xs : k # i => ys[k] = xs[k]
      /\ ys[i] = x
  BY <1>1 DEF WithEntry
<1>5. Typed(ys)
  BY <1>3, <1>4 DEF Sound, Typed
<1>6. \A k \in DOMAIN xs : /\ Generated(ys, k) = Generated(xs, k) /\ ys[k].kind = xs[k].kind
                           /\ ys[k].target = xs[k].target /\ ys[k].disabled = xs[k].disabled
  BY <1>3, <1>4 DEF Generated
<1>7. ASSUME NEW k \in DOMAIN xs, NEW j \in Generated(xs, k) PROVE MadeBy(ys, k, j, M)
  <2>1. MadeBy(xs, k, j, M) /\ j # i
    BY DEF Sound, Free
  <2> QED
    BY <1>4, <1>6, <2>1 DEF MadeBy
<1>8. Sound(ys, M)
  BY <1>4, <1>5, <1>6, <1>7 DEF Sound
<1>9. ys = [xs EXCEPT ![i].query = q]
  BY DEF Put
<1> QED
  BY <1>8, <1>9

(* The action of a file, as it is first.                                   *)
FirstOf(src) ==
  CASE DefinesDataset(src.type) -> Publish(actions, src.name)
    [] src.type = "operation" -> Operate(actions, src.name)
    [] src.type = "assertion" -> DefineAssertion(actions, src.name)
    [] src.type = "declaration" ->
         Declare(actions, [database |-> src.config.database,
                           schema |-> src.config.schema, name |-> src.name])

LEMMA FirstIsAdded ==
  ASSUME NEW M, Sound(actions, M), config \in ProjectConfigs, NEW src \in Sources, src.type # "test"
  PROVE  AddedTo(actions, M, KindOf(src.type), FirstOf(src))
<1>1. /\ src.type \in SourceTypes /\ IsList(src.name) /\ src.name # <<>> /\ ConfigOK(src.config)
      /\ QueryOK(src.query) /\ Place(src.config) /\ IsList(src.config.schema)
      /\ IsList(src.config.database)
  <2>1. /\ src.type \in SourceTypes /\ src.name \in Part \ {<<>>} /\ ConfigOK(src.config)
        /\ QueryOK(src.query)
    BY SessionAssumption DEF QueryOK
  <2> QED
    BY <2>1, PartsAreLists DEF ConfigOK, Place
<1>2. IsList(config.assertionSchema)
  BY SessionAssumption, PartsAreLists
<1>3. IsList(<<>>)
  BY NothingIsList
<1> USE DEF KindOf, DefinesDataset, Kinds, FirstOf
<1>4. CASE DefinesDataset(src.type)
  <2>1. RefOK([NoTarget EXCEPT !.name = src.name])
    BY <1>1, <1>3 DEF RefOK, NoTarget
  <2>2. AddedTo(actions, M, "table", Publish(actions, src.name))
    BY <2>1, NewIsSound DEF Publish
  <2> QED
    BY <1>4, <2>2
<1>5. CASE src.type = "operation"
  <2>1. RefOK([NoTarget EXCEPT !.name = src.name])
    BY <1>1, <1>3 DEF RefOK, NoTarget
  <2>2. AddedTo(actions, M, "operation", Operate(actions, src.name))
    BY <2>1, NewIsSound DEF Operate
  <2> QED
    BY <1>5, <2>2
<1>6. CASE src.type = "assertion"
  <2>1. RefOK([NoTarget EXCEPT !.name = src.name, !.schema = config.assertionSchema])
    BY <1>1, <1>2, <1>3 DEF RefOK, NoTarget
  <2>2. AddedTo(actions, M, "assertion", DefineAssertion(actions, src.name))
    BY <2>1, NewIsSound DEF DefineAssertion
  <2> QED
    BY <1>6, <2>2
<1>7. CASE src.type = "declaration"
  <2> DEFINE ref == [database |-> src.config.database, schema |-> src.config.schema, name |-> src.name]
  <2>1. RefOK(ref)
    BY <1>1 DEF RefOK
  <2> HIDE DEF ref
  <2>2. AddedTo(actions, M, "declaration", Declare(actions, ref))
    BY <2>1, NewIsSound DEF Declare
  <2> QED
    BY <1>7, <2>2 DEF ref
<1> QED
  BY <1>1, <1>4, <1>5, <1>6, <1>7 DEF SourceTypes

(* And with its config and its query.                                      *)
LEMMA DefinedIsSound ==
  ASSUME NEW M, Sound(actions, M), config \in ProjectConfigs, NEW src \in Sources, src.type # "test"
  PROVE  Sound(Defined(src), M)
<1>1. /\ src.type \in SourceTypes /\ IsList(src.name) /\ src.name # <<>> /\ ConfigOK(src.config)
      /\ QueryOK(src.query) /\ Place(src.config) /\ IsList(src.config.schema)
      /\ IsList(src.config.database)
  <2>1. /\ src.type \in SourceTypes /\ src.name \in Part \ {<<>>} /\ ConfigOK(src.config)
        /\ QueryOK(src.query)
    BY SessionAssumption DEF QueryOK
  <2> QED
    BY <2>1, PartsAreLists DEF ConfigOK, Place
<1> DEFINE made == FirstOf(src)
           i == Len(made)
           kind == KindOf(src.type)
<1>3. AddedTo(actions, M, kind, made)
  BY FirstIsAdded
<1>4. Defined(src) = [Config(made, i, src.config) EXCEPT ![i].query = src.query]
  BY DEF Defined, FirstOf
<1> HIDE DEF made, kind
<1>5. /\ Sound(made, M) /\ i \in DOMAIN made /\ made[i].kind = kind
      /\ Free(made, i) /\ Generated(made, i) = {}
  BY <1>3 DEF AddedTo
<1> HIDE DEF i
<1> PICK ys : ys = Config(made, i, src.config)
  OBVIOUS
<1>6. Sound(ys, M) /\ Configured(made, i, ys)
  <2>1. Known(made, i, Config(made, i, src.config), M)
    BY <1>5 DEF Known
  <2> QED
    BY <1>1, <1>5, <2>1, ConfigIsSound
<1>7. i \in DOMAIN ys /\ Free(ys, i)
  BY <1>5, <1>6, StaysFree DEF Configured, Extends
<1> QED
  BY <1>1, <1>4, <1>6, <1>7, QueryIsSound
-----------------------------------------------------------------------------
(* A call on a builder.                                                    *)
LEMMA OwnAreFree ==
  ASSUME NEW M, Sound(actions, M), NEW i \in Own
  PROVE  Free(actions, i)
BY DEF Sound, MadeBy, Free, Own

(* What schema() and the other calls on a builder make of the actions.     *)
LEMMA SchemaFacts ==
  ASSUME NEW xs, IsList(xs), NEW i \in DOMAIN xs, ActionOK(xs[i]), config \in ProjectConfigs,
         NEW schema \in Part
  PROVE  \E x : ActionOK(x) /\ SameRole(xs[i], x) /\ Schema(xs, i, schema) = [xs EXCEPT ![i] = x]
BY LocatedFacts

LEMMA CalledIsSound ==
  ASSUME NEW M, NEW N, Sound(actions, M), M \subseteq N, config \in ProjectConfigs, NEW i \in Own,
         NEW c \in LateCalls, c[1] \in CallsOf(actions[i].kind),
         \A j \in Moves(actions, Called(i, c)) : Generated(actions, j) # {} => j \in N
  PROVE  Sound(Called(i, c), N)
<1>1. i \in DOMAIN actions /\ Free(actions, i) /\ ActionOK(actions[i]) /\ IsList(actions)
  BY OwnAreFree, SoundEntries DEF Own
<1>2. Known(actions, i, Called(i, c), N)
  BY <1>1 DEF Moves, Known
<1>3. ASSUME Same(actions, M, Called(i, c)) PROVE Sound(Called(i, c), N)
  BY <1>3, MoreMoved DEF Same, Grown
<1>4. ASSUME \E x : ActionOK(x) /\ SameRole(actions[i], x) /\ Called(i, c) = [actions EXCEPT ![i] = x]
      PROVE  Sound(Called(i, c), N)
  BY <1>1, <1>2, <1>4, PlacedIsSound
<1>5. CASE c[1] = "schema"
  <2>1. Called(i, c) = Schema(actions, i, c[2])
    BY <1>5 DEF Called
  <2>2. c[2] \in Part
    BY <1>5, SessionAssumption
  <2>3. \E x : ActionOK(x) /\ SameRole(actions[i], x) /\ Schema(actions, i, c[2]) = [actions EXCEPT ![i] = x]
    <3> PICK schema : schema = c[2]
      OBVIOUS
    <3>1. schema \in Part
      BY <2>2
    <3>2. \E x : ActionOK(x) /\ SameRole(actions[i], x) /\ Schema(actions, i, schema) = [actions EXCEPT ![i] = x]
      BY <1>1, <3>1, SchemaFacts
    <3> QED
      BY <3>2
  <2> QED
    BY <1>4, <2>1, <2>3
<1>6. CASE c[1] = "database"
  <2>1. Called(i, c) = Database(actions, i, c[2])
    BY <1>6 DEF Called
  <2>3. \E x : ActionOK(x) /\ SameRole(actions[i], x) /\ Database(actions, i, c[2]) = [actions EXCEPT ![i] = x]
    <3> PICK db : db = c[2]
      OBVIOUS
    <3>1. db \in Part
      BY <1>6, SessionAssumption
    <3>2. \E x : ActionOK(x) /\ SameRole(actions[i], x) /\ Database(actions, i, db) = [actions EXCEPT ![i] = x]
      BY <1>1, <3>1, LocatedFacts
    <3> QED
      BY <3>2
  <2> QED
    BY <1>4, <2>1, <2>3
<1>7. CASE c[1] = "disabled"
  <2>1. Called(i, c) = Disable(actions, i)
    BY <1>7 DEF Called
  <2>2. Same(actions, M, Disable(actions, i))
    BY <1>1, DisableIsSame
  <2> QED
    BY <1>3, <2>1, <2>2
<1>8. CASE c[1] = "assertions"
  <2>1. Called(i, c) = Assertions(actions, i, c[2])
    BY <1>8 DEF Called
  <2>2. actions[i].kind = "table"
    BY <1>1, <1>8 DEF CallsOf, ActionCalls, ActionOK, Kinds
  <2>3. Grown(actions, M, Assertions(actions, i, c[2]))
    BY <1>1, <2>2, AssertionsAreSound
  <2> QED
    BY <2>1, <2>3, MoreMoved DEF Grown
<1>9. CASE c[1] \in {"dependencies", "tags", "type", "hasOutput"}
  <2> PICK v : v = c[2]
    OBVIOUS
  <2>1. Called(i, c) \in {Dependencies(actions, i, v), Tags(actions, i, v), Type(actions, i, v), HasOutput(actions, i, v)}
    BY <1>9 DEF Called
  <2>2. /\ Same(actions, M, Dependencies(actions, i, v)) /\ Same(actions, M, Tags(actions, i, v))
        /\ Same(actions, M, Type(actions, i, v)) /\ Same(actions, M, HasOutput(actions, i, v))
    BY <1>1, FieldsAreSame
  <2> QED
    BY <1>3, <2>1, <2>2
<1>10. c[1] \in {"schema", "database", "disabled", "assertions", "dependencies", "tags", "type", "hasOutput"}
  BY <1>1 DEF CallsOf, ActionCalls, ActionOK, Kinds
<1> QED
  BY <1>5, <1>6, <1>7, <1>8, <1>9, <1>10
-----------------------------------------------------------------------------
(* What the calls of a query have made of the actions.                     *)
RunFields == {"as", "errors", "threw", "moved"}
Went(r, s) ==
  /\ DOMAIN s = RunFields
  /\ Sound(s.as, s.moved) /\ Extends(r.as, s.as) /\ r.moved \subseteq s.moved
  /\ \A k \in DOMAIN r.as : k \notin s.moved => s.as[k].target = r.as[k].target

(* Calls follow each other, and a call that leaves the targets and the     *)
(* assertions' tables alone is one of them.                                *)
LEMMA WentFurther ==
  ASSUME NEW r, NEW s, NEW t, Went(r, s), Went(s, t) PROVE Went(r, t)
BY ExtendsFurther DEF Went, Extends

LEMMA SameWent ==
  ASSUME NEW r, NEW s, Same(r.as, r.moved, s.as), s.moved = r.moved, DOMAIN s = RunFields
  PROVE  Went(r, s)
BY DEF Same, Grown, Went

LEMMA StayedWent ==
  ASSUME NEW r, NEW s, Sound(r.as, r.moved), s.as = r.as, s.moved = r.moved, DOMAIN s = RunFields
  PROVE  Went(r, s)
BY ExtendsItself DEF Went

(* ref() adds a dependency and goes on.                                    *)
LEMMA RefFacts ==
  ASSUME NEW r, DOMAIN r = RunFields, Sound(r.as, r.moved), NEW i \in DOMAIN r.as, NEW ref
  PROVE  /\ Went(r, Ref(r, i, ref)) /\ Ref(r, i, ref).threw = r.threw
         /\ ref \in Ref(r, i, ref).as[i].dependencyTargets
<1> PICK s : s = Ref(r, i, ref)
  OBVIOUS
<1> PICK v : v = <<"ref", Resolve(r.as, ref)>>
  OBVIOUS
<1> PICK ys : ys = Dependencies(r.as, i, {ref})
  OBVIOUS
<1>1. /\ DOMAIN s = RunFields /\ s.moved = r.moved /\ s.threw = r.threw
      /\ s.as = [ys EXCEPT ![i].text = Append(@, v)]
  <2> PICK zs : zs = [ys EXCEPT ![i].text = Append(@, v)]
    OBVIOUS
  <2> PICK errors : errors = ResolveErrors(r.as, ref)
    OBVIOUS
  <2>1. s = [r EXCEPT !.as = zs, !.errors = @ \cup errors]
    BY DEF Ref
  <2> QED
    BY <2>1 DEF RunFields
<1>2. Same(r.as, r.moved, ys)
  BY FieldsAreSame
<1>3. Same(ys, r.moved, s.as)
  <2>1. Sound(ys, r.moved) /\ i \in DOMAIN ys
    BY <1>2 DEF Same, Grown
  <2>2. Same(ys, r.moved, [ys EXCEPT ![i].text = Append(@, v)])
    BY <2>1, FieldsAreSame
  <2> QED
    BY <1>1, <2>2
<1>4. Same(r.as, r.moved, s.as)
  BY <1>2, <1>3, SameFurther
<1>5. ref \in s.as[i].dependencyTargets
  <2>1. ref \in ys[i].dependencyTargets
    <3>1. ActionOK(r.as[i])
      BY SoundEntries
    <3> QED
      BY <3>1 DEF Dependencies, ActionOK, ActionFields
  <2>2. ys[i].dependencyTargets \subseteq s.as[i].dependencyTargets
    BY <1>2, <1>3 DEF Same, Grown, Extends
  <2> QED
    BY <2>1, <2>2
<1> QED
  BY <1>1, <1>4, <1>5, SameWent

(* The calls of every context, of a table's, and any call.                 *)
LEMMA CommonCallWent ==
  ASSUME NEW r, DOMAIN r = RunFields, Sound(r.as, r.moved), NEW i \in DOMAIN r.as, NEW c,
         c[1] \in CommonCalls
  PROVE  Went(r, CommonCall(r, i, c))
<1> PICK s : s = CommonCall(r, i, c)
  OBVIOUS
<1> PICK v : v = c[2]
  OBVIOUS
<1>1. CASE c[1] = "ref"
  BY <1>1, RefFacts DEF CommonCall
<1>2. CASE c[1] = "refParent"
  BY <1>2, RefFacts DEF CommonCall
<1>3. CASE c[1] = "resolve"
  <2> PICK x : x = <<"resolve", Resolve(r.as, c[2])>>
    OBVIOUS
  <2>1. DOMAIN s = RunFields /\ s.moved = r.moved /\ s.as = [r.as EXCEPT ![i].text = Append(@, x)]
    BY <1>3 DEF CommonCall, RunFields
  <2>2. Same(r.as, r.moved, [r.as EXCEPT ![i].text = Append(@, x)])
    BY FieldsAreSame
  <2> QED
    BY <2>1, <2>2, SameWent
<1>4. CASE c[1] = "dependencies"
  <2>1. DOMAIN s = RunFields /\ s.moved = r.moved /\ s.as = Dependencies(r.as, i, v)
    BY <1>4 DEF CommonCall, RunFields
  <2>2. Same(r.as, r.moved, Dependencies(r.as, i, v))
    BY FieldsAreSame
  <2> QED
    BY <2>1, <2>2, SameWent
<1>5. CASE c[1] = "tags"
  <2>1. DOMAIN s = RunFields /\ s.moved = r.moved /\ s.as = Tags(r.as, i, v)
    BY <1>5 DEF CommonCall, RunFields
  <2>2. Same(r.as, r.moved, Tags(r.as, i, v))
    BY FieldsAreSame
  <2> QED
    BY <2>1, <2>2, SameWent
<1>6. CASE c[1] = "text"
  <2>1. DOMAIN s = RunFields /\ s.moved = r.moved /\ s.as = [r.as EXCEPT ![i].text = Append(@, c)]
    BY <1>6 DEF CommonCall, RunFields
  <2>2. Same(r.as, r.moved, [r.as EXCEPT ![i].text = Append(@, c)])
    BY FieldsAreSame
  <2> QED
    BY <2>1, <2>2, SameWent
<1>7. CASE c[1] = "throw"
  <2>1. DOMAIN s = RunFields /\ s.moved = r.moved /\ s.as = r.as
    BY <1>7 DEF CommonCall, RunFields
  <2> QED
    BY <2>1, StayedWent
<1> QED
  BY <1>1, <1>2, <1>3, <1>4, <1>5, <1>6, <1>7 DEF CommonCalls

LEMMA TableCallWent ==
  ASSUME NEW r, DOMAIN r = RunFields, Sound(r.as, r.moved), NEW i \in DOMAIN r.as, NEW c, CallOK(c),
         r.as[i].kind = "table", c[1] \in TableCalls, config \in ProjectConfigs
  PROVE  Went(r, TableCall(r, i, c))
<1> PICK s : s = TableCall(r, i, c)
  OBVIOUS
<1> PICK v : v = c[2]
  OBVIOUS
<1> PICK xs : xs = r.as
  OBVIOUS
<1>1. CASE c[1] = "config"
  <2> PICK ys : ys = TableConfig(xs, i, v)
    OBVIOUS
  <2> PICK N : N = r.moved \cup Moves(xs, ys)
    OBVIOUS
  <2>1. DOMAIN s = RunFields /\ s.moved = N /\ s.as = ys
    BY <1>1 DEF TableCall, RunFields
  <2>2. Place(v)
    BY <1>1 DEF CallOK, ConfigOK, Place
  <2>3. Known(xs, i, ys, N)
    BY DEF Known, Moves
  <2>4. Sound(ys, N) /\ Configured(xs, i, ys)
    BY <2>2, <2>3, TableConfigIsSound
  <2> QED
    BY <2>1, <2>3, <2>4 DEF Went, Configured, Moves
<1>2. CASE c[1] = "type"
  <2>1. DOMAIN s = RunFields /\ s.moved = r.moved /\ s.as = Type(xs, i, v)
    BY <1>2 DEF TableCall, RunFields
  <2>2. Same(xs, r.moved, Type(xs, i, v))
    BY FieldsAreSame
  <2> QED
    BY <2>1, <2>2, SameWent
<1>3. CASE c[1] = "disabled"
  <2>1. DOMAIN s = RunFields /\ s.moved = r.moved /\ s.as = Disable(xs, i)
    BY <1>3 DEF TableCall, RunFields
  <2>2. Same(xs, r.moved, Disable(xs, i))
    BY TablesAreFree, DisableIsSame
  <2> QED
    BY <2>1, <2>2, SameWent
<1>4. CASE c[1] = "preOps"
  <2>1. DOMAIN s = RunFields /\ s.moved = r.moved /\ s.as = [xs EXCEPT ![i].preOps = @ + 1]
    BY <1>4 DEF TableCall, RunFields
  <2>2. Same(xs, r.moved, [xs EXCEPT ![i].preOps = @ + 1])
    BY FieldsAreSame
  <2> QED
    BY <2>1, <2>2, SameWent
<1>5. CASE c[1] = "options"
  <2>1. DOMAIN s = RunFields /\ s.moved = r.moved /\ s.as = Options(xs, i, v)
    BY <1>5 DEF TableCall, RunFields
  <2>2. Same(xs, r.moved, Options(xs, i, v))
    BY FieldsAreSame
  <2> QED
    BY <2>1, <2>2, SameWent
<1> QED
  BY <1>1, <1>2, <1>3, <1>4, <1>5 DEF TableCalls

LEMMA ContextCallWent ==
  ASSUME NEW r, DOMAIN r = RunFields, Sound(r.as, r.moved), NEW i \in DOMAIN r.as, NEW c, CallOK(c),
         config \in ProjectConfigs
  PROVE  Went(r, ContextCall(r, i, c))
<1> PICK s : s = ContextCall(r, i, c)
  OBVIOUS
<1> PICK v : v = c[2]
  OBVIOUS
<1>1. Went(r, r)
  BY StayedWent
<1>2. Went(r, [r EXCEPT !.threw = TRUE])
  BY StayedWent DEF RunFields
<1>3. c[1] \in CommonCalls => Went(r, CommonCall(r, i, c))
  BY CommonCallWent
<1>4. r.as[i].kind = "table" /\ c[1] \in TableCalls => Went(r, TableCall(r, i, c))
  BY TableCallWent
<1>5. Went(r, OperationCall(r, i, c))
  <2> PICK t : t = OperationCall(r, i, c)
    OBVIOUS
  <2>1. DOMAIN t = RunFields /\ t.moved = r.moved /\ t.as = HasOutput(r.as, i, v)
    BY DEF OperationCall, RunFields
  <2>2. Same(r.as, r.moved, HasOutput(r.as, i, v))
    BY FieldsAreSame
  <2> QED
    BY <2>1, <2>2, SameWent
<1> QED
  BY <1>1, <1>2, <1>3, <1>4, <1>5 DEF ContextCall

(* All the calls of a query.                                               *)
LEMMA ApplyWent ==
  ASSUME NEW r, DOMAIN r = RunFields, Sound(r.as, r.moved), NEW i \in DOMAIN r.as,
         config \in ProjectConfigs
  PROVE  Went(r, Apply(r, i))
<1> PICK q : q = r.as[i].query
  OBVIOUS
<1>1. Len(q) \in Nat /\ \A k \in 1..Len(q) : CallOK(q[k])
  BY SoundEntries DEF ActionOK, QueryOK
<1>2. PICK f : /\ DOMAIN f = 0..Len(q)
               /\ f[0] = r /\ \A n \in 1..Len(q) : f[n] = ContextCall(f[n-1], i, q[n])
               /\ Apply(r, i) = f[Len(q)]
  BY <1>1, QueryRounds
<1> DEFINE T == {n \in 0..Len(q) : Went(r, f[n])}
<1>3. 0 \in T
  BY <1>1, <1>2, StayedWent
<1>4. ASSUME NEW n \in 1..Len(q), n - 1 \in T PROVE n \in T
  <2> PICK s : s = f[n - 1]
    OBVIOUS
  <2>1. Went(r, s) /\ CallOK(q[n]) /\ f[n] = ContextCall(s, i, q[n])
    BY <1>1, <1>2, <1>4
  <2>2. DOMAIN s = RunFields /\ Sound(s.as, s.moved) /\ i \in DOMAIN s.as
    BY <2>1 DEF Went, Extends
  <2>3. Went(s, f[n])
    BY <2>1, <2>2, ContextCallWent
  <2>4. Went(r, f[n])
    BY <2>1, <2>3, WentFurther
  <2> QED
    BY <1>1, <2>4
<1> HIDE DEF T
<1>5. Len(q) \in T
  <2> PICK n \in Nat : n = Len(q)
    BY <1>1
  <2>1. \A k \in 1..n : k - 1 \in T => k \in T
    BY <1>4
  <2>2. \A k \in 0..n : k \in T
    BY <1>3, <2>1, UpTo
  <2> QED
    BY <2>2
<1> QED
  BY <1>2, <1>5 DEF T

(* The query of an assertion that a table has made.                        *)
(* What every context has comes first.                                     *)
LEMMA CommonFirst ==
  ASSUME NEW r, NEW i, NEW c, ~r.threw, c[1] \in CommonCalls
  PROVE  ContextCall(r, i, c) = CommonCall(r, i, c)
BY DEF ContextCall

Running(r) == ~r.threw
Refers(q, p) == Len(q) = 1 /\ q[1][1] = "refParent" /\ q[1][2] = p
LEMMA ReferringApplied ==
  ASSUME NEW r, DOMAIN r = RunFields, Sound(r.as, r.moved), NEW i \in DOMAIN r.as, NEW p,
         NEW q, q = r.as[i].query, Refers(q, p), Running(r)
  PROVE  /\ Apply(r, i).threw = r.threw
         /\ r.as[p].target \in Apply(r, i).as[i].dependencyTargets
<1>1. Len(q) = 1 /\ Len(q) \in Nat /\ q[1][1] = "refParent" /\ q[1][2] = p
  BY DEF Refers
<1>2. PICK f : /\ DOMAIN f = 0..Len(q)
               /\ f[0] = r /\ \A n \in 1..Len(q) : f[n] = ContextCall(f[n-1], i, q[n])
               /\ Apply(r, i) = f[Len(q)]
  <2>1. Len(q) \in Nat
    BY <1>1
  <2> QED
    BY <2>1, QueryRounds
<1> PICK c : c = q[1]
  OBVIOUS
<1>3. Apply(r, i) = ContextCall(r, i, c)
  BY <1>1, <1>2
<1>4. ContextCall(r, i, c) = CommonCall(r, i, c)
  <2>1. c[1] \in CommonCalls
    BY <1>1 DEF CommonCalls
  <2> QED
    BY <2>1, CommonFirst DEF Running
<1>5. CommonCall(r, i, c) = Ref(r, i, r.as[p].target)
  BY <1>1 DEF CommonCall
<1> QED
  BY <1>3, <1>4, <1>5, RefFacts
-----------------------------------------------------------------------------
(* compile() of a builder.                                                 *)
Start == [as |-> actions, errors |-> {}, threw |-> FALSE, moved |-> moved]

LEMMA ValidateFacts ==
  ASSUME NEW r, DOMAIN r = RunFields, NEW i
  PROVE  LET s == ValidateQueryString(r, i)
         IN DOMAIN s = RunFields /\ s.as = r.as /\ s.threw = r.threw /\ s.moved = r.moved
BY DEF ValidateQueryString, RunFields

(* A compiled action has gone through its query, a table perhaps twice.    *)
LEMMA CompiledWent ==
  ASSUME config \in ProjectConfigs, Sound(actions, moved), NEW i \in DOMAIN actions
  PROVE  Went(Start, Compiled(i))
<1> PICK r : r = Start
  OBVIOUS
<1>0. DOMAIN r = RunFields /\ r.as = actions /\ r.moved = moved
  BY DEF Start, RunFields
<1>1. Went(r, r)
  BY <1>0, StayedWent
<1>2. ASSUME NEW s, Went(r, s) PROVE Went(r, Apply(s, i))
  <2>1. DOMAIN s = RunFields /\ Sound(s.as, s.moved) /\ i \in DOMAIN s.as
    BY <1>0, <1>2 DEF Went, Extends
  <2>2. Went(s, Apply(s, i))
    BY <2>1, ApplyWent
  <2> QED
    BY <1>2, <2>2, WentFurther
<1>3. ASSUME NEW s, Went(r, s) PROVE Went(r, ValidateQueryString(s, i))
  <2> PICK t : t = ValidateQueryString(s, i)
    OBVIOUS
  <2>1. DOMAIN t = RunFields /\ t.as = s.as /\ t.moved = s.moved
    BY <1>3, ValidateFacts DEF Went
  <2> QED
    BY <1>3, <2>1 DEF Went
<1>4. actions[i].kind \in Kinds
  BY SoundEntries DEF ActionOK
<1>5. CASE actions[i].kind = "table"
  <2>1. Compiled(i) = ValidateQueryString(CompiledTable(r, i), i)
    BY <1>5 DEF Compiled, Start
  <2>2. Went(r, CompiledTable(r, i))
    BY <1>1, <1>2 DEF CompiledTable
  <2> QED
    BY <1>3, <2>1, <2>2
<1>6. CASE actions[i].kind = "operation"
  <2> DEFINE e == IF "columns" \in r.as[i].props /\ ~r.as[i].hasOutput THEN r.errors \cup {"columns"} ELSE r.errors
             s == [r EXCEPT !.errors = e]
  <2>1. Compiled(i) = Apply(s, i)
    BY <1>6 DEF Compiled, CompiledOperation, Start
  <2> HIDE DEF e
  <2>2. DOMAIN s = RunFields /\ s.as = r.as /\ s.moved = r.moved
    BY <1>0 DEF RunFields
  <2> HIDE DEF s
  <2>3. Went(r, s)
    BY <1>0, <2>2, StayedWent
  <2> QED
    BY <1>2, <2>1, <2>3
<1>7. CASE actions[i].kind = "assertion"
  <2>1. Compiled(i) = ValidateQueryString(Apply(r, i), i)
    BY <1>7 DEF Compiled, Start
  <2> QED
    BY <1>1, <1>2, <1>3, <2>1
<1>8. CASE actions[i].kind = "declaration"
  <2>1. Compiled(i) = r
    BY <1>8 DEF Compiled, Start
  <2> QED
    BY <1>1, <2>1
<1> QED
  BY <1>4, <1>5, <1>6, <1>7, <1>8 DEF Kinds

(* A compiled assertion of a table depends on the table.                   *)
LEMMA ReferringCompiled ==
  ASSUME Sound(actions, moved), NEW i \in DOMAIN actions, NEW p, MadeBy(actions, p, i, moved)
  PROVE  actions[p].target \in Compiled(i).as[i].dependencyTargets
<1> PICK r : r = Start
  OBVIOUS
<1> PICK s : s = Apply(r, i)
  OBVIOUS
<1>0. DOMAIN r = RunFields /\ r.as = actions /\ r.moved = moved /\ Running(r)
  BY DEF Start, RunFields, Running
<1>1. actions[i].kind = "assertion" /\ Refers(actions[i].query, p)
  BY DEF MadeBy, Refers
<1>2. actions[p].target \in s.as[i].dependencyTargets
  <2> PICK q : q = actions[i].query
    OBVIOUS
  <2>1. Refers(q, p) /\ q = r.as[i].query
    BY <1>0, <1>1
  <2> QED
    BY <1>0, <2>1, ReferringApplied
<1>3. Compiled(i) = ValidateQueryString(s, i)
  BY <1>1 DEF Compiled, Start
<1>4. ValidateQueryString(s, i).as = s.as
  BY DEF ValidateQueryString
<1> QED
  BY <1>2, <1>3, <1>4

(* The next action to compile is one that has not been.                    *)
LEMMA NextIsWaiting ==
  ASSUME Sound(actions, moved),
         \E k \in {"table", "operation", "assertion", "declaration"} : Waiting(k) # {}
  PROVE  NextToCompile \in DOMAIN actions \ (compiled \cup thrown)
<1>1. ASSUME NEW k, Waiting(k) # {}
      PROVE  First(Waiting(k)) \in DOMAIN actions \ (compiled \cup thrown)
  <2>1. DOMAIN actions = 1..Len(actions) /\ Len(actions) \in Nat
    BY ListFacts DEF Sound, Typed
  <2>2. Waiting(k) \in SUBSET Nat /\ Waiting(k) \subseteq DOMAIN actions \ (compiled \cup thrown)
    BY <2>1 DEF Waiting, Of
  <2>3. \E n \in Waiting(k) : \A m \in Waiting(k) : n <= m
    BY <1>1, <2>2, LeastNumber
  <2> QED
    BY <2>2, <2>3 DEF First
<1> QED
  BY <1>1 DEF NextToCompile
-----------------------------------------------------------------------------
(* Assertions that have been compiled refer to their table.                *)
Referred ==
  \A i \in DOMAIN actions : \A j \in Generated(actions, i) \cap compiled :
    i \notin moved => actions[i].target \in actions[j].dependencyTargets

(* Dependencies are the names of one action each, and those of assertions  *)
(* are kept.                                                               *)
Aimed == \A i \in Graph : \A t \in actions[i].dependencyTargets : TargetOfOne(actions, t)
Waited ==
  \A i \in DOMAIN actions : \A j \in Generated(actions, i) :
    i \notin moved /\ ~Inline(actions, i) => actions[i].target \in actions[j].dependencyTargets

(* What is promised in the end: dependencies are in the graph, assertions  *)
(* follow their table, names are unique.                                   *)
Resolved ==
  \A i \in Graph : \A t \in actions[i].dependencyTargets :
    \E j \in compiled : actions[j].target = t /\ ~Inline(actions, j)
Followed ==
  \A i \in Of(Graph, "table") : \A j \in Generated(actions, i) :
    /\ actions[j].disabled = actions[i].disabled
    /\ i \notin moved => actions[j].parentAction = actions[i].target
    /\ i \notin moved /\ ~Inline(actions, i) => actions[i].target \in actions[j].dependencyTargets
Unique == \A i, j \in compiled : i # j => actions[i].target # actions[j].target

(* From phase to phase. What is promised in the end is promised of graphs  *)
(* without errors; errors are never forgotten, so those before the last    *)
(* phase had none either.                                                  *)
SessionInv ==
  /\ config \in ProjectConfigs
  /\ compiled \cup thrown \subseteq DOMAIN actions
  /\ phase = "define" => compiled = {} /\ thrown = {}
  /\ phase \in {"define", "compile", "qualify", "alter"} => Sound(actions, moved)
  /\ phase \notin {"define", "compile"} => compiled \cup thrown = DOMAIN actions
  /\ thrown # {} => "thrown" \in graphErrors
  /\ phase \in {"compile", "qualify"} => Referred
  /\ phase = "alter" => Aimed
  /\ phase = "alter" /\ graphErrors = {} => Waited
  /\ phase = "crashed" => thrown # {}
  /\ phase \in {"check", "compiled"} => IsList(actions)
  /\ phase \in {"check", "compiled"} /\ graphErrors = {} => Resolved /\ Followed
  /\ phase = "compiled" /\ graphErrors = {} => Unique /\ Cyclic = {}

(* It holds at first, and every step of the session keeps it.              *)
LEMMA InitSession == SessionInit => SessionInv
<1> SUFFICES ASSUME SessionInit PROVE SessionInv
  OBVIOUS
<1>1. actions = <<>> /\ DOMAIN actions = {}
  BY DEF SessionInit
<1>2. IsList(actions)
  <2>1. <<>> \in Seq({})
    OBVIOUS
  <2> QED
    BY <1>1, <2>1 DEF IsList
<1>3. Sound(actions, moved)
  BY <1>1, <1>2 DEF Sound, Typed
<1> QED
  BY <1>1, <1>3 DEF SessionInit, SessionInv

(* A definition, a test and a call, when nothing is compiled yet.          *)
LEMMA SqlxActionKeeps == ASSUME NEW src \in Sources, SessionInv, SqlxAction(src) PROVE SessionInv'
<1>1. /\ phase = "define" /\ phase' = phase /\ src.type # "test" /\ actions' = Defined(src)
      /\ config' = config /\ compiled' = compiled /\ thrown' = thrown /\ moved' = moved
      /\ graphErrors \subseteq graphErrors'
  BY DEF SqlxAction, CanStep
<1>2. Sound(Defined(src), moved)
  BY <1>1, DefinedIsSound DEF SessionInv
<1>3. Sound(actions, moved)'
  BY <1>1, <1>2
<1>4. thrown = {} /\ compiled = {}
  BY <1>1 DEF SessionInv
<1> QED
  BY <1>1, <1>3, <1>4 DEF SessionInv

LEMMA CallKeeps ==
  ASSUME NEW i \in DOMAIN actions, NEW c \in LateCalls, SessionInv, Call(i, c) PROVE SessionInv'
<1>1. /\ phase = "define" /\ phase' = phase /\ i \in Own /\ c[1] \in CallsOf(actions[i].kind)
      /\ actions' = Called(i, c)
      /\ moved' = moved \cup {j \in Moves(actions, actions') : Generated(actions, j) # {}}
      /\ config' = config /\ compiled' = compiled /\ thrown' = thrown /\ graphErrors' = graphErrors
  BY DEF Call, CanStep
<1>2. Sound(actions, moved) /\ config \in ProjectConfigs
  BY <1>1 DEF SessionInv
<1>3. moved \subseteq moved' /\ \A j \in Moves(actions, Called(i, c)) : Generated(actions, j) # {} => j \in moved'
  BY <1>1
<1>4. Sound(Called(i, c), moved')
  <2> PICK N : N = moved'
    OBVIOUS
  <2>1. Sound(Called(i, c), N)
    BY <1>1, <1>2, <1>3, CalledIsSound
  <2> QED
    BY <2>1
<1>5. Sound(actions, moved)'
  BY <1>1, <1>4
<1>6. thrown = {} /\ compiled = {}
  BY <1>1 DEF SessionInv
<1> QED
  BY <1>1, <1>5, <1>6 DEF SessionInv

(* A query: those assertions that were compiled keep their dependencies,   *)
(* and the one that is compiled now gets the one on its table.             *)
LEMMA CompileActionKeeps == SessionInv /\ CompileAction => SessionInv'
<1> SUFFICES ASSUME SessionInv, CompileAction PROVE SessionInv'
  OBVIOUS
<1> PICK i : i = NextToCompile
  OBVIOUS
<1> PICK r : r = Compiled(i)
  OBVIOUS
<1>1. /\ phase = "compile" /\ phase' = phase /\ config' = config /\ actions' = r.as /\ moved' = r.moved
      /\ graphErrors' = graphErrors \cup r.errors \cup (IF r.threw THEN {"thrown"} ELSE {})
      /\ IF r.threw THEN thrown' = thrown \cup {i} /\ compiled' = compiled
         ELSE compiled' = compiled \cup {i} /\ thrown' = thrown
      /\ \E k \in {"table", "operation", "assertion", "declaration"} : Waiting(k) # {}
  BY DEF CompileAction
<1>2. config \in ProjectConfigs /\ Sound(actions, moved) /\ Referred
      /\ compiled \cup thrown \subseteq DOMAIN actions /\ (thrown # {} => "thrown" \in graphErrors)
  BY <1>1 DEF SessionInv
<1>3. i \in DOMAIN actions
  BY <1>1, <1>2, NextIsWaiting
<1>4. Went(Start, r)
  BY <1>2, <1>3, CompiledWent
<1>5. /\ Sound(r.as, r.moved) /\ Extends(actions, r.as) /\ moved \subseteq r.moved
      /\ \A k \in DOMAIN actions : k \notin r.moved => r.as[k].target = actions[k].target
  BY <1>4 DEF Went, Start
<1>6. Sound(actions, moved)'
  BY <1>1, <1>5
<1>7. compiled' \subseteq compiled \cup {i} /\ thrown' \subseteq thrown \cup {i}
      /\ (thrown' # {} => "thrown" \in graphErrors')
  BY <1>1, <1>2
<1>8. (compiled \cup thrown)' \subseteq (DOMAIN actions)'
  BY <1>1, <1>2, <1>3, <1>5, <1>7 DEF Extends
<1>9. ASSUME NEW k \in DOMAIN r.as, NEW j \in Generated(r.as, k) \cap compiled', k \notin r.moved
      PROVE  r.as[k].target \in r.as[j].dependencyTargets
  <2>1. j \in DOMAIN actions
    BY <1>2, <1>3, <1>7
  <2>2. k \in DOMAIN actions /\ j \in Generated(actions, k)
    BY <1>5, <2>1 DEF Extends
  <2>3. r.as[k].target = actions[k].target /\ k \notin moved
    BY <1>5, <1>9, <2>2
  <2>4. CASE j \in compiled
    <3>1. actions[k].target \in actions[j].dependencyTargets
      BY <1>2, <2>2, <2>3, <2>4 DEF Referred
    <3> QED
      BY <1>5, <2>1, <2>3, <3>1 DEF Extends
  <2>5. CASE j = i
    <3>1. MadeBy(actions, k, i, moved)
      BY <1>2, <2>2, <2>5 DEF Sound
    <3> QED
      BY <1>2, <1>3, <2>3, <2>5, <3>1, ReferringCompiled
  <2> QED
    BY <1>7, <2>4, <2>5
<1>10. Referred'
  <2>1. Referred' <=> \A k \in DOMAIN r.as : \A j \in Generated(r.as, k) \cap compiled' :
          k \notin r.moved => r.as[k].target \in r.as[j].dependencyTargets
    BY <1>1 DEF Referred
  <2> QED
    BY <1>9, <2>1
<1> QED
  BY <1>1, <1>2, <1>6, <1>7, <1>8, <1>10 DEF SessionInv

(* Nothing waits any more: everything has been compiled or has thrown.     *)
LEMMA ChunksDoneKeeps == SessionInv /\ ChunksDone => SessionInv'
<1> SUFFICES ASSUME SessionInv, ChunksDone PROVE SessionInv'
  OBVIOUS
<1>1. /\ phase = "compile" /\ phase' = "qualify" /\ config' = config /\ actions' = actions
      /\ compiled' = compiled /\ thrown' = thrown /\ moved' = moved /\ graphErrors \subseteq graphErrors'
      /\ \A k \in Kinds : Waiting(k) = {}
  BY DEF ChunksDone, Kinds
<1>2. Sound(actions, moved) /\ compiled \cup thrown \subseteq DOMAIN actions
  BY <1>1 DEF SessionInv
<1>3. compiled \cup thrown = DOMAIN actions
  <2>1. \A i \in DOMAIN actions : actions[i].kind \in Kinds
    BY <1>2, SoundEntries DEF ActionOK
  <2> QED
    BY <1>1, <1>2, <2>1 DEF Waiting, Of
<1>4. Sound(actions, moved)' /\ (Referred <=> Referred')
  BY <1>1, <1>2 DEF Referred
<1> QED
  BY <1>1, <1>2, <1>3, <1>4 DEF SessionInv

(* Without an error each dependency names one action, whose target it      *)
(* becomes.                                                                *)
LEMMA QualifyKeeps == SessionInv /\ FullyQualifyDependencies => SessionInv'
<1> SUFFICES ASSUME SessionInv, FullyQualifyDependencies PROVE SessionInv'
  OBVIOUS
<1>1. /\ phase = "qualify" /\ config' = config /\ compiled' = compiled /\ thrown' = thrown /\ moved' = moved
  BY DEF FullyQualifyDependencies
<1>2. /\ Sound(actions, moved) /\ Referred /\ compiled \cup thrown = DOMAIN actions
      /\ config \in ProjectConfigs /\ (thrown # {} => "thrown" \in graphErrors)
  BY <1>1 DEF SessionInv
<1>3. CASE phase' = "endless"
  <2>1. actions' = actions /\ graphErrors' = graphErrors
    BY <1>3 DEF FullyQualifyDependencies
  <2> QED
    BY <1>1, <1>2, <1>3, <2>1 DEF SessionInv
<1>4. CASE phase' # "endless"
  <2> DEFINE ys == [i \in DOMAIN actions |->
                      IF i \in Graph THEN [actions[i] EXCEPT !.dependencyTargets = Qualified(actions, i)]
                      ELSE actions[i]]
  <2>1. /\ phase' = "alter" /\ actions' = ys
        /\ graphErrors' = graphErrors \cup UNION {QualifyErrors(actions, i) : i \in Graph}
    BY <1>4 DEF FullyQualifyDependencies
  <2>2. /\ IsList(actions) /\ DOMAIN actions = 1..Len(actions) /\ Len(actions) \in Nat
        /\ \A i \in DOMAIN actions : ActionOK(actions[i])
    BY <1>2, ListFacts DEF Sound, Typed
  <2>3. /\ DOMAIN ys = DOMAIN actions /\ ys = [k \in 1..Len(actions) |-> ys[k]]
        /\ \A i \in DOMAIN actions :
             ys[i] = IF i \in Graph THEN [actions[i] EXCEPT !.dependencyTargets = Qualified(actions, i)]
                     ELSE actions[i]
    BY <2>2
  <2> HIDE DEF ys
  <2>4. IsList(ys)
    BY <2>2, <2>3, MakeList
  <2>5. ASSUME NEW i \in DOMAIN actions
        PROVE  /\ ActionOK(ys[i]) /\ ys[i].kind = actions[i].kind /\ ys[i].type = actions[i].type
               /\ ys[i].target = actions[i].target /\ ys[i].disabled = actions[i].disabled
               /\ ys[i].parentAction = actions[i].parentAction /\ ys[i].query = actions[i].query
               /\ Generated(ys, i) = Generated(actions, i)
               /\ i \in Graph => ys[i].dependencyTargets = Qualified(actions, i)
    <3> PICK new : new = Qualified(actions, i)
      OBVIOUS
    <3>1. CASE i \in Graph
      <4>1. ys[i] = [actions[i] EXCEPT !.dependencyTargets = new] /\ ActionOK(actions[i])
        BY <2>2, <2>3, <3>1
      <4> QED
        BY <4>1 DEF ActionOK, ActionFields, Generated
    <3>2. CASE i \notin Graph
      <4>1. ys[i] = actions[i] /\ ActionOK(actions[i])
        BY <2>2, <2>3, <3>2
      <4> QED
        BY <3>2, <4>1 DEF Generated
    <3> QED
      BY <3>1, <3>2
  <2>6. Sound(ys, moved)
    <3>1. ASSUME NEW i \in DOMAIN actions, NEW j \in Generated(actions, i) PROVE MadeBy(ys, i, j, moved)
      <4>1. MadeBy(actions, i, j, moved) /\ j \in DOMAIN actions
        BY <1>2 DEF Sound, MadeBy
      <4> QED
        BY <2>3, <2>5, <4>1 DEF MadeBy
    <3>2. \A i \in DOMAIN actions : actions[i].kind # "table" => Generated(actions, i) = {}
      BY <1>2 DEF Sound
    <3>3. Typed(ys)
      BY <2>3, <2>4, <2>5 DEF Typed
    <3> QED
      BY <2>3, <2>5, <3>1, <3>2, <3>3 DEF Sound
  <2>7. Graph \subseteq DOMAIN actions /\ Graph' = Graph
    <3>1. Graph \subseteq compiled /\ compiled \subseteq DOMAIN actions
      BY <1>2 DEF Graph, Of
    <3>2. \A i \in compiled : actions'[i].kind = actions[i].kind
      BY <2>1, <2>5, <3>1
    <3> QED
      BY <1>1, <3>1, <3>2 DEF Graph, Of
  <2>8. \A i \in DOMAIN actions : Inline(ys, i) <=> Inline(actions, i)
    BY <2>5 DEF Inline
  <2>9. ASSUME NEW i \in Graph, NEW t \in ys[i].dependencyTargets PROVE TargetOfOne(ys, t)
    <3>1. t \in Qualified(actions, i) /\ i \in DOMAIN actions
      BY <2>5, <2>7, <2>9
    <3>2. TargetOfOne(actions, t)
      BY <2>2, <3>1, QualifiedAreTargets
    <3> QED
      BY <2>3, <2>5, <2>8, <3>2 DEF TargetOfOne
  <2>10. Aimed'
    BY <2>1, <2>7, <2>9 DEF Aimed
  <2>11. ASSUME graphErrors' = {}, NEW i \in DOMAIN actions, NEW j \in Generated(actions, i),
                i \notin moved, ~Inline(actions, i)
         PROVE  ys[i].target \in ys[j].dependencyTargets
    <3>1. thrown = {} /\ compiled = DOMAIN actions
      BY <1>2, <2>1, <2>11
    <3>2. j \in DOMAIN actions /\ actions[j].kind = "assertion"
      BY <1>2 DEF Sound, MadeBy
    <3>3. j \in Graph
      BY <3>1, <3>2 DEF Graph, Of
    <3>4. QualifyErrors(actions, j) = {}
      BY <2>1, <2>11, <3>3
    <3>5. actions[i].target \in actions[j].dependencyTargets
      BY <1>2, <2>11, <3>1, <3>2 DEF Referred
    <3>6. actions[i].target \in Qualified(actions, j)
      BY <2>2, <2>11, <3>2, <3>4, <3>5, QualifiedKeeps
    <3> QED
      BY <2>5, <3>2, <3>3, <3>6
  <2>12. graphErrors' = {} => Waited'
    <3>1. Waited' <=> \A i \in DOMAIN ys : \A j \in Generated(ys, i) :
                        i \notin moved /\ ~Inline(ys, i) => ys[i].target \in ys[j].dependencyTargets
      BY <1>1, <2>1 DEF Waited
    <3> QED
      BY <2>3, <2>5, <2>8, <2>11, <3>1
  <2>13. Sound(actions, moved)'
    BY <1>1, <2>1, <2>6
  <2>14. (DOMAIN actions)' = DOMAIN actions /\ (thrown' # {} => "thrown" \in graphErrors')
    BY <1>1, <1>2, <2>1, <2>3
  <2> QED
    BY <1>1, <1>2, <2>1, <2>10, <2>12, <2>13, <2>14 DEF SessionInv
<1> QED
  BY <1>3, <1>4
-----------------------------------------------------------------------------
LEMMA SqlxTestKeeps == ASSUME NEW src \in Sources, SessionInv, SqlxTest(src) PROVE SessionInv'
<1>1. /\ phase = "define" /\ phase' = phase /\ actions' = actions
      /\ config' = config /\ compiled' = compiled /\ thrown' = thrown /\ moved' = moved
  BY DEF SqlxTest, CanStep
<1>2. Sound(actions, moved)'
  BY <1>1 DEF SessionInv
<1> QED
  BY <1>1, <1>2 DEF SessionInv

LEMMA StartCompileKeeps == SessionInv /\ StartCompile => SessionInv'
<1> SUFFICES ASSUME SessionInv, StartCompile PROVE SessionInv'
  OBVIOUS
<1>1. /\ phase = "define" /\ phase' = "compile" /\ actions' = actions /\ graphErrors' = graphErrors
      /\ config' = config /\ compiled' = compiled /\ thrown' = thrown /\ moved' = moved
  BY DEF StartCompile
<1>2. Sound(actions, moved)'
  BY <1>1 DEF SessionInv
<1>3. compiled' = {} /\ thrown' = {}
  BY <1>1 DEF SessionInv
<1>4. Referred'
  BY <1>3 DEF Referred
<1> QED
  BY <1>1, <1>2, <1>3, <1>4 DEF SessionInv
-----------------------------------------------------------------------------
(* A name is never lost by the prefix and the suffix.                      *)
LEMMA RenamedIsTarget ==
  ASSUME NEW t, NameOK(t), config \in ProjectConfigs PROVE Renamed(t) # NoTarget
<1>1. IsList(config.prefix) /\ IsList(t.name) /\ t.name # <<>>
  BY SessionAssumption, PartsAreLists DEF NameOK
<1>2. config.prefix \o t.name # <<>>
  <2> PICK p : p = config.prefix
    OBVIOUS
  <2> PICK n : n = t.name
    OBVIOUS
  <2>1. Len(p) \in Nat /\ Len(n) \in Nat /\ DOMAIN n = 1..Len(n) /\ n = [k \in 1..Len(n) |-> n[k]]
    BY <1>1, ListFacts
  <2>2. Len(n) # 0
    <3>1. PICK S : n \in Seq(S)
      BY <1>1 DEF IsList
    <3> QED
      BY <1>1, <3>1, EmptySeq
  <2>3. PICK S, T : p \in Seq(S) /\ n \in Seq(T)
    BY <1>1 DEF IsList
  <2>4. Len(p \o n) = Len(p) + Len(n)
    BY <2>3
  <2> QED
    BY <2>1, <2>2, <2>4
<1> QED
  BY <1>2 DEF Renamed, NoTarget

(* Renaming: what depends on an action is renamed as the action is, and    *)
(* what depends on a declaration is left as it is.                         *)
LEMMA AlterKeeps == SessionInv /\ AlterActionName => SessionInv'
<1> SUFFICES ASSUME SessionInv, AlterActionName PROVE SessionInv'
  OBVIOUS
<1>1. /\ phase = "alter" /\ config' = config /\ compiled' = compiled /\ thrown' = thrown /\ moved' = moved
      /\ graphErrors' = graphErrors
  BY DEF AlterActionName
<1>2. /\ Sound(actions, moved) /\ Aimed /\ compiled \cup thrown = DOMAIN actions
      /\ config \in ProjectConfigs /\ (thrown # {} => "thrown" \in graphErrors)
      /\ (graphErrors = {} => Waited)
  BY <1>1 DEF SessionInv
<1>3. /\ IsList(actions) /\ DOMAIN actions = 1..Len(actions) /\ Len(actions) \in Nat
      /\ \A i \in DOMAIN actions : ActionOK(actions[i])
  BY <1>2, ListFacts DEF Sound, Typed
<1>4. Graph \subseteq DOMAIN actions
  BY <1>2 DEF Graph, Of
<1>5. CASE config.prefix = <<>> /\ config.suffix = <<>>
  <2>1. phase' = "check" /\ actions' = actions
    BY <1>5 DEF AlterActionName
  <2>2. graphErrors = {} => Resolved
    <3>1. graphErrors = {} => compiled = DOMAIN actions
      BY <1>2
    <3> QED
      BY <1>2, <3>1 DEF Resolved, Aimed, TargetOfOne
  <2>3. graphErrors = {} => Followed
    <3> SUFFICES ASSUME graphErrors = {}, NEW i \in Of(Graph, "table"), NEW j \in Generated(actions, i)
                 PROVE  /\ actions[j].disabled = actions[i].disabled
                        /\ i \notin moved => actions[j].parentAction = actions[i].target
                        /\ i \notin moved /\ ~Inline(actions, i) => actions[i].target \in actions[j].dependencyTargets
      BY DEF Followed
    <3>1. i \in DOMAIN actions
      BY <1>4 DEF Of
    <3>2. MadeBy(actions, i, j, moved)
      BY <1>2, <3>1 DEF Sound
    <3> QED
      BY <1>2, <3>1, <3>2 DEF MadeBy, Waited
  <2>4. (Resolved <=> Resolved') /\ (Followed <=> Followed')
    BY <1>1, <2>1 DEF Resolved, Followed, Graph, Of
  <2> QED
    BY <1>1, <1>2, <1>3, <2>1, <2>2, <2>3, <2>4 DEF SessionInv
<1>6. CASE ~(config.prefix = <<>> /\ config.suffix = <<>>)
  <2> DEFINE ys == [i \in DOMAIN actions |-> IF i \in Graph THEN Altered(i) ELSE actions[i]]
  <2>1. /\ actions' = ys
        /\ phase' = IF \E i \in Graph : NoTarget \in actions'[i].dependencyTargets THEN "crashed" ELSE "check"
    BY <1>6 DEF AlterActionName
  <2>2. /\ DOMAIN ys = DOMAIN actions /\ ys = [k \in 1..Len(actions) |-> ys[k]]
        /\ \A i \in DOMAIN actions : ys[i] = IF i \in Graph THEN Altered(i) ELSE actions[i]
    BY <1>3
  <2> HIDE DEF ys
  <2>3. IsList(ys)
    BY <1>3, <2>2, MakeList
  <2>4. ASSUME NEW i \in Graph
        PROVE  /\ ys[i].kind = actions[i].kind /\ ys[i].type = actions[i].type
               /\ ys[i].target = Renamed(actions[i].target) /\ ys[i].disabled = actions[i].disabled
               /\ ys[i].dependencyTargets = {NewTarget(t) : t \in actions[i].dependencyTargets}
               /\ actions[i].parentAction # NoTarget => ys[i].parentAction = NewTarget(actions[i].parentAction)
               /\ Generated(ys, i) = Generated(actions, i)
    <3>1. ys[i] = Altered(i) /\ ActionOK(actions[i])
      BY <1>3, <1>4, <2>2
    <3> DEFINE new == {NewTarget(t) : t \in actions[i].dependencyTargets}
               parent == IF actions[i].parentAction = NoTarget THEN actions[i].parentAction
                         ELSE NewTarget(actions[i].parentAction)
    <3>2. ys[i] = [actions[i] EXCEPT !.target = Renamed(@), !.dependencyTargets = new, !.parentAction = parent]
      BY <3>1 DEF Altered
    <3> HIDE DEF new, parent
    <3>3. /\ ys[i].kind = actions[i].kind /\ ys[i].type = actions[i].type
          /\ ys[i].target = Renamed(actions[i].target) /\ ys[i].disabled = actions[i].disabled
          /\ ys[i].dependencyTargets = new /\ ys[i].parentAction = parent
          /\ ys[i].uniqueKeyAssertions = actions[i].uniqueKeyAssertions
          /\ ys[i].rowConditionsAssertion = actions[i].rowConditionsAssertion
      BY <3>1, <3>2 DEF ActionOK, ActionFields
    <3> QED
      BY <3>3 DEF new, parent, Generated
  <2>5. \A i \in DOMAIN actions : i \notin Graph => ys[i] = actions[i]
    BY <2>2
  <2>6. Graph' = Graph
    <3>1. Graph \subseteq compiled /\ compiled \subseteq DOMAIN actions
      BY <1>2 DEF Graph, Of
    <3>2. \A i \in compiled : actions'[i].kind = actions[i].kind
      BY <2>1, <2>4, <2>5, <3>1
    <3> QED
      BY <1>1, <3>1, <3>2 DEF Graph, Of
  <2>7. ASSUME thrown = {}, NEW t, TargetOfOne(actions, t)
        PROVE  /\ NewTarget(t) # NoTarget
               /\ \E j \in compiled : ys[j].target = NewTarget(t) /\ ~Inline(ys, j)
    <3>1. compiled = DOMAIN actions
      BY <1>2, <2>7
    <3>2. PICK j \in DOMAIN actions : /\ actions[j].target = t /\ ~Inline(actions, j)
                                      /\ \A k \in DOMAIN actions : actions[k].target = t => k = j
      BY <2>7 DEF TargetOfOne
    <3>3. NameOK(t)
      BY <1>3, <3>2 DEF ActionOK
    <3>4. CASE j \in Graph
      <4>1. NewTarget(t) = Renamed(t)
        BY <3>2, <3>4 DEF NewTarget
      <4>2. Renamed(t) # NoTarget
        BY <1>2, <3>3, RenamedIsTarget
      <4>3. ys[j].target = Renamed(t) /\ ~Inline(ys, j)
        BY <2>4, <3>2, <3>4 DEF Inline
      <4> QED
        BY <3>1, <4>1, <4>2, <4>3
    <3>5. CASE j \notin Graph
      <4>1. NewTarget(t) = t
        BY <1>4, <3>1, <3>2, <3>5 DEF NewTarget, KnownTargets
      <4>2. t # NoTarget
        BY <3>3 DEF NameOK, NoTarget
      <4>3. ys[j].target = t /\ ~Inline(ys, j)
        BY <2>5, <3>2, <3>5 DEF Inline
      <4> QED
        BY <3>1, <4>1, <4>2, <4>3
    <3> QED
      BY <3>4, <3>5
  <2>8. phase' = "crashed" => thrown' # {}
    <3> SUFFICES ASSUME phase' = "crashed", thrown = {} PROVE FALSE
      BY <1>1
    <3>1. PICK i \in Graph : NoTarget \in ys[i].dependencyTargets
      BY <2>1
    <3>2. PICK t \in actions[i].dependencyTargets : NewTarget(t) = NoTarget
      BY <2>4, <3>1
    <3>3. TargetOfOne(actions, t)
      BY <1>2 DEF Aimed
    <3> QED
      BY <2>7, <3>2, <3>3
  <2>9. ASSUME graphErrors = {}, NEW i \in Graph, NEW u \in ys[i].dependencyTargets
        PROVE  \E j \in compiled : ys[j].target = u /\ ~Inline(ys, j)
    <3>1. PICK t \in actions[i].dependencyTargets : NewTarget(t) = u
      BY <2>4, <2>9
    <3>2. TargetOfOne(actions, t) /\ thrown = {}
      BY <1>2, <2>9 DEF Aimed
    <3> QED
      BY <2>7, <3>1, <3>2
  <2>10. ASSUME graphErrors = {}, NEW i \in Of(Graph, "table"), NEW j \in Generated(ys, i)
         PROVE  /\ ys[j].disabled = ys[i].disabled
                /\ i \notin moved => ys[j].parentAction = ys[i].target
                /\ i \notin moved /\ ~Inline(ys, i) => ys[i].target \in ys[j].dependencyTargets
    <3>1. compiled = DOMAIN actions /\ Waited
      BY <1>2, <2>10
    <3>2. i \in Graph /\ i \in DOMAIN actions /\ j \in Generated(actions, i)
      BY <1>4, <2>4 DEF Of
    <3>3. MadeBy(actions, i, j, moved)
      BY <1>2, <3>2 DEF Sound
    <3>4. j \in Graph
      BY <3>1, <3>3 DEF Graph, Of, MadeBy
    <3>5. NewTarget(actions[i].target) = Renamed(actions[i].target)
      BY <3>2 DEF NewTarget
    <3>6. i \notin moved => ys[j].parentAction = ys[i].target
      BY <2>4, <3>2, <3>3, <3>4, <3>5 DEF MadeBy
    <3>7. i \notin moved /\ ~Inline(ys, i) => ys[i].target \in ys[j].dependencyTargets
      <4>1. Inline(ys, i) <=> Inline(actions, i)
        BY <2>4, <3>2 DEF Inline
      <4>2. i \notin moved /\ ~Inline(actions, i) => actions[i].target \in actions[j].dependencyTargets
        BY <3>1, <3>2 DEF Waited
      <4> QED
        BY <2>4, <3>2, <3>4, <3>5, <4>1, <4>2
    <3> QED
      BY <2>4, <3>2, <3>3, <3>4, <3>6, <3>7 DEF MadeBy
  <2>11. graphErrors = {} => Resolved'
    <3>1. Resolved' <=> \A i \in Graph : \A t \in ys[i].dependencyTargets :
                          \E j \in compiled : ys[j].target = t /\ ~Inline(ys, j)
      BY <1>1, <2>1, <2>6 DEF Resolved
    <3> QED
      BY <2>9, <3>1
  <2>12. graphErrors = {} => Followed'
    <3>1. Of(Graph, "table")' = Of(Graph, "table")
      BY <1>4, <2>1, <2>4, <2>6 DEF Of
    <3>2. Followed' <=> \A i \in Of(Graph, "table") : \A j \in Generated(ys, i) :
            /\ ys[j].disabled = ys[i].disabled
            /\ i \notin moved => ys[j].parentAction = ys[i].target
            /\ i \notin moved /\ ~Inline(ys, i) => ys[i].target \in ys[j].dependencyTargets
      BY <1>1, <2>1, <3>1 DEF Followed
    <3> QED
      BY <2>10, <3>2
  <2>13. IsList(actions)' /\ (DOMAIN actions)' = DOMAIN actions
    BY <2>1, <2>2, <2>3
  <2> QED
    BY <1>1, <1>2, <2>1, <2>8, <2>11, <2>12, <2>13 DEF SessionInv
<1> QED
  BY <1>5, <1>6

(* The checks of names and of circles find nothing.                        *)
LEMMA CheckKeeps == SessionInv /\ Check => SessionInv'
<1> SUFFICES ASSUME SessionInv, Check PROVE SessionInv'
  OBVIOUS
<1>1. /\ phase = "check" /\ phase' = "compiled" /\ actions' = actions
      /\ config' = config /\ compiled' = compiled /\ thrown' = thrown /\ moved' = moved
      /\ graphErrors' =
           graphErrors \cup CheckActionNameUniqueness \cup CheckCanonicalTargetUniqueness
             \cup CheckTableConfigValidity \cup CheckCircularity \cup CheckRunCachingCorrectness
  BY DEF Check
<1>2. graphErrors' = {} => graphErrors = {} /\ Unique /\ Cyclic = {}
  <2> SUFFICES ASSUME graphErrors' = {} PROVE graphErrors = {} /\ Unique /\ Cyclic = {}
    OBVIOUS
  <2>1. graphErrors = {} /\ CheckActionNameUniqueness = {} /\ CheckCircularity = {}
    BY <1>1
  <2>2. Unique
    BY <2>1 DEF CheckActionNameUniqueness, NamesTwice, Unique
  <2>3. Cyclic = {}
    BY <2>1 DEF CheckCircularity
  <2> QED
    BY <2>1, <2>2, <2>3
<1>3. /\ (Unique <=> Unique') /\ (Resolved <=> Resolved') /\ (Followed <=> Followed')
      /\ IsList(actions)' /\ Cyclic' = Cyclic
  <2>1. IsList(actions)
    BY <1>1 DEF SessionInv
  <2>2. Cyclic' = Cyclic
    BY <1>1 DEF Cyclic, Reach, DependsOn, Graph, Of
  <2> QED
    BY <1>1, <2>1, <2>2 DEF Unique, Resolved, Followed, Graph, Of
<1> QED
  BY <1>1, <1>2, <1>3 DEF SessionInv

(* SessionInv holds in every state, those of the walks included.           *)
LEMMA SessionStays == SessionInv /\ UNCHANGED GraphVars => SessionInv'
<1> SUFFICES ASSUME SessionInv, UNCHANGED GraphVars PROVE SessionInv'
  OBVIOUS
<1>1. /\ config' = config /\ actions' = actions /\ graphErrors' = graphErrors /\ compiled' = compiled
      /\ thrown' = thrown /\ phase' = phase /\ moved' = moved
  BY DEF GraphVars
<1>2. /\ (Sound(actions, moved) <=> Sound(actions, moved)') /\ (Referred <=> Referred')
      /\ (Aimed <=> Aimed') /\ (Waited <=> Waited') /\ (Resolved <=> Resolved')
      /\ (Followed <=> Followed') /\ (Unique <=> Unique') /\ (IsList(actions) <=> IsList(actions)')
      /\ Cyclic' = Cyclic
  <2>1. (Sound(actions, moved) <=> Sound(actions, moved)') /\ (IsList(actions) <=> IsList(actions)')
    BY <1>1
  <2>2. Graph' = Graph
    BY <1>1 DEF Graph, Of
  <2>3. Cyclic' = Cyclic
    BY <1>1, <2>2 DEF Cyclic, Reach, DependsOn
  <2>4. (Referred <=> Referred') /\ (Waited <=> Waited') /\ (Unique <=> Unique')
    BY <1>1 DEF Referred, Waited, Unique
  <2>5. (Aimed <=> Aimed') /\ (Resolved <=> Resolved') /\ (Followed <=> Followed')
    BY <1>1, <2>2 DEF Aimed, Resolved, Followed, Of
  <2> QED
    BY <2>1, <2>3, <2>4, <2>5
<1> QED
  BY <1>1, <1>2 DEF SessionInv

LEMMA SessionProgresses == SessionInv /\ [PruneNext]_projectVars => SessionInv'
<1>1. SessionInv /\ SessionNext => SessionInv'
  BY SqlxActionKeeps, SqlxTestKeeps, CallKeeps, StartCompileKeeps, CompileActionKeeps,
     ChunksDoneKeeps, QualifyKeeps, AlterKeeps, CheckKeeps DEF SessionNext
<1>2. [PruneNext]_projectVars => SessionNext \/ UNCHANGED GraphVars
  BY DEF PruneNext, projectVars, Select, WalkDependencies, StartDependents, WalkDependents,
         AddAutoAssertions, Build
<1> QED
  BY <1>1, <1>2, SessionStays

LEMMA SoundGraphs == SessionInv => CleanGraphsAreSound
<1> SUFFICES ASSUME SessionInv, Clean
             PROVE  /\ compiled = DOMAIN actions
                    /\ \A i, j \in compiled : i # j => actions[i].target # actions[j].target
                    /\ \A i \in Graph : \A t \in actions[i].dependencyTargets :
                         \E j \in compiled : actions[j].target = t /\ ~Inline(actions, j)
                    /\ ~\E is \in SUBSET Graph :
                         Cardinality(is) > 1 /\ \A i \in is : (DependsOn(i) \cap is) \ {i} # {}
  BY DEF CleanGraphsAreSound, SessionInv
<1>1. compiled = DOMAIN actions
  BY DEF SessionInv, Clean
<1>2. Unique /\ Resolved /\ Cyclic = {} /\ IsList(actions)
  BY DEF SessionInv, Clean
<1>3. Graph \subseteq DOMAIN actions
  BY <1>1 DEF Graph, Of
<1>4. ~\E is \in SUBSET Graph :
         Cardinality(is) > 1 /\ \A i \in is : (DependsOn(i) \cap is) \ {i} # {}
  BY <1>2, <1>3, NoCircle
<1> QED
  BY <1>1, <1>2, <1>4 DEF Unique, Resolved

LEMMA FollowedTables == SessionInv => AssertionsFollowTheirTable
BY DEF SessionInv, AssertionsFollowTheirTable, Clean, Followed

LEMMA SessionAlways == Selection => []SessionInv
<1>1. PruneInit => SessionInv
  BY InitSession DEF PruneInit
<1> QED
  BY <1>1, SessionProgresses, PTL DEF Selection

(* In a graph without errors no two actions have one name, dependencies    *)
(* are actions or declarations of the graph and no inline tables, and no   *)
(* several actions depend on each other in a circle; only a query that     *)
(* throws makes compile() itself fail: for every project                   *)
(* (session.ts:374-432).                                                   *)
THEOREM GraphsWithoutErrorsAreSound == Selection => []CleanGraphsAreSound
BY SessionAlways, SoundGraphs, PTL

(* The assertions that a table has made are about the table under the name *)
(* it has in the end, wait for it, and are disabled with it: for every     *)
(* project (table.ts:597).                                                 *)
THEOREM AssertionsFollowTables == Selection => []AssertionsFollowTheirTable
BY SessionAlways, FollowedTables, PTL
-----------------------------------------------------------------------------
(* The actions of projects with such queries, and the assertions that      *)
(* tables make.                                                            *)
Plain(xs) ==
  \A i \in DOMAIN xs :
    /\ IsList(xs[i].text) /\ (xs[i].type = "inline" => xs[i].kind = "table")
    /\ PlainQuery(xs[i].query, xs[i].type) \/ \E p \in DOMAIN xs : Refers(xs[i].query, p)
Silent(xs) == \A i \in DOMAIN xs : xs[i].text = <<>>

(* What a text got from ref(), and what the reference is to: the name that *)
(* an action has in the end, or what is in the text of an inline table.    *)
Refs(text) == References(ToSet(text))
FinalName(xs, k) == IF xs[k].kind = "declaration" THEN xs[k].target ELSE Renamed(xs[k].target)
ResolvedTo(xs, k, x) ==
  IF Inline(xs, k) THEN x[1] = "text" /\ Refs(x[2]) \subseteq Refs(xs[k].text)
  ELSE x = <<"name", FinalName(xs, k)>>
Explains(xs, ref, x) ==
  /\ FindActions(xs, ref) = {} => ~Labelled(ref.name)
  /\ \A k \in DOMAIN xs : FindActions(xs, ref) = {k} => ResolvedTo(xs, k, x)
Explained(xs) ==
  \A i \in DOMAIN xs : \A x \in Refs(xs[i].text) :
    \E ref \in xs[i].dependencyTargets : Explains(xs, ref, x)

(* A set of references that has those of a text, and those of the texts in *)
(* it.                                                                     *)
Closing(text, X) == Refs(text) \subseteq X /\ \A r \in X : r[1] = "text" => Refs(r[2]) \subseteq X
NamesOf(X) == {r[2] : r \in {x \in X : x[1] = "name"}}
Attributed ==
  \A i \in Graph : \E X : /\ Closing(actions[i].text, X)
                          /\ \A n \in NamesOf(X) : \E k \in DOMAIN actions :
                               /\ actions[k].target \in actions[i].dependencyTargets
                               /\ ~Inline(actions, k) /\ n = FinalName(actions, k)
Told ==
  \A i \in Graph :
    \E X : Closing(actions[i].text, X) /\ NamesOf(X) \subseteq actions[i].dependencyTargets

TextInv ==
  /\ phase = "define" => Plain(actions) /\ Silent(actions)
  /\ phase \in {"compile", "qualify"} => Plain(actions) /\ (moved = {} => Explained(actions))
  /\ phase = "alter" /\ graphErrors = {} /\ moved = {} => Attributed
  /\ phase \in {"check", "compiled"} /\ graphErrors = {} /\ moved = {} => Told

-----------------------------------------------------------------------------
(* Actions after calls that say nothing: the texts are as they were, a new *)
(* action is the assertion of one there is.  The type of i may change.     *)
Made(ys, k) ==
  /\ ys[k].text = <<>> /\ ys[k].type = "assertion" /\ Labelled(ys[k].target.name)
  /\ \E p \in DOMAIN ys : Refers(ys[k].query, p)
Calm(xs, i, type, ys) ==
  /\ Typed(ys) /\ DOMAIN xs \subseteq DOMAIN ys
  /\ \A k \in DOMAIN xs :
       /\ ys[k].text = xs[k].text /\ ys[k].query = xs[k].query /\ ys[k].kind = xs[k].kind
       /\ ys[k].target.name = xs[k].target.name
       /\ xs[k].dependencyTargets \subseteq ys[k].dependencyTargets
       /\ ys[k].type = IF k = i /\ type # "" THEN type ELSE xs[k].type
  /\ \A k \in DOMAIN ys : k \in DOMAIN xs \/ Made(ys, k)

LEMMA CalmFurther ==
  ASSUME NEW xs, NEW i \in DOMAIN xs, NEW type, NEW ys, NEW zs,
         Calm(xs, i, type, ys), Calm(ys, i, "", zs)
  PROVE  Calm(xs, i, type, zs)
<1>1. /\ Typed(zs) /\ DOMAIN xs \subseteq DOMAIN zs
  BY DEF Calm
<1>2. ASSUME NEW k \in DOMAIN xs
      PROVE  /\ zs[k].text = xs[k].text /\ zs[k].query = xs[k].query /\ zs[k].kind = xs[k].kind
             /\ zs[k].target.name = xs[k].target.name
             /\ xs[k].dependencyTargets \subseteq zs[k].dependencyTargets
             /\ zs[k].type = IF k = i /\ type # "" THEN type ELSE xs[k].type
  BY DEF Calm
<1>3. ASSUME NEW k \in DOMAIN zs, k \notin DOMAIN xs PROVE Made(zs, k)
  <2>1. CASE k \notin DOMAIN ys
    BY <2>1 DEF Calm
  <2>2. CASE k \in DOMAIN ys
    <3>1. Made(ys, k) /\ DOMAIN ys \subseteq DOMAIN zs
      BY <1>3, <2>2 DEF Calm
    <3>2. /\ zs[k].text = ys[k].text /\ zs[k].query = ys[k].query /\ zs[k].type = ys[k].type
          /\ zs[k].target.name = ys[k].target.name
      BY <2>2 DEF Calm
    <3> QED
      BY <3>1, <3>2 DEF Made
  <2> QED
    BY <2>1, <2>2
<1> QED
  BY <1>1, <1>2, <1>3 DEF Calm

LEMMA CalmItself == ASSUME NEW xs, Typed(xs), NEW i PROVE Calm(xs, i, "", xs)
BY DEF Calm

(* Another entry for i, with the same words.                               *)
LEMMA EntryIsCalm ==
  ASSUME NEW xs, Typed(xs), NEW i \in DOMAIN xs, NEW type, NEW x, ActionOK(x), NEW ys,
         ys = [xs EXCEPT ![i] = x],
         x.text = xs[i].text, x.query = xs[i].query, x.kind = xs[i].kind,
         x.target.name = xs[i].target.name, xs[i].dependencyTargets \subseteq x.dependencyTargets,
         x.type = IF type # "" THEN type ELSE xs[i].type
  PROVE  Calm(xs, i, type, ys)
<1>1. WithEntry(xs, i, x, Put(xs, i, x))
  BY ListExcept DEF Typed
<1>2. ys = Put(xs, i, x)
  BY DEF Put
<1>3. IsList(ys) /\ DOMAIN ys = DOMAIN xs /\ ys[i] = x /\ \A k \in DOMAIN xs : k # i => ys[k] = xs[k]
  BY <1>1, <1>2 DEF WithEntry
<1>4. Typed(ys)
  BY <1>3 DEF Typed
<1> QED
  BY <1>3, <1>4 DEF Calm

LEMMA FieldsAreCalm ==
  ASSUME NEW xs, Typed(xs), NEW i \in DOMAIN xs, NEW v
  PROVE  /\ Calm(xs, i, "", Dependencies(xs, i, v))
         /\ Calm(xs, i, "", Tags(xs, i, v))
         /\ Calm(xs, i, "", HasOutput(xs, i, v))
         /\ Calm(xs, i, "", Hermetic(xs, i, v))
         /\ Calm(xs, i, v, Type(xs, i, v))
         /\ Calm(xs, i, "", Options(xs, i, v))
         /\ Calm(xs, i, "", [xs EXCEPT ![i].preOps = @ + 1])
<1>1. ActionOK(xs[i])
  BY DEF Typed
<1>2. Calm(xs, i, "", Dependencies(xs, i, v))
  <2> PICK x : x = [xs[i] EXCEPT !.dependencyTargets = @ \cup v]
    OBVIOUS
  <2> PICK ys : ys = [xs EXCEPT ![i] = x]
    OBVIOUS
  <2>1. ActionOK(x) /\ SameWords(xs[i], x) /\ SameRole(xs[i], x)
    BY <1>1 DEF ActionOK, ActionFields, SameWords, SameRole
  <2>2. Dependencies(xs, i, v) = ys
    BY DEF Dependencies
  <2> QED
    BY <2>1, <2>2, EntryIsCalm DEF SameWords, SameRole
<1>3. Calm(xs, i, "", Tags(xs, i, v))
  <2> PICK x : x = [xs[i] EXCEPT !.tags = @ \cup v]
    OBVIOUS
  <2> PICK ys : ys = [xs EXCEPT ![i] = x]
    OBVIOUS
  <2>1. ActionOK(x) /\ SameWords(xs[i], x) /\ SameRole(xs[i], x)
    BY <1>1 DEF ActionOK, ActionFields, SameWords, SameRole
  <2>2. Tags(xs, i, v) = ys
    BY DEF Tags
  <2> QED
    BY <2>1, <2>2, EntryIsCalm DEF SameWords, SameRole
<1>4. Calm(xs, i, "", HasOutput(xs, i, v))
  <2> PICK x : x = [xs[i] EXCEPT !.hasOutput = v]
    OBVIOUS
  <2> PICK ys : ys = [xs EXCEPT ![i] = x]
    OBVIOUS
  <2>1. ActionOK(x) /\ SameWords(xs[i], x) /\ SameRole(xs[i], x)
    BY <1>1 DEF ActionOK, ActionFields, SameWords, SameRole
  <2>2. HasOutput(xs, i, v) = ys
    BY DEF HasOutput
  <2> QED
    BY <2>1, <2>2, EntryIsCalm DEF SameWords, SameRole
<1>5. Calm(xs, i, "", Hermetic(xs, i, v))
  <2> PICK x : x = [xs[i] EXCEPT !.hermetic = IF v # "unset" THEN v ELSE @]
    OBVIOUS
  <2> PICK ys : ys = [xs EXCEPT ![i] = x]
    OBVIOUS
  <2>1. ActionOK(x) /\ SameWords(xs[i], x) /\ SameRole(xs[i], x)
    BY <1>1 DEF ActionOK, ActionFields, SameWords, SameRole
  <2>2. Hermetic(xs, i, v) = ys
    BY DEF Hermetic
  <2> QED
    BY <2>1, <2>2, EntryIsCalm DEF SameWords, SameRole
<1>6. Calm(xs, i, v, Type(xs, i, v))
  <2> PICK x : x = [xs[i] EXCEPT !.type = IF v # "" THEN v ELSE @]
    OBVIOUS
  <2> PICK ys : ys = [xs EXCEPT ![i] = x]
    OBVIOUS
  <2>1. /\ ActionOK(x) /\ SameRole(xs[i], x) /\ x.text = xs[i].text /\ x.target = xs[i].target
        /\ x.type = IF v # "" THEN v ELSE xs[i].type
    BY <1>1 DEF ActionOK, ActionFields, SameRole
  <2>2. Type(xs, i, v) = ys
    BY DEF Type
  <2> QED
    BY <2>1, <2>2, EntryIsCalm DEF SameRole
<1>7. Calm(xs, i, "", Options(xs, i, v))
  <2> PICK x : x = [xs[i] EXCEPT !.props = @ \cup v]
    OBVIOUS
  <2> PICK ys : ys = [xs EXCEPT ![i] = x]
    OBVIOUS
  <2>1. ActionOK(x) /\ SameWords(xs[i], x) /\ SameRole(xs[i], x)
    BY <1>1 DEF ActionOK, ActionFields, SameWords, SameRole
  <2>2. Options(xs, i, v) = ys
    BY DEF Options
  <2> QED
    BY <2>1, <2>2, EntryIsCalm DEF SameWords, SameRole
<1>8. Calm(xs, i, "", [xs EXCEPT ![i].preOps = @ + 1])
  <2> PICK x : x = [xs[i] EXCEPT !.preOps = @ + 1]
    OBVIOUS
  <2> PICK ys : ys = [xs EXCEPT ![i] = x]
    OBVIOUS
  <2>1. ActionOK(x) /\ SameWords(xs[i], x) /\ SameRole(xs[i], x)
    BY <1>1 DEF ActionOK, ActionFields, SameWords, SameRole
  <2>2. [xs EXCEPT ![i].preOps = @ + 1] = ys
    OBVIOUS
  <2> QED
    BY <2>1, <2>2, EntryIsCalm DEF SameWords, SameRole
<1> QED
  BY <1>2, <1>3, <1>4, <1>5, <1>6, <1>7, <1>8

(* database() and schema().                                                *)
LEMMA PlacesAreCalm ==
  ASSUME NEW xs, Typed(xs), NEW i \in DOMAIN xs, config \in ProjectConfigs, NEW c
  PROVE  /\ Place(c) => Calm(xs, i, "", Located(xs, i, c))
         /\ c \in Part => Calm(xs, i, "", Schema(xs, i, c))
         /\ c \in Part => Calm(xs, i, "", Database(xs, i, c))
<1>1. IsList(xs) /\ ActionOK(xs[i])
  BY DEF Typed
<1>2. ASSUME NEW ys,
             \E x : ActionOK(x) /\ SameRole(xs[i], x) /\ SameWords(xs[i], x) /\ ys = [xs EXCEPT ![i] = x]
      PROVE  Calm(xs, i, "", ys)
  <2> PICK x : ActionOK(x) /\ SameRole(xs[i], x) /\ SameWords(xs[i], x) /\ ys = [xs EXCEPT ![i] = x]
    BY <1>2
  <2> QED
    BY EntryIsCalm DEF SameRole, SameWords
<1>3. /\ Place(c) =>
           \E x : /\ ActionOK(x) /\ SameRole(xs[i], x) /\ SameWords(xs[i], x)
                 /\ Located(xs, i, c) = [xs EXCEPT ![i] = x]
      /\ c \in Part =>
           \E x : /\ ActionOK(x) /\ SameRole(xs[i], x) /\ SameWords(xs[i], x)
                 /\ Schema(xs, i, c) = [xs EXCEPT ![i] = x]
      /\ c \in Part =>
           \E x : /\ ActionOK(x) /\ SameRole(xs[i], x) /\ SameWords(xs[i], x)
                 /\ Database(xs, i, c) = [xs EXCEPT ![i] = x]
  BY <1>1, LocatedFacts
<1> QED
  BY <1>2, <1>3

LEMMA DisableIsCalm ==
  ASSUME NEW xs, Typed(xs), NEW i \in DOMAIN xs
  PROVE  Calm(xs, i, "", Disable(xs, i))
<1> DEFINE ys == Disable(xs, i)
           hit(k) == k = i \/ k \in xs[i].uniqueKeyAssertions \/ k = xs[i].rowConditionsAssertion
<1>0. Len(xs) \in Nat /\ DOMAIN xs = 1..Len(xs)
  BY ListFacts DEF Typed
<1>1. /\ DOMAIN ys = DOMAIN xs /\ ys = [k \in 1..Len(xs) |-> ys[k]]
      /\ \A k \in DOMAIN xs : ys[k] = IF hit(k) THEN [xs[k] EXCEPT !.disabled = TRUE] ELSE xs[k]
  BY <1>0 DEF Disable
<1> HIDE DEF ys, hit
<1>2. IsList(ys)
  BY <1>0, <1>1, MakeList
<1>3. ASSUME NEW k \in DOMAIN xs
      PROVE  /\ ActionOK(ys[k]) /\ ys[k].text = xs[k].text /\ ys[k].query = xs[k].query
             /\ ys[k].kind = xs[k].kind /\ ys[k].target = xs[k].target /\ ys[k].type = xs[k].type
             /\ ys[k].dependencyTargets = xs[k].dependencyTargets
  <2>1. ActionOK(xs[k])
    BY DEF Typed
  <2>2. CASE hit(k)
    BY <1>1, <2>1, <2>2 DEF ActionOK, ActionFields
  <2>3. CASE ~hit(k)
    BY <1>1, <2>1, <2>3
  <2> QED
    BY <2>2, <2>3
<1>4. Typed(ys)
  BY <1>1, <1>2, <1>3 DEF Typed
<1> QED
  BY <1>1, <1>3, <1>4 DEF ys, Calm

(* The name that a table gives to an assertion.                            *)
LEMMA LabelledNames ==
  ASSUME NEW p, IsList(p), NEW q, IsList(q), NEW label \in Labels
  PROVE  Labelled(p \o q \o <<label>>)
<1>1. Len(p) \in Nat /\ Len(q) \in Nat
  BY ListFacts
<1>2. PICK S, T : p \in Seq(S) /\ q \in Seq(T)
  BY DEF IsList
<1> DEFINE U == S \cup T \cup {label}
<1>3. p \in Seq(U) /\ q \in Seq(U) /\ label \in U
  <2>1. S \subseteq U /\ T \subseteq U /\ label \in U
    OBVIOUS
  <2> HIDE DEF U
  <2> QED
    BY <1>2, <2>1, SeqMonotonic
<1> HIDE DEF U
<1> DEFINE front == p \o q
<1>4. front \in Seq(U) /\ Len(front) \in Nat
  BY <1>3
<1> HIDE DEF front
<1>5. /\ Len(front \o <<label>>) = Len(front) + 1
      /\ (front \o <<label>>)[Len(front) + 1] = label
  BY <1>3, <1>4
<1>6. front \o <<label>> # <<>>
  BY <1>4, <1>5
<1> QED
  BY <1>5, <1>6 DEF Labelled, front

(* assertions() adds assertions with such names.                           *)
LEMMA GenerateIsCalm ==
  ASSUME NEW xs, Typed(xs), NEW i \in DOMAIN xs, config \in ProjectConfigs, NEW label \in Labels
  PROVE  Calm(xs, i, "", Generate(xs, i, label))
<1> PICK n : n = Len(xs) + 1
  OBVIOUS
<1> PICK ys : ys = Generate(xs, i, label)
  OBVIOUS
<1>1. WithAssertion(xs, i, label, ys, n)
  BY GenerateFacts
<1>2. /\ IsList(ys) /\ DOMAIN ys = DOMAIN xs \cup {n} /\ n \notin DOMAIN xs
      /\ \A k \in DOMAIN xs : ys[k] = xs[k]
      /\ ActionOK(ys[n]) /\ ys[n].query = <<<<"refParent", i>>>>
      /\ ys[n].text = <<>> /\ ys[n].type = "assertion"
      /\ ys[n].target.name = xs[i].target.schema \o xs[i].target.name \o <<label>>
  BY <1>1 DEF WithAssertion
<1>3. Labelled(ys[n].target.name)
  <2>1. IsList(xs[i].target.schema) /\ IsList(xs[i].target.name)
    BY DEF Typed, ActionOK, NameOK
  <2> QED
    BY <1>2, <2>1, LabelledNames
<1>4. Refers(ys[n].query, i)
  BY <1>2 DEF Refers
<1>5. Made(ys, n)
  BY <1>2, <1>3, <1>4 DEF Made
<1>6. Typed(ys)
  BY <1>2 DEF Typed
<1> QED
  BY <1>2, <1>5, <1>6 DEF Calm

LEMMA AssertionsAreCalm ==
  ASSUME NEW xs, Typed(xs), NEW i \in DOMAIN xs, config \in ProjectConfigs, NEW wanted
  PROVE  Calm(xs, i, "", Assertions(xs, i, wanted))
<1>1. ASSUME NEW ys, Calm(xs, i, "", ys), NEW label \in Labels
      PROVE  Calm(xs, i, "", UniqueKeyAssertion(ys, i, label))
  <2>1. Typed(ys) /\ i \in DOMAIN ys
    BY <1>1 DEF Calm
  <2> PICK gs : gs = Generate(ys, i, label)
    OBVIOUS
  <2> PICK new : new = Len(ys) + 1
    OBVIOUS
  <2> PICK x : x = [gs[i] EXCEPT !.uniqueKeyAssertions = @ \cup {new}]
    OBVIOUS
  <2>2. Calm(ys, i, "", gs)
    BY <2>1, GenerateIsCalm
  <2>3. Typed(gs) /\ i \in DOMAIN gs /\ ActionOK(gs[i])
    BY <2>1, <2>2 DEF Calm, Typed
  <2>4. ActionOK(x) /\ SameWords(gs[i], x)
    BY <2>3 DEF ActionOK, ActionFields, SameWords
  <2>4a. x.query = gs[i].query /\ x.kind = gs[i].kind /\ x.dependencyTargets = gs[i].dependencyTargets
    BY <2>3 DEF ActionOK, ActionFields
  <2> PICK zs : zs = [gs EXCEPT ![i] = x]
    OBVIOUS
  <2>5. UniqueKeyAssertion(ys, i, label) = zs
    BY DEF UniqueKeyAssertion
  <2>6. Calm(gs, i, "", zs)
    BY <2>3, <2>4, <2>4a, EntryIsCalm DEF SameWords
  <2>7. Calm(xs, i, "", gs)
    BY <1>1, <2>2, CalmFurther
  <2> QED
    BY <2>5, <2>6, <2>7, CalmFurther
<1>2. ASSUME NEW ys, Calm(xs, i, "", ys)
      PROVE  Calm(xs, i, "", RowConditionsAssertion(ys, i))
  <2>1. Typed(ys) /\ i \in DOMAIN ys
    BY <1>2 DEF Calm
  <2> PICK label : label = "rowConditions"
    OBVIOUS
  <2> PICK gs : gs = Generate(ys, i, label)
    OBVIOUS
  <2> PICK new : new = Len(ys) + 1
    OBVIOUS
  <2> PICK x : x = [gs[i] EXCEPT !.rowConditionsAssertion = new]
    OBVIOUS
  <2>2. Calm(ys, i, "", gs)
    BY <2>1, GenerateIsCalm DEF Labels
  <2>3. Typed(gs) /\ i \in DOMAIN gs /\ ActionOK(gs[i])
    BY <2>1, <2>2 DEF Calm, Typed
  <2>4. ActionOK(x) /\ SameWords(gs[i], x)
    BY <2>3 DEF ActionOK, ActionFields, SameWords
  <2>4a. x.query = gs[i].query /\ x.kind = gs[i].kind /\ x.dependencyTargets = gs[i].dependencyTargets
    BY <2>3 DEF ActionOK, ActionFields
  <2> PICK zs : zs = [gs EXCEPT ![i] = x]
    OBVIOUS
  <2>5. RowConditionsAssertion(ys, i) = zs
    BY DEF RowConditionsAssertion
  <2>6. Calm(gs, i, "", zs)
    BY <2>3, <2>4, <2>4a, EntryIsCalm DEF SameWords
  <2>7. Calm(xs, i, "", gs)
    BY <1>2, <2>2, CalmFurther
  <2> QED
    BY <2>5, <2>6, <2>7, CalmFurther
<1> DEFINE first == IF wanted \cap {"uniqueKey", "uniqueKeys"} # {} THEN UniqueKeyAssertion(xs, i, "uniqueKey0") ELSE xs
           both == IF "uniqueKeys" \in wanted /\ "uniqueKey" \notin wanted THEN UniqueKeyAssertion(first, i, "uniqueKey1") ELSE first
<1>3. Calm(xs, i, "", xs)
  BY CalmItself
<1>4. {"uniqueKey0", "uniqueKey1"} \subseteq Labels
  BY DEF Labels
<1>5. Calm(xs, i, "", first)
  BY <1>1, <1>3, <1>4
<1> HIDE DEF first
<1>6. Calm(xs, i, "", both)
  BY <1>1, <1>4, <1>5
<1>7. Assertions(xs, i, wanted) = IF "rowConditions" \in wanted THEN RowConditionsAssertion(both, i) ELSE both
  BY DEF Assertions, first
<1> HIDE DEF both
<1> QED
  BY <1>2, <1>6, <1>7


(* config() of every builder.                                              *)
LEMMA DescribedIsCalm ==
  ASSUME NEW xs, NEW i \in DOMAIN xs, NEW type, NEW ys, Calm(xs, i, type, ys), NEW c
  PROVE  Calm(xs, i, type, Described(ys, i, c))
<1> DEFINE Goes(zs) == Calm(xs, i, type, zs)
           a0 == Dependencies(ys, i, c.dependencies)
           a1 == Hermetic(a0, i, c.hermetic)
           a2 == IF c.disabled THEN Disable(a1, i) ELSE a1
           a3 == Tags(a2, i, c.tags)
           a4 == Options(a3, i, c.props)
<1>1. ASSUME NEW zs, Goes(zs) PROVE i \in DOMAIN zs /\ Typed(zs)
  BY <1>1 DEF Calm
<1>2. ASSUME NEW zs, NEW us, Goes(zs), Calm(zs, i, "", us) PROVE Goes(us)
  BY <1>2, CalmFurther
<1>3. Goes(ys)
  OBVIOUS
<1>4. Described(ys, i, c) = a4
  BY DEF Described
<1> HIDE DEF Goes
<1>5. Goes(a0)
  <2>1. Calm(ys, i, "", a0)
    BY <1>1, <1>3, FieldsAreCalm
  <2> HIDE DEF a0
  <2> QED
    BY <1>2, <1>3, <2>1
<1> HIDE DEF a0
<1>6. Goes(a1)
  <2>1. Calm(a0, i, "", a1)
    BY <1>1, <1>5, FieldsAreCalm
  <2> HIDE DEF a1
  <2> QED
    BY <1>2, <1>5, <2>1
<1> HIDE DEF a1
<1>7. Goes(a2)
  <2>1. Calm(a1, i, "", Disable(a1, i))
    BY <1>1, <1>6, DisableIsCalm
  <2> QED
    BY <1>2, <1>6, <2>1
<1> HIDE DEF a2
<1>8. Goes(a3)
  <2>1. Calm(a2, i, "", a3)
    BY <1>1, <1>7, FieldsAreCalm
  <2> HIDE DEF a3
  <2> QED
    BY <1>2, <1>7, <2>1
<1> HIDE DEF a3
<1>9. Goes(a4)
  <2>1. Calm(a3, i, "", a4)
    BY <1>1, <1>8, FieldsAreCalm
  <2> HIDE DEF a4
  <2> QED
    BY <1>2, <1>8, <2>1
<1> QED
  BY <1>4, <1>9 DEF Goes

LEMMA TableConfigIsCalm ==
  ASSUME NEW xs, Typed(xs), NEW i \in DOMAIN xs, config \in ProjectConfigs, NEW c, Place(c)
  PROVE  Calm(xs, i, c.type, TableConfig(xs, i, c))
<1> PICK type : type = c.type
  OBVIOUS
<1> DEFINE typed == Type(xs, i, type)
           described == Described(typed, i, c)
           placed == Located(described, i, c)
<1>1. TableConfig(xs, i, c) = Assertions(placed, i, c.assertions)
  BY DEF TableConfig
<1>2. Calm(xs, i, type, typed)
  BY FieldsAreCalm
<1> HIDE DEF typed
<1>3. Calm(xs, i, type, described)
  BY <1>2, DescribedIsCalm
<1> HIDE DEF described
<1>4. Calm(xs, i, type, placed)
  <2>1. Typed(described) /\ i \in DOMAIN described
    BY <1>3 DEF Calm
  <2>2. Calm(described, i, "", placed)
    BY <2>1, PlacesAreCalm
  <2> HIDE DEF placed
  <2> QED
    BY <1>3, <2>2, CalmFurther
<1> HIDE DEF placed
<1>5. Typed(placed) /\ i \in DOMAIN placed
  BY <1>4 DEF Calm
<1>6. Calm(placed, i, "", Assertions(placed, i, c.assertions))
  BY <1>5, AssertionsAreCalm
<1> QED
  BY <1>1, <1>4, <1>6, CalmFurther

LEMMA ConfigIsCalm ==
  ASSUME NEW xs, Typed(xs), NEW i \in DOMAIN xs, config \in ProjectConfigs, NEW c, Place(c)
  PROVE  Calm(xs, i, IF xs[i].kind = "table" THEN c.type ELSE "", Config(xs, i, c))
<1>1. xs[i].kind \in Kinds
  BY DEF Typed, ActionOK
<1>2. CASE xs[i].kind = "table"
  <2>1. Config(xs, i, c) = TableConfig(xs, i, c)
    BY <1>2 DEF Config
  <2> QED
    BY <1>2, <2>1, TableConfigIsCalm
<1>3. Calm(xs, i, "", xs)
  BY CalmItself
<1>4. ASSUME NEW ys, Calm(xs, i, "", ys) PROVE Calm(xs, i, "", Located(ys, i, c))
  <2>1. Typed(ys) /\ i \in DOMAIN ys
    BY <1>4 DEF Calm
  <2>2. Calm(ys, i, "", Located(ys, i, c))
    BY <2>1, PlacesAreCalm
  <2> QED
    BY <1>4, <2>2, CalmFurther
<1>5. CASE xs[i].kind = "operation"
  <2> PICK d : d = [c EXCEPT !.props = @ \cap {"description", "columns"}]
    OBVIOUS
  <2> DEFINE described == Described(xs, i, d)
             output == IF c.hasOutput THEN HasOutput(described, i, TRUE) ELSE described
  <2>1. Config(xs, i, c) = Located(output, i, c)
    BY <1>5 DEF Config, OperationConfig
  <2>2. Calm(xs, i, "", described)
    BY <1>3, DescribedIsCalm
  <2> HIDE DEF described
  <2>3. Calm(xs, i, "", HasOutput(described, i, TRUE))
    <3>1. Typed(described) /\ i \in DOMAIN described
      BY <2>2 DEF Calm
    <3>2. Calm(described, i, "", HasOutput(described, i, TRUE))
      BY <3>1, FieldsAreCalm
    <3> QED
      BY <2>2, <3>2, CalmFurther
  <2>4. Calm(xs, i, "", output)
    BY <2>2, <2>3
  <2> HIDE DEF output
  <2>5. Calm(xs, i, "", Located(output, i, c))
    BY <1>4, <2>4
  <2> QED
    BY <1>5, <2>1, <2>5
<1>6. CASE xs[i].kind = "assertion"
  <2> PICK d : d = [c EXCEPT !.props = @ \cap {"description"}]
    OBVIOUS
  <2> DEFINE described == Described(xs, i, d)
  <2>1. Config(xs, i, c) = Located(described, i, c)
    BY <1>6 DEF Config, AssertionConfig
  <2>2. Calm(xs, i, "", described)
    BY <1>3, DescribedIsCalm
  <2> HIDE DEF described
  <2>5. Calm(xs, i, "", Located(described, i, c))
    BY <1>4, <2>2
  <2> QED
    BY <1>6, <2>1, <2>5
<1>7. CASE xs[i].kind = "declaration"
  <2> PICK v : v = c.props \cap {"description", "columns"}
    OBVIOUS
  <2>1. Config(xs, i, c) = Options(xs, i, v)
    BY <1>7 DEF Config, DeclarationConfig
  <2>2. Calm(xs, i, "", Options(xs, i, v))
    BY FieldsAreCalm
  <2> QED
    BY <1>7, <2>1, <2>2
<1> QED
  BY <1>1, <1>2, <1>5, <1>6, <1>7 DEF Kinds
-----------------------------------------------------------------------------
(* Whatever says nothing leaves plain actions plain.                       *)
LEMMA MadeIsPlain ==
  ASSUME NEW xs, NEW i \in DOMAIN xs, Made(xs, i)
  PROVE  /\ IsList(xs[i].text) /\ xs[i].type # "inline"
         /\ \E p \in DOMAIN xs : Refers(xs[i].query, p)
BY NothingIsList DEF Made

LEMMA CalmIsPlain ==
  ASSUME NEW xs, Plain(xs), NEW i \in DOMAIN xs, NEW type, NEW ys, Calm(xs, i, type, ys),
         type # "" => xs[i].kind = "table" /\ (type = "inline" => ~NoneLateInline)
  PROVE  Plain(ys)
<1>1. ASSUME NEW k \in DOMAIN xs
      PROVE  /\ IsList(ys[k].text) /\ (ys[k].type = "inline" => ys[k].kind = "table")
             /\ PlainQuery(ys[k].query, ys[k].type) \/ \E p \in DOMAIN ys : Refers(ys[k].query, p)
  <2>1. /\ ys[k].text = xs[k].text /\ ys[k].query = xs[k].query /\ ys[k].kind = xs[k].kind
        /\ DOMAIN xs \subseteq DOMAIN ys
        /\ ys[k].type = IF k = i /\ type # "" THEN type ELSE xs[k].type
    BY DEF Calm
  <2>2. /\ IsList(xs[k].text) /\ (xs[k].type = "inline" => xs[k].kind = "table")
        /\ PlainQuery(xs[k].query, xs[k].type) \/ \E p \in DOMAIN xs : Refers(xs[k].query, p)
    BY DEF Plain
  <2>3. PlainQuery(xs[k].query, xs[k].type) => PlainQuery(ys[k].query, ys[k].type)
    BY <2>1 DEF PlainQuery
  <2> QED
    BY <2>1, <2>2, <2>3
<1>2. \A k \in DOMAIN ys : k \in DOMAIN xs \/ Made(ys, k)
  BY DEF Calm
<1> QED
  BY <1>1, <1>2, MadeIsPlain DEF Plain

LEMMA CalmIsSilent ==
  ASSUME NEW xs, Silent(xs), NEW i, NEW type, NEW ys, Calm(xs, i, type, ys)
  PROVE  Silent(ys)
BY DEF Silent, Calm, Made

(* A definition.                                                           *)
LEMMA DefinedIsPlain ==
  ASSUME NEW M, Sound(actions, M), config \in ProjectConfigs, Plain(actions), Silent(actions),
         PlainQueries, NEW src \in Sources, src.type # "test"
  PROVE  Plain(Defined(src)) /\ Silent(Defined(src))
<1> PICK c : c = src.config
  OBVIOUS
<1> PICK q : q = src.query
  OBVIOUS
<1>m. PICK made : made = FirstOf(src)
  OBVIOUS
<1>i. PICK i : i = Len(made)
  OBVIOUS
<1>y. PICK ys : ys = Config(made, i, c)
  OBVIOUS
<1>z. PICK zs : zs = [ys EXCEPT ![i].query = q]
  OBVIOUS
<1>1. Defined(src) = zs
  BY <1>m, <1>i, <1>y, <1>z DEF Defined, FirstOf
<1>2. AddedTo(actions, M, KindOf(src.type), made)
  BY <1>m, FirstIsAdded
<1>3. /\ Typed(made) /\ i \in DOMAIN made /\ made[i].text = <<>> /\ made[i].type # "inline"
      /\ DOMAIN made = DOMAIN actions \cup {i} /\ i \notin DOMAIN actions
      /\ \A k \in DOMAIN actions : made[k] = actions[k]
  BY <1>2, <1>i DEF AddedTo, Sound
<1>4. ConfigOK(c) /\ Place(c)
  BY SessionAssumption DEF ConfigOK, Place
<1>t. PICK type : type = IF made[i].kind = "table" THEN c.type ELSE ""
  OBVIOUS
<1>5. Calm(made, i, type, ys)
  BY <1>3, <1>4, <1>y, <1>t, ConfigIsCalm
<1>6. /\ DOMAIN made \subseteq DOMAIN ys /\ i \in DOMAIN ys /\ ActionOK(ys[i])
      /\ \A k \in DOMAIN made :
           /\ ys[k].text = made[k].text /\ ys[k].query = made[k].query /\ ys[k].kind = made[k].kind
           /\ ys[k].type = IF k = i /\ type # "" THEN type ELSE made[k].type
      /\ \A k \in DOMAIN ys : k \in DOMAIN made \/ Made(ys, k)
  BY <1>3, <1>5 DEF Calm, Typed
<1>7. /\ DOMAIN zs = DOMAIN ys /\ \A k \in DOMAIN ys : k # i => zs[k] = ys[k]
      /\ zs[i].query = q /\ zs[i].text = ys[i].text /\ zs[i].type = ys[i].type /\ zs[i].kind = ys[i].kind
  BY <1>6, <1>z DEF ActionOK, ActionFields
<1>8. PlainQuery(q, c.type)
  BY DEF PlainQueries
<1>9. IsList(<<>>)
  BY NothingIsList
<1>10. /\ zs[i].text = <<>> /\ (zs[i].type = "inline" => zs[i].kind = "table")
       /\ PlainQuery(zs[i].query, zs[i].type)
  <2>1. zs[i].text = <<>>
    BY <1>3, <1>6, <1>7
  <2>2. zs[i].type = "inline" => zs[i].kind = "table" /\ c.type = "inline"
    BY <1>3, <1>6, <1>7, <1>t
  <2>3. PlainQuery(q, zs[i].type)
    BY <1>8, <2>2 DEF PlainQuery
  <2> QED
    BY <1>7, <2>1, <2>2, <2>3
<1>11. ASSUME NEW k \in DOMAIN actions
       PROVE  /\ zs[k].text = actions[k].text /\ zs[k].query = actions[k].query
              /\ zs[k].kind = actions[k].kind /\ zs[k].type = actions[k].type
  BY <1>3, <1>6, <1>7
<1>12. ASSUME NEW k \in DOMAIN zs, k \notin DOMAIN actions, k # i PROVE Made(zs, k)
  <2>0. k \in DOMAIN ys /\ k \notin DOMAIN made
    BY <1>3, <1>7, <1>12
  <2>1. Made(ys, k) /\ zs[k] = ys[k]
    BY <1>6, <1>7, <1>12, <2>0
  <2> QED
    BY <1>7, <2>1 DEF Made
<1>13. Silent(zs)
  BY <1>10, <1>11, <1>12 DEF Silent, Made
<1>14. ASSUME NEW k \in DOMAIN zs
       PROVE  /\ IsList(zs[k].text) /\ (zs[k].type = "inline" => zs[k].kind = "table")
              /\ PlainQuery(zs[k].query, zs[k].type) \/ \E p \in DOMAIN zs : Refers(zs[k].query, p)
  <2>1. CASE k = i
    BY <1>9, <1>10, <2>1
  <2>2. CASE k \in DOMAIN actions
    <3>1. DOMAIN actions \subseteq DOMAIN zs
      BY <1>3, <1>6, <1>7
    <3> QED
      BY <1>11, <2>2, <3>1 DEF Plain
  <2>3. CASE k # i /\ k \notin DOMAIN actions
    BY <1>12, <2>3, MadeIsPlain
  <2> QED
    BY <2>1, <2>2, <2>3
<1> QED
  BY <1>1, <1>13, <1>14 DEF Plain

(* A call on a builder.                                                    *)
LEMMA CalledIsCalm ==
  ASSUME Typed(actions), config \in ProjectConfigs, NEW i \in DOMAIN actions,
         NEW c \in LateCalls, c[1] \in CallsOf(actions[i].kind)
  PROVE  \E type : /\ Calm(actions, i, type, Called(i, c))
                   /\ type # "" => actions[i].kind = "table" /\ (type = "inline" => ~NoneLateInline)
<1> PICK v : v = c[2]
  OBVIOUS
<1>1. ASSUME Calm(actions, i, "", Called(i, c))
      PROVE  \E type : /\ Calm(actions, i, type, Called(i, c))
                       /\ type # "" => actions[i].kind = "table" /\ (type = "inline" => ~NoneLateInline)
  BY <1>1
<1>2. actions[i].kind \in Kinds
  BY DEF Typed, ActionOK
<1>3. CASE c[1] = "schema"
  <2>1. Called(i, c) = Schema(actions, i, v) /\ v \in Part
    BY <1>3, SessionAssumption DEF Called
  <2>2. Calm(actions, i, "", Schema(actions, i, v))
    BY <2>1, PlacesAreCalm
  <2> QED
    BY <1>1, <2>1, <2>2
<1>4. CASE c[1] = "database"
  <2>1. Called(i, c) = Database(actions, i, v) /\ v \in Part
    BY <1>4, SessionAssumption DEF Called
  <2>2. Calm(actions, i, "", Database(actions, i, v))
    BY <2>1, PlacesAreCalm
  <2> QED
    BY <1>1, <2>1, <2>2
<1>5. CASE c[1] = "disabled"
  <2>1. Called(i, c) = Disable(actions, i)
    BY <1>5 DEF Called
  <2> QED
    BY <1>1, <2>1, DisableIsCalm
<1>6. CASE c[1] = "assertions"
  <2>1. Called(i, c) = Assertions(actions, i, v)
    BY <1>6 DEF Called
  <2>2. Calm(actions, i, "", Assertions(actions, i, v))
    BY AssertionsAreCalm
  <2> QED
    BY <1>1, <2>1, <2>2
<1>7. CASE c[1] = "type"
  <2>1. Called(i, c) = Type(actions, i, v)
    BY <1>7 DEF Called
  <2>2. Calm(actions, i, v, Type(actions, i, v))
    BY FieldsAreCalm
  <2>3. actions[i].kind = "table"
    BY <1>2, <1>7 DEF CallsOf, ActionCalls, Kinds
  <2>4. v = "inline" => ~NoneLateInline
    BY <1>7 DEF NoneLateInline
  <2> QED
    BY <2>1, <2>2, <2>3, <2>4
<1>8. CASE c[1] \in {"dependencies", "tags", "hasOutput"}
  <2>1. Called(i, c) \in {Dependencies(actions, i, v), Tags(actions, i, v), HasOutput(actions, i, v)}
    BY <1>8 DEF Called
  <2>2. /\ Calm(actions, i, "", Dependencies(actions, i, v)) /\ Calm(actions, i, "", Tags(actions, i, v))
        /\ Calm(actions, i, "", HasOutput(actions, i, v))
    BY FieldsAreCalm
  <2> QED
    BY <1>1, <2>1, <2>2
<1>9. c[1] \in {"schema", "database", "disabled", "assertions", "dependencies", "tags", "type", "hasOutput"}
  BY <1>2 DEF CallsOf, ActionCalls, Kinds
<1> QED
  BY <1>3, <1>4, <1>5, <1>6, <1>7, <1>8, <1>9


-----------------------------------------------------------------------------
(* One more piece of a text.                                               *)
LEMMA MoreText ==
  ASSUME NEW text, IsList(text), NEW v
  PROVE  /\ IsList(Append(text, v))
         /\ Refs(Append(text, v)) = Refs(text) \cup (IF v[1] = "ref" THEN {v[2]} ELSE {})
<1> PICK more : more = Append(text, v)
  OBVIOUS
<1>1. Len(text) \in Nat /\ DOMAIN text = 1..Len(text)
  BY ListFacts
<1>2. /\ IsList(more) /\ Len(more) = Len(text) + 1
      /\ more[Len(text) + 1] = v /\ \A k \in DOMAIN text : more[k] = text[k]
  BY ListAppend
<1>3. DOMAIN more = 1..(Len(text) + 1)
  BY <1>2, ListFacts
<1>4. DOMAIN more = DOMAIN text \cup {Len(text) + 1} /\ Len(text) + 1 \notin DOMAIN text
  BY <1>1, <1>3
<1>5. ToSet(more) = ToSet(text) \cup {v}
  <2>1. \A x \in ToSet(more) : x \in ToSet(text) \cup {v}
    BY <1>2, <1>4 DEF ToSet
  <2>2. \A x \in ToSet(text) \cup {v} : x \in ToSet(more)
    BY <1>2, <1>4 DEF ToSet
  <2> QED
    BY <2>1, <2>2
<1>6. Refs(more) = Refs(text) \cup (IF v[1] = "ref" THEN {v[2]} ELSE {})
  BY <1>5 DEF Refs, References
<1> QED
  BY <1>2, <1>6

LEMMA NothingSaid == Refs(<<>>) = {}
BY DEF Refs, References, ToSet

(* Actions after calls that say something: what a text refers to besides   *)
(* what it did is what a dependency of its action then explains.           *)
Tells(xs, ys) ==
  /\ DOMAIN xs \subseteq DOMAIN ys
  /\ \A k \in DOMAIN xs :
       /\ ys[k].kind = xs[k].kind /\ xs[k].dependencyTargets \subseteq ys[k].dependencyTargets
       /\ Inline(ys, k) = Inline(xs, k) /\ Refs(xs[k].text) \subseteq Refs(ys[k].text)
       /\ \A x \in Refs(ys[k].text) :
            x \in Refs(xs[k].text) \/ \E ref \in ys[k].dependencyTargets : Explains(xs, ref, x)
  /\ \A k \in DOMAIN ys : k \in DOMAIN xs \/ Made(ys, k)

LEMMA TellsNothing == ASSUME NEW xs PROVE Tells(xs, xs)
BY DEF Tells

LEMMA CalmTells ==
  ASSUME NEW xs, NEW i \in DOMAIN xs, NEW type, NEW ys, Calm(xs, i, type, ys),
         type # "" => type # "inline" /\ xs[i].type # "inline"
  PROVE  Tells(xs, ys)
<1>1. \A k \in DOMAIN xs : Inline(ys, k) = Inline(xs, k)
  BY DEF Inline, Calm
<1> QED
  BY <1>1 DEF Calm, Tells

(* What was explained stays so where no action there was has moved: a new  *)
(* one has the name of an assertion, which was not referred to.            *)
LEMMA ExplainsStill ==
  ASSUME NEW xs, NEW ys, Tells(xs, ys), \A k \in DOMAIN xs : ys[k].target = xs[k].target,
         NEW ref, NEW x, Explains(xs, ref, x)
  PROVE  Explains(ys, ref, x)
<1>1. /\ FindActions(xs, ref) \subseteq FindActions(ys, ref)
      /\ FindActions(ys, ref) \cap DOMAIN xs \subseteq FindActions(xs, ref)
  BY DEF FindActions, Tells
<1>2. FindActions(ys, ref) = {} => ~Labelled(ref.name)
  BY <1>1 DEF Explains
<1>3. ASSUME NEW k \in DOMAIN ys, FindActions(ys, ref) = {k} PROVE ResolvedTo(ys, k, x)
  <2>1. CASE k \in DOMAIN xs
    <3>1. FindActions(xs, ref) = {k}
      BY <1>1, <1>3, <2>1
    <3>2. ResolvedTo(xs, k, x)
      BY <2>1, <3>1 DEF Explains
    <3>3. /\ Inline(ys, k) = Inline(xs, k) /\ Refs(xs[k].text) \subseteq Refs(ys[k].text)
          /\ FinalName(ys, k) = FinalName(xs, k)
      BY <2>1 DEF Tells, FinalName
    <3> QED
      BY <3>2, <3>3 DEF ResolvedTo
  <2>2. CASE k \notin DOMAIN xs
    <3>1. FindActions(xs, ref) = {}
      BY <1>1, <1>3, <2>2 DEF FindActions
    <3>2. Labelled(ys[k].target.name)
      BY <2>2 DEF Tells, Made
    <3>3. ys[k].target.name = ref.name
      BY <1>3 DEF FindActions
    <3> QED
      BY <3>1, <3>2, <3>3 DEF Explains
  <2> QED
    BY <2>1, <2>2
<1> QED
  BY <1>2, <1>3 DEF Explains

LEMMA ExplainedStill ==
  ASSUME NEW xs, NEW ys, Tells(xs, ys), \A k \in DOMAIN xs : ys[k].target = xs[k].target,
         Explained(xs)
  PROVE  Explained(ys)
<1> SUFFICES ASSUME NEW k \in DOMAIN ys, NEW x \in Refs(ys[k].text)
             PROVE  \E ref \in ys[k].dependencyTargets : Explains(ys, ref, x)
  BY DEF Explained
<1>1. CASE k \notin DOMAIN xs
  BY <1>1, NothingSaid DEF Tells, Made
<1>2. CASE k \in DOMAIN xs
  <2>1. PICK ref \in ys[k].dependencyTargets : Explains(xs, ref, x)
    BY <1>2 DEF Tells, Explained
  <2> QED
    BY <2>1, ExplainsStill
<1> QED
  BY <1>1, <1>2

(* What ref() resolves a reference to is explained by it.                  *)
LEMMA ResolvedIsExplained ==
  ASSUME NEW xs, Typed(xs), Plain(xs), NEW ref, FindActions(xs, ref) # {} \/ ~Labelled(ref.name)
  PROVE  Explains(xs, ref, Resolve(xs, ref))
<1> SUFFICES ASSUME NEW k \in DOMAIN xs, FindActions(xs, ref) = {k}
             PROVE  ResolvedTo(xs, k, Resolve(xs, ref))
  BY DEF Explains
<1>1. First({k}) = k
  <2>1. k \in Nat
    BY ListFacts DEF Typed
  <2> QED
    BY <2>1 DEF First
<1>2. CASE xs[k].type = "inline"
  <2>1. Inline(xs, k)
    BY <1>2 DEF Plain, Inline
  <2> PICK a : a = xs[k]
    OBVIOUS
  <2>2. Resolve(xs, ref) = <<"text", a.text>>
    <3>1. FindActions(xs, ref) # {} /\ xs[First(FindActions(xs, ref))] = a
      BY <1>1
    <3>2. a.type = "inline" /\ a.kind = "table"
      BY <1>2 DEF Plain
    <3> QED
      BY <3>1, <3>2 DEF Resolve
  <2> QED
    BY <2>1, <2>2 DEF ResolvedTo
<1>3. CASE xs[k].type # "inline"
  <2>1. ~Inline(xs, k)
    BY <1>3 DEF Inline
  <2>2. Resolve(xs, ref) = <<"name", FinalName(xs, k)>>
    BY <1>1, <1>3 DEF Resolve, FinalName
  <2> QED
    BY <2>1, <2>2 DEF ResolvedTo
<1> QED
  BY <1>2, <1>3

-----------------------------------------------------------------------------
(* One more piece of the text of i.                                        *)
WithText(xs, i, v, refs, ys) ==
  /\ DOMAIN ys = DOMAIN xs /\ \A k \in DOMAIN xs : k # i => ys[k] = xs[k]
  /\ ys[i].text = Append(xs[i].text, v) /\ ys[i].kind = xs[i].kind /\ ys[i].type = xs[i].type
  /\ ys[i].query = xs[i].query
  /\ ys[i].dependencyTargets = xs[i].dependencyTargets \cup refs
LEMMA TextTells ==
  ASSUME NEW xs, Plain(xs), NEW i \in DOMAIN xs, NEW v, NEW refs, NEW ys,
         WithText(xs, i, v, refs, ys),
         v[1] = "ref" => \E ref \in refs : Explains(xs, ref, v[2])
  PROVE  Plain(ys) /\ Tells(xs, ys)
<1>1. /\ DOMAIN ys = DOMAIN xs
      /\ \A k \in DOMAIN xs : /\ ys[k].kind = xs[k].kind /\ ys[k].type = xs[k].type
                              /\ ys[k].query = xs[k].query
                              /\ xs[k].dependencyTargets \subseteq ys[k].dependencyTargets
  BY DEF WithText
<1>2. IsList(xs[i].text)
  BY DEF Plain
<1>3. /\ IsList(ys[i].text)
      /\ Refs(ys[i].text) = Refs(xs[i].text) \cup (IF v[1] = "ref" THEN {v[2]} ELSE {})
  BY <1>2, MoreText DEF WithText
<1>4. \A k \in DOMAIN xs : k # i => ys[k].text = xs[k].text
  BY DEF WithText
<1>5. refs \subseteq ys[i].dependencyTargets
  BY DEF WithText
<1>6. Plain(ys)
  <2>1. \A k \in DOMAIN ys : IsList(ys[k].text)
    BY <1>1, <1>3, <1>4 DEF Plain
  <2> QED
    BY <1>1, <2>1 DEF Plain
<1>7. \A k \in DOMAIN xs : Inline(ys, k) = Inline(xs, k)
  BY <1>1 DEF Inline
<1>8. \A k \in DOMAIN xs : Refs(xs[k].text) \subseteq Refs(ys[k].text)
  BY <1>3, <1>4
<1>9. ASSUME NEW k \in DOMAIN xs, NEW x \in Refs(ys[k].text)
      PROVE  x \in Refs(xs[k].text) \/ \E ref \in ys[k].dependencyTargets : Explains(xs, ref, x)
  <2>1. CASE k # i
    BY <1>4, <2>1
  <2>2. CASE k = i
    BY <1>3, <1>5, <2>2
  <2> QED
    BY <2>1, <2>2
<1> QED
  BY <1>1, <1>6, <1>7, <1>8, <1>9 DEF Tells

LEMMA AppendedText ==
  ASSUME NEW xs, Typed(xs), NEW i \in DOMAIN xs, NEW v, NEW refs
  PROVE  /\ WithText(xs, i, v, {}, [xs EXCEPT ![i].text = Append(@, v)])
         /\ WithText(xs, i, v, refs, [Dependencies(xs, i, refs) EXCEPT ![i].text = Append(@, v)])
<1>1. ActionOK(xs[i])
  BY DEF Typed
<1>2. WithText(xs, i, v, {}, [xs EXCEPT ![i].text = Append(@, v)])
  BY <1>1 DEF WithText, ActionOK, ActionFields
<1>3. WithText(xs, i, v, refs, [Dependencies(xs, i, refs) EXCEPT ![i].text = Append(@, v)])
  BY <1>1 DEF WithText, ActionOK, ActionFields, Dependencies
<1> QED
  BY <1>2, <1>3

(* The calls that the query of a plain action makes.                       *)
Allowed(xs, i, c) ==
  \/ PlainCall(c) /\ (GivenType(c) # "" => xs[i].type # "inline" /\ NoneLateInline)
  \/ c[1] = "refParent" /\ c[2] \in DOMAIN xs
Truthful(xs, ys) == Plain(ys) /\ Tells(xs, ys)
LEMMA PlainAllows ==
  ASSUME NEW xs, Plain(xs), NEW i \in DOMAIN xs, NEW q, q = xs[i].query, QueryOK(q), NEW n \in DOMAIN q
  PROVE  Allowed(xs, i, q[n])
<1>1. CASE PlainQuery(q, xs[i].type)
  BY <1>1 DEF PlainQuery, Allowed
<1>2. CASE \E p \in DOMAIN xs : Refers(q, p)
  <2>1. n = 1
    BY <1>2 DEF Refers, QueryOK
  <2> QED
    BY <1>2, <2>1 DEF Refers, Allowed
<1> QED
  BY <1>1, <1>2 DEF Plain

LEMMA SaysNothing ==
  ASSUME NEW xs, Plain(xs), NEW i \in DOMAIN xs, NEW ys, Calm(xs, i, "", ys)
  PROVE  Truthful(xs, ys)
BY CalmIsPlain, CalmTells DEF Truthful

LEMMA SaysTheSame == ASSUME NEW xs, Plain(xs) PROVE Truthful(xs, xs)
BY TellsNothing DEF Truthful

LEMMA RefTells ==
  ASSUME NEW r, DOMAIN r = RunFields, Typed(r.as), Plain(r.as), NEW i \in DOMAIN r.as, NEW ref,
         FindActions(r.as, ref) # {} \/ ~Labelled(ref.name)
  PROVE  Truthful(r.as, Ref(r, i, ref).as)
<1> PICK xs : xs = r.as
  OBVIOUS
<1> PICK x : x = Resolve(xs, ref)
  OBVIOUS
<1>v. PICK v : v = <<"ref", x>>
  OBVIOUS
<1>y. PICK ys : ys = [Dependencies(xs, i, {ref}) EXCEPT ![i].text = Append(@, v)]
  OBVIOUS
<1>1. Ref(r, i, ref).as = ys
  <2> PICK errors : errors = ResolveErrors(xs, ref)
    OBVIOUS
  <2>1. Ref(r, i, ref) = [r EXCEPT !.as = ys, !.errors = @ \cup errors]
    BY <1>v, <1>y DEF Ref
  <2> QED
    BY <2>1 DEF RunFields
<1>2. WithText(xs, i, v, {ref}, ys)
  BY <1>y, AppendedText
<1>3. Explains(xs, ref, v[2])
  BY <1>v, ResolvedIsExplained
<1> QED
  BY <1>1, <1>2, <1>3, TextTells DEF Truthful

LEMMA CommonCallTells ==
  ASSUME NEW r, DOMAIN r = RunFields, Typed(r.as), Plain(r.as), NEW i \in DOMAIN r.as, NEW c,
         c[1] \in CommonCalls, Allowed(r.as, i, c)
  PROVE  Truthful(r.as, CommonCall(r, i, c).as)
<1> PICK v : v = c[2]
  OBVIOUS
<1> PICK xs : xs = r.as
  OBVIOUS
<1> DEFINE s == CommonCall(r, i, c)
<1>0. Truthful(xs, xs)
  BY SaysTheSame
<1>1. CASE c[1] = "ref"
  <2>1. ~Labelled(v.name)
    BY <1>1 DEF Allowed, PlainCall
  <2>2. s = Ref(r, i, v)
    BY <1>1 DEF CommonCall
  <2> QED
    BY <2>1, <2>2, RefTells
<1>2. CASE c[1] = "refParent"
  <2>1. v \in DOMAIN xs
    BY <1>2 DEF Allowed, PlainCall
  <2> PICK t : t = xs[v].target
    OBVIOUS
  <2>2. v \in FindActions(xs, t)
    BY <2>1 DEF FindActions
  <2>3. s = Ref(r, i, t)
    BY <1>2 DEF CommonCall
  <2> QED
    BY <2>2, <2>3, RefTells
<1>3. CASE c[1] = "resolve"
  <2>x. PICK x : x = <<"resolve", Resolve(r.as, c[2])>>
    OBVIOUS
  <2>y. PICK ys : ys = [xs EXCEPT ![i].text = Append(@, x)]
    OBVIOUS
  <2>1. s.as = ys
    BY <1>3, <2>x, <2>y DEF CommonCall, RunFields
  <2>2. WithText(xs, i, x, {}, ys)
    BY <2>y, AppendedText
  <2>3. x[1] # "ref"
    BY <2>x
  <2> QED
    BY <2>1, <2>2, <2>3, TextTells DEF Truthful
<1>4. CASE c[1] = "dependencies"
  <2>1. s.as = Dependencies(xs, i, v)
    BY <1>4 DEF CommonCall, RunFields
  <2>2. Calm(xs, i, "", Dependencies(xs, i, v))
    BY FieldsAreCalm
  <2> QED
    BY <2>1, <2>2, SaysNothing
<1>5. CASE c[1] = "tags"
  <2>1. s.as = Tags(xs, i, v)
    BY <1>5 DEF CommonCall, RunFields
  <2>2. Calm(xs, i, "", Tags(xs, i, v))
    BY FieldsAreCalm
  <2> QED
    BY <2>1, <2>2, SaysNothing
<1>6. CASE c[1] = "text"
  <2>y. PICK ys : ys = [xs EXCEPT ![i].text = Append(@, c)]
    OBVIOUS
  <2>1. s.as = ys
    BY <1>6, <2>y DEF CommonCall, RunFields
  <2>2. WithText(xs, i, c, {}, ys)
    BY <2>y, AppendedText
  <2>3. c[1] # "ref"
    BY <1>6
  <2> QED
    BY <2>1, <2>2, <2>3, TextTells DEF Truthful
<1>7. CASE c[1] = "throw"
  <2>1. s.as = xs
    BY <1>7 DEF CommonCall, RunFields
  <2> QED
    BY <1>0, <2>1
<1> QED
  BY <1>1, <1>2, <1>3, <1>4, <1>5, <1>6, <1>7 DEF CommonCalls

LEMMA TableCallTells ==
  ASSUME NEW r, DOMAIN r = RunFields, Typed(r.as), Plain(r.as), NEW i \in DOMAIN r.as, NEW c, CallOK(c),
         r.as[i].kind = "table", c[1] \in TableCalls, config \in ProjectConfigs, Allowed(r.as, i, c)
  PROVE  Truthful(r.as, TableCall(r, i, c).as)
<1> PICK v : v = c[2]
  OBVIOUS
<1> PICK xs : xs = r.as
  OBVIOUS
<1> DEFINE s == TableCall(r, i, c)
<1>0. GivenType(c) # "inline" /\ (GivenType(c) # "" => xs[i].type # "inline")
  BY DEF Allowed, PlainCall, TableCalls
<1>1. CASE c[1] = "config"
  <2>1. s.as = TableConfig(xs, i, v)
    BY <1>1 DEF TableCall, RunFields
  <2>2. Place(v)
    BY <1>1 DEF CallOK, ConfigOK, Place
  <2>3. Calm(xs, i, v.type, TableConfig(xs, i, v))
    BY <2>2, TableConfigIsCalm
  <2>4. GivenType(c) = v.type
    BY <1>1 DEF GivenType
  <2> QED
    BY <1>0, <2>1, <2>3, <2>4, CalmIsPlain, CalmTells DEF Truthful
<1>2. CASE c[1] = "type"
  <2>1. s.as = Type(xs, i, v)
    BY <1>2 DEF TableCall, RunFields
  <2>2. Calm(xs, i, v, Type(xs, i, v))
    BY FieldsAreCalm
  <2>3. GivenType(c) = v
    BY <1>2 DEF GivenType
  <2> QED
    BY <1>0, <2>1, <2>2, <2>3, CalmIsPlain, CalmTells DEF Truthful
<1>3. CASE c[1] = "disabled"
  <2>1. s.as = Disable(xs, i)
    BY <1>3 DEF TableCall, RunFields
  <2> QED
    BY <2>1, DisableIsCalm, SaysNothing
<1>4. CASE c[1] = "preOps"
  <2>y. PICK ys : ys = [xs EXCEPT ![i].preOps = @ + 1]
    OBVIOUS
  <2>1. s.as = ys
    BY <1>4, <2>y DEF TableCall, RunFields
  <2>2. Calm(xs, i, "", ys)
    BY <2>y, FieldsAreCalm
  <2> QED
    BY <2>1, <2>2, SaysNothing
<1>5. CASE c[1] = "options"
  <2>1. s.as = Options(xs, i, v)
    BY <1>5 DEF TableCall, RunFields
  <2>2. Calm(xs, i, "", Options(xs, i, v))
    BY FieldsAreCalm
  <2> QED
    BY <2>1, <2>2, SaysNothing
<1> QED
  BY <1>1, <1>2, <1>3, <1>4, <1>5 DEF TableCalls

LEMMA ContextCallTells ==
  ASSUME NEW r, DOMAIN r = RunFields, Typed(r.as), Plain(r.as), NEW i \in DOMAIN r.as, NEW c, CallOK(c),
         config \in ProjectConfigs, Allowed(r.as, i, c)
  PROVE  Truthful(r.as, ContextCall(r, i, c).as)
<1> PICK v : v = c[2]
  OBVIOUS
<1>1. Truthful(r.as, r.as)
  BY SaysTheSame
<1>2. [r EXCEPT !.threw = TRUE].as = r.as
  BY DEF RunFields
<1>3. c[1] \in CommonCalls => Truthful(r.as, CommonCall(r, i, c).as)
  BY CommonCallTells
<1>4. r.as[i].kind = "table" /\ c[1] \in TableCalls => Truthful(r.as, TableCall(r, i, c).as)
  BY TableCallTells
<1>5. Truthful(r.as, OperationCall(r, i, c).as)
  <2>1. OperationCall(r, i, c).as = HasOutput(r.as, i, v)
    BY DEF OperationCall, RunFields
  <2>2. Calm(r.as, i, "", HasOutput(r.as, i, v))
    BY FieldsAreCalm
  <2> QED
    BY <2>1, <2>2, SaysNothing
<1> QED
  BY <1>1, <1>2, <1>3, <1>4, <1>5 DEF ContextCall

(* The calls of a query keep what its texts say explained.                 *)
Telling(r) == Plain(r.as) /\ (r.moved = {} => Explained(r.as))
LEMMA ContextCallKeepsTelling ==
  ASSUME NEW r, DOMAIN r = RunFields, Sound(r.as, r.moved), Telling(r), NEW i \in DOMAIN r.as, NEW c,
         CallOK(c), config \in ProjectConfigs, Allowed(r.as, i, c)
  PROVE  Telling(ContextCall(r, i, c))
<1>s. PICK s : s = ContextCall(r, i, c)
  OBVIOUS
<1>1. Went(r, s)
  BY <1>s, ContextCallWent
<1>2. Plain(s.as) /\ Tells(r.as, s.as)
  BY <1>s, ContextCallTells DEF Truthful, Sound, Telling
<1>3. ASSUME s.moved = {} PROVE Explained(s.as)
  <2>1. r.moved = {} /\ \A k \in DOMAIN r.as : s.as[k].target = r.as[k].target
    BY <1>1, <1>3 DEF Went
  <2> QED
    BY <1>2, <2>1, ExplainedStill DEF Telling
<1> QED
  BY <1>s, <1>2, <1>3 DEF Telling

LEMMA ApplyKeepsTelling ==
  ASSUME NEW r, DOMAIN r = RunFields, Sound(r.as, r.moved), Telling(r), NEW i \in DOMAIN r.as,
         config \in ProjectConfigs
  PROVE  Telling(Apply(r, i))
<1> PICK q : q = r.as[i].query
  OBVIOUS
<1>1. QueryOK(q) /\ Len(q) \in Nat /\ DOMAIN q = 1..Len(q) /\ \A k \in 1..Len(q) : CallOK(q[k])
  BY SoundEntries DEF ActionOK, QueryOK
<1>2. PICK f : /\ DOMAIN f = 0..Len(q)
               /\ f[0] = r /\ \A n \in 1..Len(q) : f[n] = ContextCall(f[n-1], i, q[n])
               /\ Apply(r, i) = f[Len(q)]
  BY <1>1, QueryRounds
<1> DEFINE T == {n \in 0..Len(q) : Went(r, f[n]) /\ Telling(f[n])}
<1>3. 0 \in T
  BY <1>1, <1>2, StayedWent
<1>4. ASSUME NEW n \in 1..Len(q), n - 1 \in T PROVE n \in T
  <2>s. PICK s : s = f[n - 1]
    OBVIOUS
  <2>1. Went(r, s) /\ Telling(s) /\ CallOK(q[n]) /\ f[n] = ContextCall(s, i, q[n])
    BY <1>1, <1>2, <1>4, <2>s
  <2>2. /\ DOMAIN s = RunFields /\ Sound(s.as, s.moved) /\ i \in DOMAIN s.as
        /\ s.as[i].query = q
    BY <2>1 DEF Went, Extends
  <2>3. Allowed(s.as, i, q[n])
    BY <1>1, <2>1, <2>2, PlainAllows DEF Telling
  <2>4. Went(s, f[n]) /\ Telling(f[n])
    BY <2>1, <2>2, <2>3, ContextCallWent, ContextCallKeepsTelling
  <2>5. Went(r, f[n])
    BY <2>1, <2>4, WentFurther
  <2> QED
    BY <1>1, <2>4, <2>5
<1> HIDE DEF T
<1>5. Len(q) \in T
  <2> PICK n \in Nat : n = Len(q)
    BY <1>1
  <2>1. \A k \in 1..n : k - 1 \in T => k \in T
    BY <1>4
  <2>2. \A k \in 0..n : k \in T
    BY <1>3, <2>1, UpTo
  <2> QED
    BY <2>2
<1> QED
  BY <1>2, <1>5 DEF T

LEMMA CompiledIsTelling ==
  ASSUME config \in ProjectConfigs, Sound(actions, moved), NEW i \in DOMAIN actions,
         Plain(actions), moved = {} => Explained(actions)
  PROVE  Telling(Compiled(i))
<1> PICK r : r = Start
  OBVIOUS
<1>0. DOMAIN r = RunFields /\ r.as = actions /\ r.moved = moved
  BY DEF Start, RunFields
<1> DEFINE Gone(s) == Went(r, s) /\ Telling(s)
<1>1. Gone(r)
  BY <1>0, StayedWent DEF Telling
<1>2. ASSUME NEW s, Gone(s) PROVE Gone(Apply(s, i))
  <2>1. DOMAIN s = RunFields /\ Sound(s.as, s.moved) /\ i \in DOMAIN s.as
    BY <1>0, <1>2 DEF Went, Extends
  <2>2. Went(s, Apply(s, i)) /\ Telling(Apply(s, i))
    BY <1>2, <2>1, ApplyWent, ApplyKeepsTelling
  <2> QED
    BY <1>2, <2>2, WentFurther
<1>3. ASSUME NEW s, Gone(s) PROVE Gone(ValidateQueryString(s, i))
  <2> PICK t : t = ValidateQueryString(s, i)
    OBVIOUS
  <2>1. DOMAIN t = RunFields /\ t.as = s.as /\ t.moved = s.moved
    BY <1>3, ValidateFacts DEF Went
  <2> QED
    BY <1>3, <2>1 DEF Went, Telling
<1>4. actions[i].kind \in Kinds
  BY SoundEntries DEF ActionOK
<1>5. CASE actions[i].kind = "table"
  <2>1. Compiled(i) = ValidateQueryString(CompiledTable(r, i), i)
    BY <1>5 DEF Compiled, Start
  <2>2. Gone(CompiledTable(r, i))
    <3> HIDE DEF Gone
    <3> QED
      BY <1>1, <1>2 DEF CompiledTable
  <2> QED
    BY <1>3, <2>1, <2>2
<1>6. CASE actions[i].kind = "operation"
  <2> DEFINE e == IF "columns" \in r.as[i].props /\ ~r.as[i].hasOutput THEN r.errors \cup {"columns"} ELSE r.errors
             s == [r EXCEPT !.errors = e]
  <2>1. Compiled(i) = Apply(s, i)
    BY <1>6 DEF Compiled, CompiledOperation, Start
  <2> HIDE DEF e
  <2>2. DOMAIN s = RunFields /\ s.as = r.as /\ s.moved = r.moved
    BY <1>0 DEF RunFields
  <2> HIDE DEF s
  <2>3. Gone(s)
    BY <1>0, <1>1, <2>2, StayedWent DEF Telling
  <2> QED
    BY <1>2, <2>1, <2>3
<1>7. CASE actions[i].kind = "assertion"
  <2>1. Compiled(i) = ValidateQueryString(Apply(r, i), i)
    BY <1>7 DEF Compiled, Start
  <2>2. Gone(ValidateQueryString(Apply(r, i), i))
    <3> HIDE DEF Gone
    <3> QED
      BY <1>1, <1>2, <1>3
  <2> QED
    BY <2>1, <2>2
<1>8. CASE actions[i].kind = "declaration"
  <2>1. Compiled(i) = r
    BY <1>8 DEF Compiled, Start
  <2> QED
    BY <1>1, <2>1
<1> QED
  BY <1>4, <1>5, <1>6, <1>7, <1>8 DEF Kinds

-----------------------------------------------------------------------------
(* What Expanded() comes to is closed: a round that has found no more      *)
(* inline tables than the one before adds nothing.                         *)
FoundInlines(xs, refs) == {j \in DOMAIN xs : Inline(xs, j) /\ \E r \in refs : FindActions(xs, r) = {j}}
ClosedRefs(xs, refs) == \A r \in refs : Through(xs, r) \subseteq refs
LEMMA RoundsFindInlines ==
  ASSUME NEW xs, NEW refs, NEW wider, refs \subseteq wider, \A r \in refs : Through(xs, r) \subseteq wider,
         \A x \in wider : x \in refs \/ \E r \in refs : x \in Through(xs, r)
  PROVE  /\ FoundInlines(xs, refs) \subseteq FoundInlines(xs, wider)
         /\ ClosedRefs(xs, refs) => wider = refs
         /\ FoundInlines(xs, refs) = FoundInlines(xs, wider) => ClosedRefs(xs, wider)
<1>1. FoundInlines(xs, refs) \subseteq FoundInlines(xs, wider)
  BY DEF FoundInlines
<1>2. ClosedRefs(xs, refs) => wider = refs
  BY DEF ClosedRefs
<1>3. ASSUME FoundInlines(xs, refs) = FoundInlines(xs, wider), NEW r \in wider, NEW x \in Through(xs, r)
      PROVE  x \in wider
  <2>1. PICK j \in DOMAIN xs : /\ Inline(xs, j) /\ FindActions(xs, r) = {j}
                              /\ x \in xs[j].dependencyTargets
    BY <1>3 DEF Through
  <2>2. j \in FoundInlines(xs, refs)
    BY <1>3, <2>1 DEF FoundInlines
  <2>3. PICK q \in refs : FindActions(xs, q) = {j}
    BY <2>2 DEF FoundInlines
  <2>4. x \in Through(xs, q)
    BY <2>1, <2>3 DEF Through
  <2> QED
    BY <2>4
<1> QED
  BY <1>1, <1>2, <1>3 DEF ClosedRefs

LEMMA ExpandedIsClosed ==
  ASSUME NEW xs, IsList(xs), NEW i \in DOMAIN xs, NEW refs, refs = xs[i].dependencyTargets
  PROVE  refs \subseteq Expanded(xs, refs) /\ ClosedRefs(xs, Expanded(xs, refs))
<1>a. PICK all : all = refs \cup UNION {xs[k].dependencyTargets : k \in DOMAIN xs}
  OBVIOUS
<1>f. PICK f : f = [r \in all |-> Through(xs, r)]
  OBVIOUS
<1>l. PICK last : last = Len(xs)
  OBVIOUS
<1>1. last \in Nat /\ DOMAIN xs = 1..last
  BY <1>l, ListFacts
<1>2. Expanded(xs, refs) = Reached(f, refs, last)
  BY <1>a, <1>f, <1>l DEF Expanded
<1>w. PICK w : AreRounds(w, f, refs, last)
  BY <1>1, ReachedRounds
<1>3. /\ w[0] = refs /\ \A n \in 1..last : w[n] = Wider(f, w[n - 1])
      /\ Expanded(xs, refs) = w[last]
  BY <1>2, <1>w DEF AreRounds
<1>4. \A r \in all : f[r] = Through(xs, r) /\ Through(xs, r) \subseteq all
  BY <1>a, <1>f DEF Through
<1>5. refs \subseteq all /\ DOMAIN f = all
  BY <1>a, <1>f
<1>6. ASSUME NEW S, S \subseteq DOMAIN xs
      PROVE  IsFiniteSet(S) /\ Cardinality(S) \in Nat /\ Cardinality(S) <= last
  <2>1. IsFiniteSet(1..last) /\ Cardinality(1..last) = last
    BY <1>1, FS_Interval
  <2> QED
    BY <1>1, <1>6, <2>1, FS_Subset, FS_CardinalityType
<1> DEFINE J(S) == FoundInlines(xs, S)
           T == {n \in 0..last : /\ w[n] \subseteq all /\ refs \subseteq w[n]
                                 /\ ClosedRefs(xs, w[n]) \/ Cardinality(J(w[n])) >= n + 1}
<1>7. \A S : J(S) \subseteq DOMAIN xs /\ IsFiniteSet(J(S)) /\ Cardinality(J(S)) \in Nat
  BY <1>6 DEF FoundInlines
<1>8. 0 \in T
  <2>1. ClosedRefs(xs, refs) \/ Cardinality(J(refs)) >= 1
    <3>1. CASE J(refs) = {}
      BY <3>1 DEF FoundInlines, ClosedRefs, Through
    <3>2. CASE J(refs) # {}
      <4>1. Cardinality(J(refs)) # 0
        BY <1>7, <3>2, FS_EmptySet
      <4> HIDE DEF J
      <4> QED
        BY <1>7, <4>1
    <3> QED
      BY <3>1, <3>2
  <2> HIDE DEF J
  <2> QED
    BY <1>1, <1>3, <1>5, <2>1
<1>9. ASSUME NEW n \in 1..last, n - 1 \in T PROVE n \in T
  <2>s. PICK S : S = w[n - 1]
    OBVIOUS
  <2>v. PICK V : V = w[n]
    OBVIOUS
  <2>1. /\ V = Wider(f, S) /\ S \subseteq all /\ refs \subseteq S
        /\ ClosedRefs(xs, S) \/ Cardinality(J(S)) >= n
    BY <1>3, <1>9, <2>s, <2>v
  <2>2. /\ V \subseteq all /\ S \subseteq V /\ \A r \in S : Through(xs, r) \subseteq V
        /\ \A x \in V : x \in S \/ \E r \in S : x \in Through(xs, r)
    BY <1>4, <1>5, <2>1 DEF Wider
  <2>3. /\ J(S) \subseteq J(V) /\ (ClosedRefs(xs, S) => V = S)
        /\ J(S) = J(V) => ClosedRefs(xs, V)
    BY <2>2, RoundsFindInlines
  <2> HIDE DEF J
  <2>4. ClosedRefs(xs, V) \/ Cardinality(J(V)) >= n + 1
    <3>1. CASE ClosedRefs(xs, S) \/ J(S) = J(V)
      BY <2>3, <3>1
    <3>2. CASE ~ClosedRefs(xs, S) /\ J(S) # J(V)
      <4>1. Cardinality(J(S)) <= Cardinality(J(V)) /\ Cardinality(J(S)) # Cardinality(J(V))
        BY <1>7, <2>3, <3>2, FS_Subset
      <4> QED
        BY <1>7, <2>1, <3>2, <4>1
    <3> QED
      BY <3>1, <3>2
  <2> QED
    BY <2>1, <2>2, <2>4, <2>v
<1> HIDE DEF T
<1>10. last \in T
  BY <1>1, <1>8, <1>9, UpTo
<1>11. refs \subseteq w[last] /\ (ClosedRefs(xs, w[last]) \/ Cardinality(J(w[last])) >= last + 1)
  BY <1>10 DEF T
<1>12. Cardinality(J(w[last])) \in Nat /\ Cardinality(J(w[last])) <= last
  BY <1>6, <1>7
<1> HIDE DEF J
<1>13. ~(Cardinality(J(w[last])) >= last + 1)
  BY <1>1, <1>12
<1> QED
  BY <1>3, <1>11, <1>13

(* Where every dependency is on one action, what a text names is the final *)
(* name of a qualified dependency: by way of inline tables there is a list *)
(* of references that is closed, each explained by what Expanded() has.    *)
LEMMA TextIsAttributed ==
  ASSUME NEW xs, IsList(xs), Explained(xs), NEW i \in DOMAIN xs, QualifyErrors(xs, i) = {}
  PROVE  \E X : /\ Closing(xs[i].text, X)
                /\ \A n \in NamesOf(X) : \E k \in DOMAIN xs :
                     /\ xs[k].target \in Qualified(xs, i)
                     /\ ~Inline(xs, k) /\ n = FinalName(xs, k)
<1>e. PICK refs : refs = Expanded(xs, xs[i].dependencyTargets)
  OBVIOUS
<1>x. PICK X : X = {x \in UNION {Refs(xs[k].text) : k \in DOMAIN xs} : \E ref \in refs : Explains(xs, ref, x)}
  OBVIOUS
<1>1. xs[i].dependencyTargets \subseteq refs /\ ClosedRefs(xs, refs)
  BY <1>e, ExpandedIsClosed
<1>2. ASSUME NEW ref \in refs
      PROVE  \E k \in DOMAIN xs : FindActions(xs, ref) = {k} /\ First(FindActions(xs, ref)) = k
  <2>1. Cardinality(FindActions(xs, ref)) = 1
    BY <1>e DEF QualifyErrors
  <2> QED
    BY <2>1, FoundAlone
<1>3. ASSUME NEW k \in DOMAIN xs, xs[k].dependencyTargets \subseteq refs PROVE Refs(xs[k].text) \subseteq X
  <2> SUFFICES ASSUME NEW x \in Refs(xs[k].text) PROVE x \in X
    OBVIOUS
  <2>1. PICK ref \in xs[k].dependencyTargets : Explains(xs, ref, x)
    BY DEF Explained
  <2> QED
    BY <1>3, <1>x, <2>1
<1>4. ASSUME NEW r \in X
      PROVE  \E ref \in refs : \E k \in DOMAIN xs :
               /\ FindActions(xs, ref) = {k} /\ First(FindActions(xs, ref)) = k /\ ResolvedTo(xs, k, r)
  <2>1. PICK ref \in refs : Explains(xs, ref, r)
    BY <1>x
  <2>2. PICK k \in DOMAIN xs : FindActions(xs, ref) = {k} /\ First(FindActions(xs, ref)) = k
    BY <1>2
  <2> QED
    BY <2>1, <2>2 DEF Explains
<1>5. ASSUME NEW r \in X, r[1] = "text" PROVE Refs(r[2]) \subseteq X
  <2>1. PICK ref \in refs : \E k \in DOMAIN xs :
          FindActions(xs, ref) = {k} /\ First(FindActions(xs, ref)) = k /\ ResolvedTo(xs, k, r)
    BY <1>4
  <2>2. PICK k \in DOMAIN xs : FindActions(xs, ref) = {k} /\ ResolvedTo(xs, k, r)
    BY <2>1
  <2>3. Inline(xs, k) /\ Refs(r[2]) \subseteq Refs(xs[k].text)
    BY <1>5, <2>2 DEF ResolvedTo
  <2>4. xs[k].dependencyTargets \subseteq refs
    <3>1. xs[k].dependencyTargets \subseteq Through(xs, ref)
      BY <2>2, <2>3 DEF Through
    <3> QED
      BY <1>1, <3>1 DEF ClosedRefs
  <2> QED
    BY <1>3, <2>3, <2>4
<1>6. ASSUME NEW n \in NamesOf(X)
      PROVE  \E k \in DOMAIN xs : /\ xs[k].target \in Qualified(xs, i)
                                  /\ ~Inline(xs, k) /\ n = FinalName(xs, k)
  <2>1. PICK r \in X : r[1] = "name" /\ n = r[2]
    BY DEF NamesOf
  <2>2. PICK ref \in refs : \E k \in DOMAIN xs :
          FindActions(xs, ref) = {k} /\ First(FindActions(xs, ref)) = k /\ ResolvedTo(xs, k, r)
    BY <1>4
  <2>3. PICK k \in DOMAIN xs :
          FindActions(xs, ref) = {k} /\ First(FindActions(xs, ref)) = k /\ ResolvedTo(xs, k, r)
    BY <2>2
  <2>4. ~Inline(xs, k) /\ n = FinalName(xs, k)
    BY <2>1, <2>3 DEF ResolvedTo
  <2>5. Cardinality(FindActions(xs, ref)) = 1
    BY <1>e DEF QualifyErrors
  <2>6. xs[k].target \in Qualified(xs, i)
    BY <1>e, <2>3, <2>4, <2>5 DEF Qualified
  <2> QED
    BY <2>4, <2>6
<1> QED
  BY <1>1, <1>3, <1>5, <1>6 DEF Closing

(* Without a prefix and a suffix a name stays as it is.                    *)
LEMMA JoinedToNothing == ASSUME NEW p, IsList(p) PROVE p \o <<>> = p /\ <<>> \o p = p
<1>1. PICK S : p \in Seq(S)
  BY DEF IsList
<1> QED
  BY <1>1

LEMMA RenamedByNothing ==
  ASSUME NEW t, NameOK(t), config.prefix = <<>>, config.suffix = <<>>
  PROVE  Renamed(t) = t
<1>1. t.database \o <<>> = t.database /\ t.schema \o <<>> = t.schema /\ <<>> \o t.name = t.name
  BY JoinedToNothing DEF NameOK
<1>2. Renamed(t) = [database |-> t.database, schema |-> t.schema, name |-> t.name]
  BY <1>1 DEF Renamed
<1>3. t = [database |-> t.database, schema |-> t.schema, name |-> t.name]
  BY DEF NameOK
<1> QED
  BY <1>2, <1>3

Inner(X) == UNION {Refs(r[2]) : r \in {x \in X : x[1] = "text"}}

(* What a text names is in a closed set of references that has the text's. *)
LEMMA NamedAreInside ==
  ASSUME IsList(actions), NEW text, NEW X, Closing(text, X)
  PROVE  Named(text) \subseteq NamesOf(X)
<1>l. PICK last : last = Len(actions)
  OBVIOUS
<1>0. last \in Nat
  BY <1>l, ListFacts
<1> DEFINE Is(f, k) == f = [n \in 0..k |->
                             IF n = 0 THEN Refs(text)
                             ELSE Inner(f[n - 1])]
           c == CHOOSE f : Is(f, last)
<1>1. Named(text) = {r[2] : r \in {x \in UNION {c[n] : n \in DOMAIN c} : x[1] = "name"}}
  BY <1>l DEF Named, Refs, Inner
<1>2. \A k \in 0..last : \E f : Is(f, k)
  <2> DEFINE T == {k \in 0..last : \E f : Is(f, k)}
  <2>1. 0 \in T
    <3>1. Is([n \in 0..0 |-> Refs(text)], 0)
      OBVIOUS
    <3>2. 0 \in 0..last
      BY <1>0
    <3> HIDE DEF Is
    <3> QED
      BY <3>1, <3>2
  <2>2. ASSUME NEW k \in 1..last, k - 1 \in T PROVE k \in T
    <3>1. PICK f : Is(f, k - 1)
      BY <2>2
    <3>s. PICK next : next = Inner(f[k - 1])
      OBVIOUS
    <3>g. PICK g : g = [n \in 0..k |-> IF n = k THEN next ELSE f[n]]
      OBVIOUS
    <3>2. \A n \in 0..k : (n = k \/ n \in 0..(k - 1)) /\ (n # 0 => n - 1 \in 0..(k - 1) /\ n - 1 # k)
      BY <1>0
    <3>3. \A n \in 0..(k - 1) : n \in 0..k /\ n # k
      BY <1>0
    <3>4. /\ \A n \in 0..(k - 1) : g[n] = f[n] /\ g[k] = next /\ k # 0
      BY <1>0, <3>3, <3>g
    <3>5. \A n \in 0..(k - 1) :
            f[n] = IF n = 0 THEN Refs(text)
                   ELSE Inner(f[n - 1])
      BY <3>1
    <3>6. \A n \in 0..k :
            g[n] = IF n = 0 THEN Refs(text)
                   ELSE Inner(g[n - 1])
      BY <3>2, <3>3, <3>4, <3>5, <3>s, <1>0
    <3>7. Is(g, k)
      BY <3>6, <3>g
    <3> HIDE DEF Is
    <3> QED
      BY <1>0, <3>7
  <2> HIDE DEF T
  <2>3. \A k \in 0..last : k \in T
    BY <1>0, <2>1, <2>2, UpTo
  <2> QED
    BY <2>3 DEF T
<1>3. Is(c, last)
  <2> HIDE DEF Is
  <2> QED
    BY <1>0, <1>2
<1>4. DOMAIN c = 0..last /\ \A n \in 0..last :
        c[n] = IF n = 0 THEN Refs(text)
               ELSE Inner(c[n - 1])
  <2> HIDE DEF c
  <2> QED
    BY <1>3
<1> HIDE DEF c, Is
<1> DEFINE U == {n \in 0..last : c[n] \subseteq X}
<1>5. 0 \in U
  <2>1. 0 \in 0..last /\ c[0] = Refs(text)
    BY <1>0, <1>4
  <2> QED
    BY <2>1 DEF Closing
<1>6. ASSUME NEW n \in 1..last, n - 1 \in U PROVE n \in U
  <2>1. n # 0 /\ n \in 0..last
    BY <1>0
  <2>2. c[n] = Inner(c[n - 1])
    BY <1>4, <2>1
  <2> QED
    BY <1>6, <2>1, <2>2 DEF Closing, Inner
<1> HIDE DEF U
<1>7. \A n \in 0..last : n \in U
  BY <1>0, <1>5, <1>6, UpTo
<1>8. \A n \in DOMAIN c : c[n] \subseteq X
  BY <1>4, <1>7 DEF U
<1> QED
  BY <1>1, <1>8 DEF NamesOf

-----------------------------------------------------------------------------
(* Every step keeps what is known of the texts.                            *)
LEMMA InitTells == SessionInit => TextInv
BY DEF SessionInit, TextInv, Plain, Silent

LEMMA DefineTells ==
  ASSUME PlainQueries, SessionInv, TextInv, NEW src \in Sources, SqlxAction(src) PROVE TextInv'
<1>1. /\ phase = "define" /\ phase' = phase /\ actions' = Defined(src) /\ src.type # "test"
  BY DEF SqlxAction, CanStep
<1>2. config \in ProjectConfigs /\ Sound(actions, moved)
  BY <1>1 DEF SessionInv
<1>3. Plain(Defined(src)) /\ Silent(Defined(src))
  BY <1>1, <1>2, DefinedIsPlain DEF TextInv
<1>4. Plain(actions)' /\ Silent(actions)'
  BY <1>1, <1>3 DEF Plain, Silent
<1> QED
  BY <1>1, <1>4 DEF TextInv

LEMMA CallTells ==
  ASSUME SessionInv, TextInv, NEW i \in DOMAIN actions, NEW c \in LateCalls, Call(i, c) PROVE TextInv'
<1>1. /\ phase = "define" /\ phase' = phase /\ actions' = Called(i, c)
      /\ c[1] \in CallsOf(actions[i].kind)
  BY DEF Call, CanStep
<1>2. config \in ProjectConfigs /\ Typed(actions) /\ Plain(actions) /\ Silent(actions)
  BY <1>1 DEF SessionInv, Sound, TextInv
<1>y. PICK ys : ys = Called(i, c)
  OBVIOUS
<1>3. PICK type : /\ Calm(actions, i, type, ys)
                  /\ type # "" => actions[i].kind = "table" /\ (type = "inline" => ~NoneLateInline)
  BY <1>1, <1>2, <1>y, CalledIsCalm
<1>4. Plain(ys) /\ Silent(ys)
  BY <1>2, <1>3, CalmIsPlain, CalmIsSilent
<1>5. Plain(actions)' /\ Silent(actions)'
  BY <1>1, <1>4, <1>y DEF Plain, Silent
<1> QED
  BY <1>1, <1>5 DEF TextInv

LEMMA StartCompileTells == TextInv /\ StartCompile => TextInv'
<1> SUFFICES ASSUME TextInv, StartCompile PROVE TextInv'
  OBVIOUS
<1>1. /\ phase = "define" /\ phase' = "compile" /\ actions' = actions /\ moved' = moved /\ config' = config
  BY DEF StartCompile
<1>2. Plain(actions) /\ Explained(actions)
  BY <1>1, NothingSaid DEF TextInv, Silent, Explained
<1>3. Plain(actions)' <=> Plain(actions)
  BY <1>1 DEF Plain
<1>4. Explained(actions)' <=> Explained(actions)
  BY <1>1 DEF Explained, Explains, ResolvedTo, FinalName, Renamed, Inline
<1> QED
  BY <1>1, <1>2, <1>3, <1>4 DEF TextInv

LEMMA CompileActionTells == SessionInv /\ TextInv /\ CompileAction => TextInv'
<1> SUFFICES ASSUME SessionInv, TextInv, CompileAction PROVE TextInv'
  OBVIOUS
<1>1. /\ phase = "compile" /\ phase' = phase /\ config' = config
      /\ \E k \in {"table", "operation", "assertion", "declaration"} : Waiting(k) # {}
  BY DEF CompileAction
<1>2. /\ config \in ProjectConfigs /\ Sound(actions, moved) /\ Plain(actions)
      /\ moved = {} => Explained(actions)
  BY <1>1 DEF SessionInv, TextInv
<1>3. NextToCompile \in DOMAIN actions
  BY <1>1, <1>2, NextIsWaiting
<1>r. PICK r : r = Compiled(NextToCompile)
  OBVIOUS
<1>4. actions' = r.as /\ moved' = r.moved
  BY <1>r DEF CompileAction
<1>5. Plain(r.as) /\ (r.moved = {} => Explained(r.as))
  BY <1>2, <1>3, <1>r, CompiledIsTelling DEF Telling
<1>6. Plain(actions)' <=> Plain(r.as)
  BY <1>4 DEF Plain
<1>7. Explained(actions)' <=> Explained(r.as)
  BY <1>1, <1>4 DEF Explained, Explains, ResolvedTo, FinalName, Renamed, Inline
<1> QED
  BY <1>1, <1>4, <1>5, <1>6, <1>7 DEF TextInv

LEMMA ChunksDoneTells == TextInv /\ ChunksDone => TextInv'
<1> SUFFICES ASSUME TextInv, ChunksDone PROVE TextInv'
  OBVIOUS
<1>1. /\ phase = "compile" /\ phase' = "qualify" /\ actions' = actions /\ moved' = moved /\ config' = config
  BY DEF ChunksDone
<1>2. Plain(actions) /\ (moved = {} => Explained(actions))
  BY <1>1 DEF TextInv
<1>3. Plain(actions)' <=> Plain(actions)
  BY <1>1 DEF Plain
<1>4. Explained(actions)' <=> Explained(actions)
  BY <1>1 DEF Explained, Explains, ResolvedTo, FinalName, Renamed, Inline
<1> QED
  BY <1>1, <1>2, <1>3, <1>4 DEF TextInv

LEMMA QualifyTells == SessionInv /\ TextInv /\ FullyQualifyDependencies => TextInv'
<1> SUFFICES ASSUME SessionInv, TextInv, FullyQualifyDependencies PROVE TextInv'
  OBVIOUS
<1>1. /\ phase = "qualify" /\ config' = config /\ compiled' = compiled /\ moved' = moved
      /\ phase' \in {"endless", "alter"}
  BY DEF FullyQualifyDependencies
<1>2. /\ Sound(actions, moved) /\ compiled \cup thrown = DOMAIN actions
      /\ moved = {} => Explained(actions)
  BY <1>1 DEF SessionInv, TextInv
<1>3. SUFFICES ASSUME phase' = "alter", graphErrors' = {}, moved = {} PROVE Attributed'
  BY <1>1 DEF TextInv
<1> DEFINE ys == [i \in DOMAIN actions |->
                    IF i \in Graph THEN [actions[i] EXCEPT !.dependencyTargets = Qualified(actions, i)]
                    ELSE actions[i]]
<1>4. /\ actions' = ys
      /\ graphErrors' = graphErrors \cup UNION {QualifyErrors(actions, i) : i \in Graph}
  BY <1>3 DEF FullyQualifyDependencies
<1>5. IsList(actions) /\ \A i \in DOMAIN actions : ActionOK(actions[i])
  BY <1>2 DEF Sound, Typed
<1>6. /\ DOMAIN ys = DOMAIN actions
      /\ \A i \in DOMAIN actions :
           ys[i] = IF i \in Graph THEN [actions[i] EXCEPT !.dependencyTargets = Qualified(actions, i)]
                   ELSE actions[i]
  OBVIOUS
<1> HIDE DEF ys
<1>7. ASSUME NEW i \in DOMAIN actions
      PROVE  /\ ys[i].kind = actions[i].kind /\ ys[i].type = actions[i].type
             /\ ys[i].target = actions[i].target /\ ys[i].text = actions[i].text
             /\ i \in Graph => ys[i].dependencyTargets = Qualified(actions, i)
  <2>n. PICK new : new = Qualified(actions, i)
    OBVIOUS
  <2>1. CASE i \in Graph
    <3>1. ys[i] = [actions[i] EXCEPT !.dependencyTargets = new] /\ ActionOK(actions[i])
      BY <1>5, <1>6, <2>1, <2>n
    <3> QED
      BY <2>n, <3>1 DEF ActionOK, ActionFields
  <2>2. CASE i \notin Graph
    BY <1>6, <2>2
  <2> QED
    BY <2>1, <2>2
<1>8. Graph \subseteq DOMAIN actions /\ Graph' = Graph
  <2>1. Graph \subseteq compiled /\ compiled \subseteq DOMAIN actions
    BY <1>2 DEF Graph, Of
  <2>2. \A i \in compiled : actions'[i].kind = actions[i].kind
    BY <1>4, <1>7, <2>1
  <2> QED
    BY <1>1, <2>1, <2>2 DEF Graph, Of
<1>9. ASSUME NEW i \in Graph
      PROVE  \E X : /\ Closing(ys[i].text, X)
                    /\ \A n \in NamesOf(X) : \E k \in DOMAIN ys :
                         /\ ys[k].target \in ys[i].dependencyTargets
                         /\ ~Inline(ys, k) /\ n = FinalName(ys, k)
  <2>1. QualifyErrors(actions, i) = {} /\ i \in DOMAIN actions
    BY <1>3, <1>4, <1>8
  <2>2. PICK X : /\ Closing(actions[i].text, X)
                 /\ \A n \in NamesOf(X) : \E k \in DOMAIN actions :
                      /\ actions[k].target \in Qualified(actions, i)
                      /\ ~Inline(actions, k) /\ n = FinalName(actions, k)
    BY <1>2, <1>3, <1>5, <2>1, TextIsAttributed
  <2>3. \A k \in DOMAIN actions : Inline(ys, k) = Inline(actions, k) /\ FinalName(ys, k) = FinalName(actions, k)
    BY <1>7 DEF Inline, FinalName
  <2>4. ys[i].text = actions[i].text /\ ys[i].dependencyTargets = Qualified(actions, i)
    BY <1>7, <2>1
  <2>5. ASSUME NEW n \in NamesOf(X)
        PROVE  \E k \in DOMAIN ys : /\ ys[k].target \in ys[i].dependencyTargets
                                    /\ ~Inline(ys, k) /\ n = FinalName(ys, k)
    <3>1. PICK k \in DOMAIN actions : /\ actions[k].target \in Qualified(actions, i)
                                     /\ ~Inline(actions, k) /\ n = FinalName(actions, k)
      BY <2>2
    <3>2. ys[k].target = actions[k].target
      BY <1>7
    <3> QED
      BY <1>6, <2>3, <2>4, <3>1, <3>2
  <2> QED
    BY <2>2, <2>4, <2>5
<1>10. Attributed' <=> \A i \in Graph : \E X :
          /\ Closing(ys[i].text, X)
          /\ \A n \in NamesOf(X) : \E k \in DOMAIN ys :
               /\ ys[k].target \in ys[i].dependencyTargets
               /\ ~Inline(ys, k) /\ n = FinalName(ys, k)
  BY <1>1, <1>4, <1>8 DEF Attributed, FinalName, Renamed, Inline
<1> QED
  BY <1>9, <1>10

LEMMA AlterTells == SessionInv /\ TextInv /\ AlterActionName => TextInv'
<1> SUFFICES ASSUME SessionInv, TextInv, AlterActionName PROVE TextInv'
  OBVIOUS
<1>1. /\ phase = "alter" /\ config' = config /\ compiled' = compiled /\ moved' = moved
      /\ graphErrors' = graphErrors /\ phase' \in {"check", "crashed"}
  BY DEF AlterActionName
<1>2. /\ Sound(actions, moved) /\ Aimed /\ compiled \cup thrown = DOMAIN actions
      /\ config \in ProjectConfigs /\ (thrown # {} => "thrown" \in graphErrors)
  BY <1>1 DEF SessionInv
<1>3. SUFFICES ASSUME graphErrors = {}, moved = {} PROVE Told'
  BY <1>1 DEF TextInv
<1>4. Attributed /\ compiled = DOMAIN actions
  BY <1>1, <1>2, <1>3 DEF TextInv
<1>5. IsList(actions) /\ \A i \in DOMAIN actions : ActionOK(actions[i])
  BY <1>2 DEF Sound, Typed
<1>6. Graph \subseteq DOMAIN actions /\ \A k \in DOMAIN actions : k \in Graph <=> actions[k].kind # "declaration"
  BY <1>4 DEF Graph, Of
<1>7. CASE config.prefix = <<>> /\ config.suffix = <<>>
  <2>1. actions' = actions
    BY <1>7 DEF AlterActionName
  <2>2. \A k \in DOMAIN actions : FinalName(actions, k) = actions[k].target
    BY <1>5, <1>7, RenamedByNothing DEF ActionOK, FinalName
  <2>3. Told
    BY <1>4, <2>2 DEF Attributed, Told
  <2> QED
    BY <1>1, <2>1, <2>3 DEF Told, Graph, Of
<1>8. CASE ~(config.prefix = <<>> /\ config.suffix = <<>>)
  <2> DEFINE ys == [i \in DOMAIN actions |-> IF i \in Graph THEN Altered(i) ELSE actions[i]]
  <2>1. actions' = ys
    BY <1>8 DEF AlterActionName
  <2>2. \A i \in DOMAIN actions : ys[i] = IF i \in Graph THEN Altered(i) ELSE actions[i]
    OBVIOUS
  <2> HIDE DEF ys
  <2>3. ASSUME NEW i \in Graph
        PROVE  /\ ys[i].kind = actions[i].kind /\ ys[i].text = actions[i].text
               /\ ys[i].dependencyTargets = {NewTarget(t) : t \in actions[i].dependencyTargets}
    <3>1. ys[i] = Altered(i) /\ ActionOK(actions[i])
      BY <1>5, <1>6, <2>2
    <3> DEFINE new == {NewTarget(t) : t \in actions[i].dependencyTargets}
               parent == IF actions[i].parentAction = NoTarget THEN actions[i].parentAction
                         ELSE NewTarget(actions[i].parentAction)
    <3>2. ys[i] = [actions[i] EXCEPT !.target = Renamed(@), !.dependencyTargets = new, !.parentAction = parent]
      BY <3>1 DEF Altered
    <3> HIDE DEF new, parent
    <3>3. ys[i].kind = actions[i].kind /\ ys[i].text = actions[i].text /\ ys[i].dependencyTargets = new
      BY <3>1, <3>2 DEF ActionOK, ActionFields
    <3> QED
      BY <3>3 DEF new
  <2>4. Graph' = Graph
    <3>1. \A i \in compiled : actions'[i].kind = actions[i].kind
      <4>1. \A i \in DOMAIN actions : i \notin Graph => ys[i] = actions[i]
        BY <2>2
      <4> QED
        BY <1>4, <2>1, <2>3, <4>1
    <3> QED
      BY <1>1, <3>1 DEF Graph, Of
  <2>5. ASSUME NEW i \in Graph, NEW k \in DOMAIN actions, actions[k].target \in actions[i].dependencyTargets
        PROVE  NewTarget(actions[k].target) = FinalName(actions, k)
    <3>t. PICK t : t = actions[k].target
      OBVIOUS
    <3>1. CASE k \in Graph
      <4>1. FinalName(actions, k) = Renamed(t)
        BY <1>6, <3>1, <3>t DEF FinalName
      <4>2. NewTarget(t) = Renamed(t)
        BY <3>1, <3>t DEF NewTarget
      <4> QED
        BY <3>t, <4>1, <4>2
    <3>2. CASE k \notin Graph
      <4>1. FinalName(actions, k) = t
        BY <1>6, <3>2, <3>t DEF FinalName
      <4>2. TargetOfOne(actions, t)
        BY <1>2, <2>5, <3>t DEF Aimed
      <4>3. \A j \in DOMAIN actions : actions[j].target = t => j = k
        BY <3>t, <4>2 DEF TargetOfOne
      <4>4. t \notin {actions[j].target : j \in Graph} /\ t \in KnownTargets
        BY <1>4, <1>6, <3>2, <3>t, <4>3 DEF KnownTargets
      <4>5. NewTarget(t) = t
        BY <4>4 DEF NewTarget
      <4> QED
        BY <3>t, <4>1, <4>5
    <3> QED
      BY <3>1, <3>2
  <2>6. ASSUME NEW i \in Graph
        PROVE  \E X : Closing(ys[i].text, X) /\ NamesOf(X) \subseteq ys[i].dependencyTargets
    <3>1. PICK X : /\ Closing(actions[i].text, X)
                   /\ \A n \in NamesOf(X) : \E k \in DOMAIN actions :
                        /\ actions[k].target \in actions[i].dependencyTargets
                        /\ ~Inline(actions, k) /\ n = FinalName(actions, k)
      BY <1>4 DEF Attributed
    <3>2. ASSUME NEW n \in NamesOf(X) PROVE n \in ys[i].dependencyTargets
      <4>1. PICK k \in DOMAIN actions : /\ actions[k].target \in actions[i].dependencyTargets
                                       /\ n = FinalName(actions, k)
        BY <3>1
      <4>2. n = NewTarget(actions[k].target)
        BY <2>5, <4>1
      <4> QED
        BY <2>3, <4>1, <4>2
    <3>3. ys[i].text = actions[i].text
      BY <2>3
    <3> QED
      BY <3>1, <3>2, <3>3
  <2> QED
    BY <2>1, <2>4, <2>6 DEF Told
<1> QED
  BY <1>7, <1>8

LEMMA CheckTells == TextInv /\ Check => TextInv'
<1> SUFFICES ASSUME TextInv, Check PROVE TextInv'
  OBVIOUS
<1>1. /\ phase = "check" /\ phase' = "compiled" /\ actions' = actions /\ moved' = moved
      /\ compiled' = compiled /\ graphErrors \subseteq graphErrors'
  BY DEF Check
<1>2. Told => Told'
  BY <1>1 DEF Told, Graph, Of
<1> QED
  BY <1>1, <1>2 DEF TextInv

LEMMA TextStays == TextInv /\ UNCHANGED GraphVars => TextInv'
<1> SUFFICES ASSUME TextInv, UNCHANGED GraphVars PROVE TextInv'
  OBVIOUS
<1>1. /\ config' = config /\ actions' = actions /\ graphErrors' = graphErrors /\ compiled' = compiled
      /\ phase' = phase /\ moved' = moved
  BY DEF GraphVars
<1>2. Plain(actions)' <=> Plain(actions)
  BY <1>1 DEF Plain
<1>3. Silent(actions)' <=> Silent(actions)
  BY <1>1 DEF Silent
<1>4. Explained(actions)' <=> Explained(actions)
  BY <1>1 DEF Explained, Explains, ResolvedTo, FinalName, Renamed, Inline
<1>5. Attributed' <=> Attributed
  BY <1>1 DEF Attributed, FinalName, Renamed, Inline, Graph, Of
<1>6. Told' <=> Told
  BY <1>1 DEF Told, Graph, Of
<1> QED
  BY <1>1, <1>2, <1>3, <1>4, <1>5, <1>6 DEF TextInv

LEMMA TextProgresses ==
  PlainQueries /\ SessionInv /\ TextInv /\ [PruneNext]_projectVars => TextInv'
<1> SUFFICES ASSUME PlainQueries, SessionInv, TextInv, [PruneNext]_projectVars PROVE TextInv'
  OBVIOUS
<1>1. ASSUME NEW src \in Sources, SqlxTest(src) PROVE TextInv'
  <2>1. phase' = phase /\ phase = "define" /\ actions' = actions
    BY <1>1 DEF SqlxTest, CanStep
  <2>2. (Plain(actions)' <=> Plain(actions)) /\ (Silent(actions)' <=> Silent(actions))
    BY <2>1 DEF Plain, Silent
  <2> QED
    BY <2>1, <2>2 DEF TextInv
<1>2. SessionNext => TextInv'
  BY <1>1, DefineTells, CallTells, StartCompileTells, CompileActionTells, ChunksDoneTells,
     QualifyTells, AlterTells, CheckTells DEF SessionNext
<1>3. [PruneNext]_projectVars => SessionNext \/ UNCHANGED GraphVars
  BY DEF PruneNext, projectVars, Select, WalkDependencies, StartDependents, WalkDependents,
         AddAutoAssertions, Build
<1> QED
  BY <1>2, <1>3, TextStays

LEMMA TextsAreTold == SessionInv /\ TextInv => TextNamesDependencies
<1> SUFFICES ASSUME SessionInv, TextInv, Clean, moved = {}, NEW i \in Graph
             PROVE  Named(actions[i].text) \subseteq actions[i].dependencyTargets
  BY DEF TextNamesDependencies
<1>1. Told /\ IsList(actions)
  BY DEF Clean, TextInv, SessionInv
<1>2. PICK X : Closing(actions[i].text, X) /\ NamesOf(X) \subseteq actions[i].dependencyTargets
  BY <1>1 DEF Told
<1> QED
  BY <1>1, <1>2, NamedAreInside

(* What the text of an action names by ref(), directly or in the text of   *)
(* an inline table, is in the end a dependency of the action under the     *)
(* name it then has: for every project whose queries are plain             *)
(* (table.ts:716-725, session.ts:213-260, session.ts:484-571).             *)
THEOREM TextsNameDependencies ==
  ASSUME PlainQueries PROVE Selection => []TextNamesDependencies
<1>1. Selection => []SessionInv
  BY SessionAlways
<1>2. PruneInit => TextInv
  BY InitTells DEF PruneInit
<1>3. SessionInv /\ TextInv /\ [PruneNext]_projectVars => TextInv'
  BY TextProgresses
<1>4. SessionInv /\ TextInv => TextNamesDependencies
  BY TextsAreTold
<1> QED
  BY <1>1, <1>2, <1>3, <1>4, PTL DEF Selection
-----------------------------------------------------------------------------
Downs == [n \in AllActionNames |-> DependenciesOf(n)]
Ups == [n \in AllActionNames |-> DependentsOf(n)]

(* S contains the names, and all that f leads to from it.                  *)
Closed(S, names, f) == names \subseteq S /\ \A n \in S : f[n] \subseteq S
Least(S, names, f) ==
  /\ S \subseteq AllActionNames /\ Closed(S, names, f)
  /\ \A V \in SUBSET AllActionNames : Closed(V, names, f) => S \subseteq V

(* Half way: nothing is included in vain, and what leads out of the set is *)
(* still in the queue.                                                     *)
Walking(names, f) ==
  /\ queue \in Seq(AllActionNames) /\ ToSet(queue) \subseteq included
  /\ included \subseteq AllActionNames /\ names \subseteq included
  /\ \A n \in included \ ToSet(queue) : f[n] \subseteq included
  /\ \A V \in SUBSET AllActionNames : Closed(V, names, f) => included \subseteq V

(* What a walk over f, if it is wanted, makes of the names.                *)
Walked(S, names, wanted, f) ==
  /\ S \subseteq AllActionNames
  /\ IF wanted THEN Least(S, names, f) ELSE S = names

SelectInv ==
  /\ IsFiniteSet(compiled)
  /\ pruning # "none" => phase = "compiled"
  /\ pruning = "dependencies" =>
       IF runConfig.includeDependencies THEN Walking(Selected(runConfig), Downs)
       ELSE included = Selected(runConfig)
  /\ pruning = "dependents" =>
       \E D : /\ Walked(D, Selected(runConfig), runConfig.includeDependencies, Downs)
              /\ IF runConfig.includeDependents THEN Walking(D, Ups) ELSE included = D
  /\ pruning \in {"pruned", "built"} /\ HasSelector(runConfig) =>
       \E D, B : /\ Walked(D, Selected(runConfig), runConfig.includeDependencies, Downs)
                 /\ Walked(B, D, runConfig.includeDependents, Ups)
                 /\ included = B \cup AutoAssertions(B)
-----------------------------------------------------------------------------
(* The elements of a finite set, as a sequence.                            *)
LEMMA SetToSeqElements ==
  ASSUME NEW S, IsFiniteSet(S)
  PROVE  SetToSeq(S) \in Seq(S) /\ ToSet(SetToSeq(S)) = S
<1> DEFINE n == Cardinality(S)
           q == SetToSeq(S)
<1>1. n \in Nat /\ ExistsBijection(1..n, S)
  BY FS_CardinalityType
<1>2. PICK f \in [1..n -> S] : f \in Bijection(1..n, S)
  BY <1>1 DEF ExistsBijection, Bijection, Surjection
<1>3. IsInjective(f)
  BY <1>2 DEF Bijection, Injection, IsInjective
<1>4. q \in [1..n -> S] /\ IsInjective(q)
  BY <1>3 DEF SetToSeq
<1>5. q \in Injection(1..n, S)
  BY <1>4 DEF Injection, IsInjective
<1>6. Cardinality(1..n) = n
  BY <1>1, FS_Interval
<1>7. q \in Surjection(1..n, S)
  BY <1>5, <1>6, FS_Injection
<1>8. q \in Seq(S)
  BY <1>1, <1>4
<1>9. ToSet(q) = S
  BY <1>4, <1>7 DEF ToSet, Surjection
<1> QED
  BY <1>8, <1>9

(* There are finitely many names, those selected among them.               *)
LEMMA FiniteNames == IsFiniteSet(compiled) => IsFiniteSet(AllActionNames)
<1> SUFFICES ASSUME IsFiniteSet(compiled) PROVE IsFiniteSet(AllActionNames)
  OBVIOUS
<1>1. IsFiniteSet(AllActions)
  <2>1. AllActions \in SUBSET compiled
    BY DEF AllActions, Graph
  <2> QED
    BY <2>1, FS_Subset
<1> DEFINE target == [i \in AllActions |-> actions[i].target]
<1>2. target \in Surjection(AllActions, AllActionNames)
  BY DEF Surjection, AllActionNames, Names
<1> HIDE DEF target
<1> QED
  BY <1>1, <1>2, FS_Surjection

LEMMA SelectedAreActions == ASSUME NEW rc PROVE Selected(rc) \subseteq AllActionNames
BY DEF Selected, MatchPatterns, MatchPattern, MatchesName, Names, AllActionNames

LEMMA StepsOfTheGraph ==
  /\ Downs \in [AllActionNames -> SUBSET AllActionNames]
  /\ Ups \in [AllActionNames -> SUBSET AllActionNames]
BY DEF Downs, Ups, DependenciesOf, DependentsOf, Names, AllActionNames

(* A walk begins with all names in its queue,                              *)
LEMMA WalkStarts ==
  ASSUME NEW names, NEW f, IsFiniteSet(names), names \subseteq AllActionNames,
         included = names, queue = SetToSeq(names)
  PROVE  Walking(names, f)
<1>1. queue \in Seq(names) /\ ToSet(queue) = names
  BY SetToSeqElements
<1>2. queue \in Seq(AllActionNames)
  BY <1>1
<1> QED
  BY <1>1, <1>2 DEF Walking, Closed

(* goes on until the queue is empty, in any order,                         *)
LEMMA WalkTurns ==
  ASSUME NEW names, NEW f, f \in [AllActionNames -> SUBSET AllActionNames],
         IsFiniteSet(AllActionNames), AllActionNames' = AllActionNames,
         Walking(names, f), queue # <<>>, Walk(f[Last(queue)])
  PROVE  Walking(names, f)'
<1> DEFINE n == Last(queue)
           new == f[n] \ included
<1>1. /\ queue \in Seq(AllActionNames) /\ Len(queue) \in Nat \ {0}
      /\ n = queue[Len(queue)] /\ n \in ToSet(queue)
  BY DEF Walking, Last, ToSet
<1>2. n \in included /\ n \in AllActionNames
  BY <1>1 DEF Walking
<1>3. new \subseteq AllActionNames
  BY <1>2
<1>4. SetToSeq(new) \in Seq(new) /\ ToSet(SetToSeq(new)) = new
  BY <1>3, FS_Subset, SetToSeqElements
<1>5. included' = included \cup new /\ queue' = Front(queue) \o SetToSeq(new)
  BY DEF Walk
<1>6. /\ Front(queue) \in Seq(AllActionNames) /\ Len(Front(queue)) = Len(queue) - 1
      /\ \A i \in 1..(Len(queue) - 1) : Front(queue)[i] = queue[i]
  <2> DEFINE m == Len(queue) - 1
  <2>1. m \in 0..Len(queue) /\ Front(queue) = SubSeq(queue, 1, m)
    BY <1>1 DEF Front
  <2>2. \A i \in 1..m : queue[i] \in AllActionNames
    BY <1>1
  <2>3. SubSeq(queue, 1, m) = [i \in 1..m |-> queue[i]]
    BY <1>1, <2>1
  <2> DEFINE g == [i \in 1..m |-> queue[i]]
  <2>4. /\ g \in [1..m -> AllActionNames] /\ \A i \in 1..m : g[i] = queue[i]
    BY <2>2
  <2>5. m \in Nat
    BY <2>1, <1>1
  <2> HIDE DEF g
  <2>6. g \in Seq(AllActionNames) /\ Len(g) = m
    BY <2>4, <2>5
  <2>7. Front(queue) = g
    BY <2>1, <2>3 DEF g
  <2> QED
    BY <2>4, <2>6, <2>7
<1>7. ToSet(queue) \subseteq ToSet(Front(queue)) \cup {n} /\ ToSet(Front(queue)) \subseteq ToSet(queue)
  BY <1>1, <1>6 DEF ToSet
<1>8. queue' \in Seq(AllActionNames) /\ ToSet(queue') = ToSet(Front(queue)) \cup new
  <2> DEFINE q == Front(queue)
             r == SetToSeq(new)
  <2>1. q \in Seq(AllActionNames) /\ r \in Seq(AllActionNames)
    BY <1>3, <1>4, <1>6
  <2> HIDE DEF q, r
  <2>2. q \o r \in Seq(AllActionNames) /\ ToSet(q \o r) = ToSet(q) \cup ToSet(r)
    <3>1. Len(q \o r) = Len(q) + Len(r) /\ DOMAIN (q \o r) = 1..(Len(q) + Len(r))
      BY <2>1
    <3>2. \A i \in 1..Len(q) : (q \o r)[i] = q[i]
      BY <2>1
    <3>3. \A i \in 1..Len(r) : (q \o r)[Len(q) + i] = r[i]
      BY <2>1
    <3>4. ToSet(q \o r) \subseteq ToSet(q) \cup ToSet(r)
      BY <2>1, <3>1 DEF ToSet
    <3>5. ToSet(q) \subseteq ToSet(q \o r)
      BY <2>1, <3>1, <3>2 DEF ToSet
    <3>6. ToSet(r) \subseteq ToSet(q \o r)
      <4> SUFFICES ASSUME NEW i \in 1..Len(r) PROVE r[i] \in ToSet(q \o r)
        BY <2>1 DEF ToSet
      <4>1. Len(q) + i \in DOMAIN (q \o r)
        BY <2>1, <3>1
      <4> QED
        BY <3>3, <4>1 DEF ToSet
    <3> QED
      BY <2>1, <3>4, <3>5, <3>6
  <2> QED
    BY <1>4, <1>5, <2>2 DEF q, r
<1>9. ToSet(queue') \subseteq included'
  BY <1>5, <1>7, <1>8 DEF Walking
<1>10. \A m \in included' \ ToSet(queue') : f[m] \subseteq included'
  <2> SUFFICES ASSUME NEW m \in included', m \notin ToSet(queue') PROVE f[m] \subseteq included'
    OBVIOUS
  <2>1. m \in included /\ m \notin ToSet(Front(queue))
    BY <1>5, <1>8
  <2>2. CASE m = n
    BY <1>5, <2>2
  <2>3. CASE m # n
    BY <1>5, <1>7, <2>1, <2>3 DEF Walking
  <2> QED
    BY <2>2, <2>3
<1>11. ASSUME NEW V \in SUBSET AllActionNames, Closed(V, names, f) PROVE included' \subseteq V
  BY <1>2, <1>5, <1>11 DEF Walking, Closed
<1>12. included' \subseteq AllActionNames /\ names \subseteq included'
  BY <1>3, <1>5 DEF Walking
<1> QED
  BY <1>8, <1>9, <1>10, <1>11, <1>12 DEF Walking, Closed

(* and ends with the least closed set.                                     *)
LEMMA WalkEnds ==
  ASSUME NEW names, NEW f, Walking(names, f), queue = <<>>
  PROVE  Least(included, names, f)
<1>1. ToSet(queue) = {}
  BY DEF ToSet
<1> QED
  BY <1>1 DEF Walking, Least, Closed

(* Nothing that the walks read of the graph changes once it is compiled.   *)
LEMMA GraphStays ==
  ASSUME UNCHANGED GraphVars
  PROVE  /\ AllActionNames' = AllActionNames
         /\ Downs' = Downs
         /\ Ups' = Ups
         /\ \A B : AutoAssertions(B)' = AutoAssertions(B)
         /\ UNCHANGED runConfig => Selected(runConfig)' = Selected(runConfig)
<1>1. actions' = actions /\ compiled' = compiled
  BY DEF GraphVars
<1>2. AllActions' = AllActions
  BY <1>1 DEF AllActions, Graph, Of, Inline
<1>3. AllActionNames' = AllActionNames
  BY <1>1, <1>2 DEF AllActionNames, Names
<1>4. Downs' = Downs
  BY <1>1, <1>2, <1>3 DEF Downs, DependenciesOf, ByName, Before
<1>5. Ups' = Ups
  BY <1>1, <1>2, <1>3 DEF Ups, DependentsOf, Names
<1>6. \A B : AutoAssertions(B)' = AutoAssertions(B)
  BY <1>1 DEF AutoAssertions, Names, Of, Graph
<1>7. UNCHANGED runConfig => Selected(runConfig)' = Selected(runConfig)
  BY <1>1, <1>2 DEF Selected, MatchPatterns, MatchPattern, MatchesName, Names
<1> QED
  BY <1>3, <1>4, <1>5, <1>6, <1>7

(* What is the least closed set is what Closure chooses.                   *)
LEMMA LeastIsClosure ==
  ASSUME NEW S, NEW names, NEW f, Least(S, names, f)
  PROVE  S = Closure(names, f)
<1> DEFINE P(C) == /\ names \subseteq C /\ \A n \in C : f[n] \subseteq C
                   /\ \A U \in SUBSET C : names \subseteq U /\ (\A n \in U : f[n] \subseteq U) => U = C
<1>1. S \in SUBSET AllActionNames /\ P(S)
  BY DEF Least, Closed
<1>2. ASSUME NEW C \in SUBSET AllActionNames, P(C) PROVE C = S
  BY <1>2 DEF Least, Closed
<1>3. Closure(names, f) = CHOOSE C \in SUBSET AllActionNames : P(C)
  BY DEF Closure
<1> HIDE DEF P
<1> QED
  BY <1>1, <1>2, <1>3
-----------------------------------------------------------------------------
LEMMA InitSelects == PruneInit => SelectInv
BY FS_EmptySet DEF PruneInit, SessionInit, SelectInv

(* While the project is compiled nothing has been selected.                *)
LEMMA SessionKeeps == SelectInv /\ SessionNext /\ UNCHANGED pruneVars => SelectInv'
<1> SUFFICES ASSUME SelectInv, SessionNext, UNCHANGED pruneVars PROVE SelectInv'
  OBVIOUS
<1>1. phase # "compiled"
  BY DEF SessionNext, SqlxAction, SqlxTest, Call, CanStep, StartCompile, CompileAction, ChunksDone,
         FullyQualifyDependencies, AlterActionName, Check
<1>2. pruning = "none" /\ pruning' = "none"
  BY <1>1 DEF SelectInv, pruneVars
<1>3. compiled' = compiled \/ \E i : compiled' = compiled \cup {i}
  BY DEF SessionNext, SqlxAction, SqlxTest, Call, CanStep, StartCompile, CompileAction, ChunksDone,
         FullyQualifyDependencies, AlterActionName, Check
<1>4. IsFiniteSet(compiled')
  BY <1>3, FS_AddElement DEF SelectInv
<1> QED
  BY <1>2, <1>4 DEF SelectInv

(* Sets that were walked to stay what they are.                            *)
LEMMA WalkedStays ==
  ASSUME UNCHANGED <<GraphVars, runConfig>>, NEW S, NEW names, NEW wanted
  PROVE  /\ Walked(S, names, wanted, Downs)' <=> Walked(S, names, wanted, Downs)
         /\ Walked(S, names, wanted, Ups)' <=> Walked(S, names, wanted, Ups)
<1>1. AllActionNames' = AllActionNames /\ Downs' = Downs /\ Ups' = Ups
  BY GraphStays
<1> QED
  BY <1>1 DEF Walked, Least, Closed

LEMMA SelectKeeps == ASSUME NEW rc, SelectInv, Select(rc) PROVE SelectInv'
<1>1. /\ UNCHANGED GraphVars /\ phase' = phase /\ phase = "compiled" /\ compiled' = compiled
      /\ runConfig' = rc
  BY DEF Select, GraphVars
<1>2. AllActionNames' = AllActionNames /\ Downs' = Downs /\ Ups' = Ups
  BY <1>1, GraphStays
<1>3. Selected(rc)' = Selected(rc)
  BY <1>1, <1>2 DEF GraphVars, Selected, MatchPatterns, MatchPattern, MatchesName, Names, AllActions,
                    Graph, Of, Inline
<1>4. Selected(runConfig)' = Selected(rc)
  BY <1>1, <1>3 DEF Selected, MatchPatterns
<1>5. pruning' = "pruned" => ~HasSelector(runConfig')
  BY <1>1 DEF Select, HasSelector
<1>6. pruning' \in {"pruned", "failed", "dependencies"}
  BY DEF Select
<1>7. ASSUME pruning' = "dependencies" PROVE Walking(Selected(runConfig), Downs)' /\ (included = Selected(runConfig))'
  <2>1. included' = Selected(rc) /\ queue' = SetToSeq(Selected(rc))
    BY <1>7 DEF Select
  <2>2. Selected(rc) \subseteq AllActionNames /\ IsFiniteSet(Selected(rc))
    BY SelectedAreActions, FiniteNames, FS_Subset DEF SelectInv
  <2> PICK names : names = Selected(rc)
    OBVIOUS
  <2>3. queue' \in Seq(names) /\ ToSet(queue') = names
    BY <2>1, <2>2, SetToSeqElements
  <2>4. queue' \in Seq(AllActionNames')
    BY <1>2, <2>2, <2>3
  <2>5. Walking(names, Downs)'
    BY <1>2, <2>1, <2>2, <2>3, <2>4 DEF Walking, Closed
  <2> QED
    BY <1>4, <2>1, <2>5 DEF Walking, Closed
<1> QED
  BY <1>1, <1>5, <1>6, <1>7 DEF SelectInv, HasSelector

(* What stays when a walk goes on.                                         *)
LEMMA WalksKeepTheGraph ==
  ASSUME SelectInv, UNCHANGED <<GraphVars, runConfig>>
  PROVE  /\ IsFiniteSet(compiled') /\ IsFiniteSet(AllActionNames)
         /\ pruning # "none" => phase' = "compiled"
         /\ AllActionNames' = AllActionNames /\ Downs' = Downs /\ Ups' = Ups
         /\ Selected(runConfig)' = Selected(runConfig)
BY GraphStays, FiniteNames DEF SelectInv, GraphVars

LEMMA WalkDependenciesKeeps == SelectInv /\ WalkDependencies => SelectInv'
<1> SUFFICES ASSUME SelectInv, WalkDependencies PROVE SelectInv'
  OBVIOUS
<1>1. /\ pruning = "dependencies" /\ pruning' = "dependencies" /\ queue # <<>>
      /\ runConfig.includeDependencies /\ runConfig' = runConfig
      /\ UNCHANGED <<GraphVars, runConfig>>
  BY DEF WalkDependencies, Walk
<1>2. Walking(Selected(runConfig), Downs)
  BY <1>1 DEF SelectInv
<1>3. /\ IsFiniteSet(compiled') /\ IsFiniteSet(AllActionNames) /\ phase' = "compiled"
      /\ AllActionNames' = AllActionNames /\ Downs' = Downs
      /\ Selected(runConfig)' = Selected(runConfig)
  BY <1>1, WalksKeepTheGraph
<1>4. Last(queue) \in AllActionNames
  BY <1>1, <1>2 DEF Walking, Last
<1>5. Walk(Downs[Last(queue)])
  BY <1>4 DEF WalkDependencies, Downs
<1> PICK names : names = Selected(runConfig)
  OBVIOUS
<1> PICK f : f = Downs
  OBVIOUS
<1>6. Walking(names, f)'
  BY <1>1, <1>2, <1>3, <1>5, StepsOfTheGraph, WalkTurns
<1>7. Walking(Selected(runConfig), Downs)'
  BY <1>3, <1>6 DEF Walking, Closed
<1> QED
  BY <1>1, <1>3, <1>7 DEF SelectInv

LEMMA StartDependentsKeeps == SelectInv /\ StartDependents => SelectInv'
<1> SUFFICES ASSUME SelectInv, StartDependents PROVE SelectInv'
  OBVIOUS
<1>1. /\ pruning = "dependencies" /\ pruning' = "dependents" /\ included' = included
      /\ queue' = SetToSeq(included) /\ runConfig' = runConfig
      /\ queue = <<>> \/ ~runConfig.includeDependencies
      /\ UNCHANGED <<GraphVars, runConfig>>
  BY DEF StartDependents
<1>2. /\ IsFiniteSet(compiled') /\ IsFiniteSet(AllActionNames) /\ phase' = "compiled"
      /\ AllActionNames' = AllActionNames /\ Ups' = Ups
      /\ Selected(runConfig)' = Selected(runConfig)
  BY <1>1, WalksKeepTheGraph
<1>3. Walked(included, Selected(runConfig), runConfig.includeDependencies, Downs)
  <2>1. CASE runConfig.includeDependencies
    <3>1. Walking(Selected(runConfig), Downs)
      BY <1>1, <2>1 DEF SelectInv
    <3> QED
      BY <1>1, <2>1, <3>1, WalkEnds DEF Walked, Least
  <2>2. CASE ~runConfig.includeDependencies
    BY <1>1, <2>2, SelectedAreActions DEF SelectInv, Walked
  <2> QED
    BY <2>1, <2>2
<1> PICK D : D = included
  OBVIOUS
<1>4. Walked(D, Selected(runConfig), runConfig.includeDependencies, Downs)'
  <2> PICK names : names = Selected(runConfig)
    OBVIOUS
  <2> PICK wanted : wanted = runConfig.includeDependencies
    OBVIOUS
  <2>1. Walked(D, names, wanted, Downs)
    BY <1>3
  <2>2. Walked(D, names, wanted, Downs)'
    BY <1>1, <2>1, WalkedStays
  <2> QED
    BY <1>1, <1>2, <2>2 DEF Walked, Least, Closed
<1>5. D \subseteq AllActionNames /\ IsFiniteSet(D)
  BY <1>2, <1>3, FS_Subset DEF Walked
<1>6. queue' \in Seq(D) /\ ToSet(queue') = D /\ included' = D
  BY <1>1, <1>5, SetToSeqElements
<1>7. queue' \in Seq(AllActionNames')
  BY <1>2, <1>5, <1>6
<1>8. Walking(D, Ups)'
  BY <1>2, <1>5, <1>6, <1>7 DEF Walking, Closed
<1> QED
  BY <1>1, <1>2, <1>4, <1>6, <1>8 DEF SelectInv

LEMMA WalkDependentsKeeps == SelectInv /\ WalkDependents => SelectInv'
<1> SUFFICES ASSUME SelectInv, WalkDependents PROVE SelectInv'
  OBVIOUS
<1>1. /\ pruning = "dependents" /\ pruning' = "dependents" /\ queue # <<>>
      /\ runConfig.includeDependents /\ runConfig' = runConfig
      /\ UNCHANGED <<GraphVars, runConfig>>
  BY DEF WalkDependents, Walk
<1>2. PICK D : /\ Walked(D, Selected(runConfig), runConfig.includeDependencies, Downs)
               /\ Walking(D, Ups)
  BY <1>1 DEF SelectInv
<1>3. /\ IsFiniteSet(compiled') /\ IsFiniteSet(AllActionNames) /\ phase' = "compiled"
      /\ AllActionNames' = AllActionNames /\ Ups' = Ups
      /\ Selected(runConfig)' = Selected(runConfig)
  BY <1>1, WalksKeepTheGraph
<1>4. Last(queue) \in AllActionNames
  BY <1>1, <1>2 DEF Walking, Last
<1>5. Walk(Ups[Last(queue)])
  BY <1>4 DEF WalkDependents, Ups
<1> PICK f : f = Ups
  OBVIOUS
<1>6. Walking(D, f)'
  BY <1>1, <1>2, <1>3, <1>5, StepsOfTheGraph, WalkTurns
<1>7. Walking(D, Ups)'
  BY <1>3, <1>6 DEF Walking, Closed
<1>8. Walked(D, Selected(runConfig), runConfig.includeDependencies, Downs)'
  <2> PICK names : names = Selected(runConfig)
    OBVIOUS
  <2> PICK wanted : wanted = runConfig.includeDependencies
    OBVIOUS
  <2>1. Walked(D, names, wanted, Downs)'
    BY <1>1, <1>2, WalkedStays
  <2> QED
    BY <1>1, <1>3, <2>1 DEF Walked, Least, Closed
<1> QED
  BY <1>1, <1>3, <1>7, <1>8 DEF SelectInv

LEMMA AddAutoAssertionsKeeps == SelectInv /\ AddAutoAssertions => SelectInv'
<1> SUFFICES ASSUME SelectInv, AddAutoAssertions PROVE SelectInv'
  OBVIOUS
<1>1. /\ pruning = "dependents" /\ pruning' = "pruned" /\ runConfig' = runConfig
      /\ included' = included \cup AutoAssertions(included)
      /\ queue = <<>> \/ ~runConfig.includeDependents
      /\ UNCHANGED <<GraphVars, runConfig>>
  BY DEF AddAutoAssertions
<1>2. PICK D : /\ Walked(D, Selected(runConfig), runConfig.includeDependencies, Downs)
               /\ IF runConfig.includeDependents THEN Walking(D, Ups) ELSE included = D
  BY <1>1 DEF SelectInv
<1>3. /\ IsFiniteSet(compiled') /\ phase' = "compiled" /\ Selected(runConfig)' = Selected(runConfig)
  BY <1>1, WalksKeepTheGraph
<1>4. Walked(included, D, runConfig.includeDependents, Ups)
  <2>1. CASE runConfig.includeDependents
    BY <1>1, <1>2, <2>1, WalkEnds DEF Walked, Least
  <2>2. CASE ~runConfig.includeDependents
    BY <1>2, <2>2 DEF Walked
  <2> QED
    BY <2>1, <2>2
<1> PICK B : B = included
  OBVIOUS
<1>5. included' = B \cup AutoAssertions(B)'
  BY <1>1, GraphStays
<1>6. /\ Walked(D, Selected(runConfig), runConfig.includeDependencies, Downs)'
      /\ Walked(B, D, runConfig.includeDependents, Ups)'
  <2> PICK names : names = Selected(runConfig)
    OBVIOUS
  <2> PICK down : down = runConfig.includeDependencies
    OBVIOUS
  <2> PICK up : up = runConfig.includeDependents
    OBVIOUS
  <2>1. Walked(D, names, down, Downs)' /\ Walked(B, D, up, Ups)'
    BY <1>1, <1>2, <1>4, WalkedStays
  <2> QED
    BY <1>1, <1>3, <2>1 DEF Walked, Least, Closed
<1> QED
  BY <1>1, <1>3, <1>5, <1>6 DEF SelectInv

(* Building, and what changes nothing.                                     *)
LEMMA BuildKeeps ==
  /\ SelectInv /\ Build => SelectInv'
  /\ SelectInv /\ UNCHANGED projectVars => SelectInv'
<1> SUFFICES ASSUME SelectInv, Build \/ UNCHANGED projectVars PROVE SelectInv'
  OBVIOUS
<1>1. /\ pruning' = pruning \/ (pruning = "pruned" /\ pruning' \in {"failed", "built"})
      /\ included' = included /\ queue' = queue /\ runConfig' = runConfig
      /\ UNCHANGED <<GraphVars, runConfig>>
  BY DEF Build, projectVars, pruneVars
<1>2. /\ IsFiniteSet(compiled') /\ phase' = phase /\ AllActionNames' = AllActionNames
      /\ Downs' = Downs /\ Ups' = Ups /\ Selected(runConfig)' = Selected(runConfig)
  BY <1>1, WalksKeepTheGraph DEF GraphVars
<1>3. ASSUME NEW S, NEW names, NEW wanted
      PROVE  /\ Walked(S, names, wanted, Downs)' <=> Walked(S, names, wanted, Downs)
             /\ Walked(S, names, wanted, Ups)' <=> Walked(S, names, wanted, Ups)
             /\ AutoAssertions(S)' = AutoAssertions(S)
  BY <1>1, WalkedStays, GraphStays
<1>4. ASSUME pruning' = "dependencies"
      PROVE  (IF runConfig.includeDependencies THEN Walking(Selected(runConfig), Downs)
              ELSE included = Selected(runConfig))'
  BY <1>1, <1>2, <1>4 DEF SelectInv, Walking, Closed
<1>5. ASSUME pruning' = "dependents"
      PROVE  (\E D : /\ Walked(D, Selected(runConfig), runConfig.includeDependencies, Downs)
                     /\ IF runConfig.includeDependents THEN Walking(D, Ups) ELSE included = D)'
  <2>1. PICK D : /\ Walked(D, Selected(runConfig), runConfig.includeDependencies, Downs)
                 /\ IF runConfig.includeDependents THEN Walking(D, Ups) ELSE included = D
    BY <1>1, <1>5 DEF SelectInv
  <2>2. Walked(D, Selected(runConfig), runConfig.includeDependencies, Downs)'
    BY <1>1, <1>2, <2>1 DEF Walked, Least, Closed
  <2>3. (IF runConfig.includeDependents THEN Walking(D, Ups) ELSE included = D)'
    BY <1>1, <1>2, <2>1 DEF Walking, Closed
  <2> QED
    BY <2>2, <2>3
<1>6. ASSUME (pruning \in {"pruned", "built"} /\ HasSelector(runConfig))'
      PROVE  (\E D, B : /\ Walked(D, Selected(runConfig), runConfig.includeDependencies, Downs)
                        /\ Walked(B, D, runConfig.includeDependents, Ups)
                        /\ included = B \cup AutoAssertions(B))'
  <2>1. PICK D, B : /\ Walked(D, Selected(runConfig), runConfig.includeDependencies, Downs)
                    /\ Walked(B, D, runConfig.includeDependents, Ups)
                    /\ included = B \cup AutoAssertions(B)
    BY <1>1, <1>6 DEF SelectInv, HasSelector
  <2>2. Walked(D, Selected(runConfig), runConfig.includeDependencies, Downs)'
    BY <1>1, <1>2, <2>1 DEF Walked, Least, Closed
  <2>3. Walked(B, D, runConfig.includeDependents, Ups)'
    BY <1>1, <1>2, <2>1 DEF Walked, Least, Closed
  <2>4. (included = B \cup AutoAssertions(B))'
    BY <1>1, <1>3, <2>1
  <2> QED
    BY <2>2, <2>3, <2>4
<1> QED
  BY <1>1, <1>2, <1>4, <1>5, <1>6 DEF SelectInv
-----------------------------------------------------------------------------
LEMMA SelectionProgresses == SelectInv /\ [PruneNext]_projectVars => SelectInv'
BY SessionKeeps, SelectKeeps, WalkDependenciesKeeps, StartDependentsKeeps, WalkDependentsKeeps,
   AddAutoAssertionsKeeps, BuildKeeps DEF PruneNext

(* When the walks are over, the set they were to compute is included.      *)
LEMMA SelectionEnds == SelectInv => SelectionIsClosed
<1> SUFFICES ASSUME SelectInv, pruning \in {"pruned", "built"}, HasSelector(runConfig)
             PROVE  included = Both(runConfig) \cup
                      {actions[j].target : j \in {j \in AllActions :
                         actions[j].kind = "assertion" /\ actions[j].parentAction \in Both(runConfig)}}
  BY DEF SelectionIsClosed
<1>1. PICK D, B : /\ Walked(D, Selected(runConfig), runConfig.includeDependencies, Downs)
                  /\ Walked(B, D, runConfig.includeDependents, Ups)
                  /\ included = B \cup AutoAssertions(B)
  BY DEF SelectInv
<1>2. D = Down(runConfig)
  <2> PICK f : f = Downs
    OBVIOUS
  <2>1. Down(runConfig) = IF runConfig.includeDependencies THEN Closure(Selected(runConfig), f)
                          ELSE Selected(runConfig)
    BY DEF Down, Downs
  <2> QED
    BY <1>1, <2>1, LeastIsClosure DEF Walked
<1>3. B = Both(runConfig)
  <2> PICK f : f = Ups
    OBVIOUS
  <2>1. Both(runConfig) = IF runConfig.includeDependents THEN Closure(Down(runConfig), f)
                          ELSE Down(runConfig)
    BY DEF Both, Ups
  <2> QED
    BY <1>1, <1>2, <2>1, LeastIsClosure DEF Walked
<1>4. AutoAssertions(B) = {actions[j].target : j \in {j \in AllActions :
                              actions[j].kind = "assertion" /\ actions[j].parentAction \in B}}
  BY DEF AutoAssertions, Names, AllActions, Of, Inline
<1> QED
  BY <1>1, <1>3, <1>4

(* What a run includes is what was selected, all that it depends on, all   *)
(* that depends on those, and the assertions of each, for every project,   *)
(* every graph and every run configuration (prune.ts:45-109).              *)
THEOREM SelectionsAreClosed == Selection => []SelectionIsClosed
<1>1. Selection => []SelectInv
  BY InitSelects, SelectionProgresses, PTL DEF Selection
<1> QED
  BY <1>1, SelectionEnds, PTL
=============================================================================
