------------------------------ MODULE LexerProofs ------------------------------
(***************************************************************************)
(* The syntax tree of every file: whatever the code, the tree that the     *)
(* lexer builds holds it, and its nodes are where the states say.          *)
(*                                                                         *)
(* The library's induction takes an operator, which no prover here can     *)
(* instantiate: that a recursive function is what it says is shown for     *)
(* each, by least counterexamples (the lemmas named ...Rounds).            *)
(***************************************************************************)
EXTENDS SqlxLexer, Integers, SequenceTheorems, WellFoundedInduction, TLAPS

(* Induction, by least elements.                                           *)
LEMMA LeastNumber ==
  ASSUME NEW T \in SUBSET Nat, T # {}
  PROVE  \E n \in T : \A m \in T : n <= m
<1> DEFINE R == OpToRel(<, Nat)
<1>1. PICK x \in T : \A y \in T : ~(<<y, x>> \in R)
  <2>1. IsWellFoundedOn(R, Nat)
    BY NatLessThanWellFounded
  <2> HIDE DEF R
  <2> QED
    BY <2>1, WFMin
<1>2. R = {ss \in Nat \X Nat : ss[1] < ss[2]}
  BY Zenon DEF OpToRel
<1> HIDE DEF R
<1>3. ASSUME NEW y \in T PROVE x <= y
  <2>1. <<y, x>> \notin R
    BY <1>1
  <2>2. ~(y < x)
    BY <1>2, <2>1
  <2> QED
    BY <2>2
<1> QED
  BY <1>3

(* A set of numbers with 0 and the next of each that is less than n.       *)
LEMMA UpTo ==
  ASSUME NEW n \in Nat, NEW T, 0 \in T, \A k \in 1..n : k - 1 \in T => k \in T
  PROVE  \A k \in 0..n : k \in T
<1> DEFINE U == {k \in 0..n : k \notin T}
<1>1. SUFFICES ASSUME U # {} PROVE FALSE
  OBVIOUS
<1>2. PICK k \in U : \A m \in U : k <= m
  <2>1. U \in SUBSET Nat
    OBVIOUS
  <2> HIDE DEF U
  <2> QED
    BY <1>1, <2>1, LeastNumber
<1>3. k \in 1..n /\ k - 1 \in 0..n /\ ~(k <= k - 1)
  OBVIOUS
<1>4. k - 1 \in T
  BY <1>2, <1>3
<1> QED
  BY <1>3, <1>4

-----------------------------------------------------------------------------
(* Sequences of sequences, one after the other.                            *)
LEMMA FlatRounds ==
  ASSUME NEW ss, Len(ss) \in Nat \ {0}
  PROVE \E f : /\ f[0] = ss[1] /\ \A i \in 1..(Len(ss) - 1) : f[i] = f[i - 1] \o ss[i + 1]
               /\ FlattenSeq(ss) = f[Len(ss) - 1]
<1> DEFINE G(y, n) == y \o ss[n + 1]
           Is(f, k) == f = [n \in 0..k |-> IF n = 0 THEN ss[1] ELSE G(f[n - 1], n)]
<1>1. \A k \in Nat : \E f : Is(f, k)
  <2> DEFINE T == {k \in Nat : ~\E f : Is(f, k)}
  <2>1. SUFFICES ASSUME T # {} PROVE FALSE
    OBVIOUS
  <2>2. PICK k \in T : \A m \in T : k <= m
    <3> HIDE DEF T
    <3> QED
      BY <2>1, LeastNumber DEF T
  <2> HIDE DEF G
  <2>3. k # 0
    <3> SUFFICES ASSUME k = 0 PROVE FALSE
      OBVIOUS
    <3>1. Is([n \in 0..0 |-> ss[1]], 0)
      OBVIOUS
    <3> QED
      BY <2>2, <3>1
  <2>4. k - 1 \in Nat /\ k - 1 \notin T
    <3>1. k \in Nat
      OBVIOUS
    <3>2. k - 1 \in Nat /\ ~(k <= k - 1)
      BY <3>1, <2>3
    <3> HIDE DEF T
    <3> QED
      BY <2>2, <3>2
  <2>5. PICK f : Is(f, k - 1)
    BY <2>4
  <2>6. Is([n \in 0..k |-> IF n = k THEN G(f[k - 1], k) ELSE f[n]], k)
    <3> DEFINE g == [n \in 0..k |-> IF n = k THEN G(f[k - 1], k) ELSE f[n]]
    <3>1. \A n \in 0..k : n = k \/ n \in 0..(k - 1)
      BY <2>4
    <3>2. \A n \in 0..(k - 1) : g[n] = f[n] /\ f[n] = IF n = 0 THEN ss[1] ELSE G(f[n - 1], n)
      BY <2>4, <2>5
    <3>3. \A n \in 0..k : n # 0 => n - 1 \in 0..(k - 1)
      BY <2>4
    <3>4. g[k] = G(f[k - 1], k)
      BY <2>4
    <3>5. \A n \in 0..k : g[n] = IF n = 0 THEN ss[1] ELSE G(g[n - 1], n)
      BY <2>4, <2>3, <3>1, <3>2, <3>3, <3>4
    <3> QED
      BY <3>5
  <2> QED
    BY <2>2, <2>6
<1> DEFINE E(g) == g = [i \in 1..Len(ss) |-> IF i = 1 THEN ss[i] ELSE g[i - 1] \o ss[i]]
<1>2. PICK f : Is(f, Len(ss) - 1)
  <2>1. Len(ss) - 1 \in Nat
    OBVIOUS
  <2> HIDE DEF Is
  <2> QED
    BY <1>1, <2>1
<1>3. f[0] = ss[1] /\ \A i \in 1..(Len(ss) - 1) : f[i] = f[i - 1] \o ss[i + 1]
  BY <1>2
<1>4. E([i \in 1..Len(ss) |-> f[i - 1]])
  <2> DEFINE g == [i \in 1..Len(ss) |-> f[i - 1]]
  <2>1. ASSUME NEW i \in 1..Len(ss), i # 1 PROVE g[i] = g[i - 1] \o ss[i]
    <3>1. i - 1 \in 1..(Len(ss) - 1) /\ i - 1 \in 1..Len(ss) /\ (i - 1) + 1 = i
      BY <2>1
    <3>2. f[i - 1] = f[(i - 1) - 1] \o ss[(i - 1) + 1]
      BY <1>3, <3>1
    <3> QED
      BY <3>1, <3>2
  <2>2. 1 \in 1..Len(ss) => g[1] = ss[1]
    BY <1>3
  <2>3. \A i \in 1..Len(ss) : g[i] = IF i = 1 THEN ss[i] ELSE g[i - 1] \o ss[i]
    BY <2>1, <2>2
  <2> QED
    BY <2>3
<1>5. PICK g : E(g) /\ FlattenSeq(ss) = g[Len(ss)]
  <2> DEFINE c == CHOOSE g : E(g)
  <2>1. E(c)
    <3> HIDE DEF E
    <3> QED
      BY <1>4
  <2>2. FlattenSeq(ss) = c[Len(ss)]
    BY DEF FlattenSeq
  <2> QED
    BY <2>1, <2>2
<1>6. g[1] = ss[1] /\ \A i \in 2..Len(ss) : g[i] = g[i - 1] \o ss[i]
  <2>1. \A i \in 1..Len(ss) : g[i] = IF i = 1 THEN ss[i] ELSE g[i - 1] \o ss[i]
    BY <1>5
  <2>2. 1 \in 1..Len(ss) /\ \A i \in 2..Len(ss) : i \in 1..Len(ss) /\ i # 1
    OBVIOUS
  <2> QED
    BY <2>1, <2>2
<1> DEFINE h == [i \in 0..(Len(ss) - 1) |-> g[i + 1]]
<1>7. h[0] = ss[1] /\ h[Len(ss) - 1] = g[Len(ss)]
  BY <1>6
<1>8. \A i \in 1..(Len(ss) - 1) : h[i] = h[i - 1] \o ss[i + 1]
  <2> TAKE i \in 1..(Len(ss) - 1)
  <2>1. i + 1 \in 2..Len(ss) /\ i - 1 \in 0..(Len(ss) - 1) /\ i \in 0..(Len(ss) - 1) /\ (i - 1) + 1 = i /\ (i + 1) - 1 = i
    OBVIOUS
  <2> QED
    BY <2>1, <1>6
<1> QED
  BY <1>5, <1>7, <1>8

(* Of none, of lists over S, and with one more.                            *)
LEMMA FlatNone == FlattenSeq(<<>>) = <<>>
  BY DEF FlattenSeq

LEMMA FlatType ==
  ASSUME NEW S, NEW ss \in Seq(Seq(S))
  PROVE  FlattenSeq(ss) \in Seq(S)
<1>1. CASE ss = <<>>
  <2>1. <<>> \in Seq(S)
    OBVIOUS
  <2> QED
    BY <1>1, <2>1, FlatNone
<1>2. CASE ss # <<>>
  <2>1. Len(ss) \in Nat \ {0} /\ \A i \in 1..Len(ss) : ss[i] \in Seq(S)
    BY <1>2
  <2>2. PICK f : /\ f[0] = ss[1] /\ \A i \in 1..(Len(ss) - 1) : f[i] = f[i - 1] \o ss[i + 1]
                 /\ FlattenSeq(ss) = f[Len(ss) - 1]
    BY <2>1, FlatRounds
  <2> DEFINE n == Len(ss) - 1
             T == {i \in 0..n : f[i] \in Seq(S)}
  <2>3. 0 \in T
    BY <2>1, <2>2
  <2>4. \A k \in 1..n : k - 1 \in T => k \in T
    <3> SUFFICES ASSUME NEW k \in 1..n, f[k - 1] \in Seq(S) PROVE f[k] \in Seq(S)
      OBVIOUS
    <3>1. k + 1 \in 1..Len(ss)
      BY <2>1
    <3>2. f[k] = f[k - 1] \o ss[k + 1] /\ ss[k + 1] \in Seq(S)
      BY <2>1, <2>2, <3>1
    <3> QED
      BY <3>2
  <2>5. n \in Nat /\ n \in 0..n
    BY <2>1
  <2>6. n \in T
    <3> HIDE DEF T
    <3> QED
      BY <2>3, <2>4, <2>5, UpTo
  <2> QED
    BY <2>6, <2>2
<1> QED
  BY <1>1, <1>2

LEMMA FlatAppend ==
  ASSUME NEW S, NEW ss \in Seq(Seq(S)), NEW s \in Seq(S)
  PROVE  FlattenSeq(Append(ss, s)) = FlattenSeq(ss) \o s
<1> DEFINE tt == Append(ss, s)
<1>1. Len(tt) = Len(ss) + 1 /\ tt[Len(ss) + 1] = s /\ Len(ss) \in Nat /\ \A i \in 1..Len(ss) : tt[i] = ss[i]
  OBVIOUS
<1> HIDE DEF tt
<1>2. PICK g : /\ g[0] = tt[1] /\ \A i \in 1..(Len(tt) - 1) : g[i] = g[i - 1] \o tt[i + 1]
               /\ FlattenSeq(tt) = g[Len(tt) - 1]
  <2>1. Len(tt) \in Nat \ {0}
    BY <1>1
  <2> QED
    BY <2>1, FlatRounds
<1>3. CASE ss = <<>>
  <2>1. FlattenSeq(tt) = s /\ FlattenSeq(ss) = <<>>
    BY <1>1, <1>2, <1>3, FlatNone
  <2> QED
    BY <2>1 DEF tt
<1>4. CASE ss # <<>>
  <2>1. Len(ss) \in Nat \ {0}
    BY <1>4
  <2>2. PICK f : /\ f[0] = ss[1] /\ \A i \in 1..(Len(ss) - 1) : f[i] = f[i - 1] \o ss[i + 1]
                 /\ FlattenSeq(ss) = f[Len(ss) - 1]
    BY <2>1, FlatRounds
  <2> DEFINE n == Len(ss) - 1
             T == {i \in 0..n : f[i] = g[i]}
  <2>3. 0 \in T
    BY <1>1, <1>2, <2>1, <2>2
  <2>4. \A k \in 1..n : k - 1 \in T => k \in T
    <3> SUFFICES ASSUME NEW k \in 1..n, f[k - 1] = g[k - 1] PROVE f[k] = g[k]
      OBVIOUS
    <3>1. k \in 1..(Len(tt) - 1) /\ k + 1 \in 1..Len(ss)
      BY <1>1
    <3>2. tt[k + 1] = ss[k + 1]
      BY <1>1, <3>1
    <3>3. f[k] = f[k - 1] \o ss[k + 1] /\ g[k] = g[k - 1] \o tt[k + 1]
      BY <1>2, <2>2, <3>1
    <3> QED
      BY <3>2, <3>3
  <2>5. n \in Nat /\ n \in 0..n
    BY <2>1
  <2>6. n \in T
    <3> HIDE DEF T
    <3> QED
      BY <2>3, <2>4, <2>5, UpTo
  <2>7. g[Len(ss)] = g[Len(ss) - 1] \o tt[Len(ss) + 1]
    <3>1. Len(ss) \in 1..(Len(tt) - 1)
      BY <1>1, <2>1
    <3> QED
      BY <1>2, <3>1
  <2>8. Len(tt) - 1 = Len(ss) /\ f[Len(ss) - 1] = g[Len(ss) - 1]
    BY <1>1, <2>6
  <2>9. FlattenSeq(tt) = FlattenSeq(ss) \o s
    BY <1>1, <1>2, <2>2, <2>7, <2>8
  <2> QED
    BY <2>9 DEF tt
<1> QED
  BY <1>3, <1>4
-----------------------------------------------------------------------------
(* Trees, as deep as they can be, and nodes with children in S.            *)
Deepest == MaxNesting + 1
NodesOver(S) == [type : NodeTypes, text : {<<>>}, children : Seq(S)]

LEMMA Bounds == Deepest \in Nat /\ Deepest >= 2 /\ Depths = 0..Deepest
  BY LexerAssumption DEF Deepest, Depths

(* What the recursive functions are.                                       *)
LEMMA TreesRounds ==
  /\ Trees[0] = Texts /\ \A d \in 1..Deepest : Trees[d] = Texts \cup NodesOver(Trees[d - 1])
<1> DEFINE G(y, n) == Texts \cup NodesOver(y)
           B == Texts
           Is(f, k) == f = [n \in 0..k |-> IF n = 0 THEN B ELSE G(f[n - 1], n)]
<1>1. \A k \in Nat : \E f : Is(f, k)
  <2> DEFINE T == {k \in Nat : ~\E f : Is(f, k)}
  <2>1. SUFFICES ASSUME T # {} PROVE FALSE
    OBVIOUS
  <2>2. PICK k \in T : \A m \in T : k <= m
    <3> HIDE DEF T
    <3> QED
      BY <2>1, LeastNumber DEF T
  <2> HIDE DEF G, B
  <2>3. k # 0
    <3> SUFFICES ASSUME k = 0 PROVE FALSE
      OBVIOUS
    <3>1. Is([n \in 0..0 |-> B], 0)
      OBVIOUS
    <3> QED
      BY <2>2, <3>1
  <2>4. k - 1 \in Nat /\ k - 1 \notin T
    <3>1. k \in Nat
      OBVIOUS
    <3>2. k - 1 \in Nat /\ ~(k <= k - 1)
      BY <3>1, <2>3
    <3> HIDE DEF T
    <3> QED
      BY <2>2, <3>2
  <2>5. PICK f : Is(f, k - 1)
    BY <2>4
  <2>6. Is([n \in 0..k |-> IF n = k THEN G(f[k - 1], k) ELSE f[n]], k)
    <3> DEFINE g == [n \in 0..k |-> IF n = k THEN G(f[k - 1], k) ELSE f[n]]
    <3>1. \A n \in 0..k : n = k \/ n \in 0..(k - 1)
      BY <2>4
    <3>2. \A n \in 0..(k - 1) : g[n] = f[n] /\ f[n] = IF n = 0 THEN B ELSE G(f[n - 1], n)
      BY <2>4, <2>5
    <3>3. \A n \in 0..k : n # 0 => n - 1 \in 0..(k - 1)
      BY <2>4
    <3>4. g[k] = G(f[k - 1], k)
      BY <2>4
    <3>5. \A n \in 0..k : g[n] = IF n = 0 THEN B ELSE G(g[n - 1], n)
      BY <2>4, <2>3, <3>1, <3>2, <3>3, <3>4
    <3> QED
      BY <3>5
  <2> QED
    BY <2>2, <2>6
<1> DEFINE E(t) == t = [d \in Depths |-> IF d = 0 THEN Texts ELSE Texts \cup NodesOver(t[d - 1])]
<1>2. PICK f : Is(f, Deepest)
  <2> HIDE DEF Is
  <2> QED
    BY <1>1, Bounds
<1>3. E(f)
  BY <1>2, Bounds
<1>4. E(Trees)
  <2>1. Trees = CHOOSE t : E(t)
    BY DEF Trees, NodesOver
  <2> HIDE DEF E
  <2> QED
    BY <1>3, <2>1
<1>5. \A d \in Depths : Trees[d] = IF d = 0 THEN Texts ELSE Texts \cup NodesOver(Trees[d - 1])
  BY <1>4
<1>6. 0 \in Depths /\ \A d \in 1..Deepest : d \in Depths /\ d # 0
  BY Bounds
<1> QED
  BY <1>5, <1>6

LEMMA ConcatenationRounds ==
  \A d \in 0..Deepest : \A node \in Trees[d] :
    Concatenation[d][node] =
      IF node.type = "text" THEN node.text
      ELSE FlattenSeq([k \in DOMAIN node.children |-> Concatenation[d - 1][node.children[k]]])
<1> DEFINE G(y, n) == [node \in Trees[n] |-> IF node.type = "text" THEN node.text
                        ELSE FlattenSeq([k \in DOMAIN node.children |-> y[node.children[k]]])]
           B == [node \in Trees[0] |-> node.text]
           Is(f, k) == f = [n \in 0..k |-> IF n = 0 THEN B ELSE G(f[n - 1], n)]
<1>1. \A k \in Nat : \E f : Is(f, k)
  <2> DEFINE T == {k \in Nat : ~\E f : Is(f, k)}
  <2>1. SUFFICES ASSUME T # {} PROVE FALSE
    OBVIOUS
  <2>2. PICK k \in T : \A m \in T : k <= m
    <3> HIDE DEF T
    <3> QED
      BY <2>1, LeastNumber DEF T
  <2> HIDE DEF G, B
  <2>3. k # 0
    <3> SUFFICES ASSUME k = 0 PROVE FALSE
      OBVIOUS
    <3>1. Is([n \in 0..0 |-> B], 0)
      OBVIOUS
    <3> QED
      BY <2>2, <3>1
  <2>4. k - 1 \in Nat /\ k - 1 \notin T
    <3>1. k \in Nat
      OBVIOUS
    <3>2. k - 1 \in Nat /\ ~(k <= k - 1)
      BY <3>1, <2>3
    <3> HIDE DEF T
    <3> QED
      BY <2>2, <3>2
  <2>5. PICK f : Is(f, k - 1)
    BY <2>4
  <2>6. Is([n \in 0..k |-> IF n = k THEN G(f[k - 1], k) ELSE f[n]], k)
    <3> DEFINE g == [n \in 0..k |-> IF n = k THEN G(f[k - 1], k) ELSE f[n]]
    <3>1. \A n \in 0..k : n = k \/ n \in 0..(k - 1)
      BY <2>4
    <3>2. \A n \in 0..(k - 1) : g[n] = f[n] /\ f[n] = IF n = 0 THEN B ELSE G(f[n - 1], n)
      BY <2>4, <2>5
    <3>3. \A n \in 0..k : n # 0 => n - 1 \in 0..(k - 1)
      BY <2>4
    <3>4. g[k] = G(f[k - 1], k)
      BY <2>4
    <3>5. \A n \in 0..k : g[n] = IF n = 0 THEN B ELSE G(g[n - 1], n)
      BY <2>4, <2>3, <3>1, <3>2, <3>3, <3>4
    <3> QED
      BY <3>5
  <2> QED
    BY <2>2, <2>6
<1> DEFINE E(c) == c = [d \in Depths |-> G(c[d - 1], d)]
<1>2. PICK f : Is(f, Deepest)
  <2> HIDE DEF Is
  <2> QED
    BY <1>1, Bounds
<1>3. E(f)
  <2>1. \A y : G(y, 0) = [node \in Trees[0] |-> node.text]
    BY TreesRounds DEF Texts
  <2> HIDE DEF G
  <2>2. f = [n \in Depths |-> IF n = 0 THEN [node \in Trees[0] |-> node.text] ELSE G(f[n - 1], n)]
    BY <1>2, Bounds
  <2>3. \A n \in Depths : f[n] = G(f[n - 1], n)
    BY <2>1, <2>2
  <2> QED
    BY <2>2, <2>3
<1>4. E(Concatenation)
  <2>1. Concatenation = CHOOSE c : E(c)
    BY DEF Concatenation
  <2> HIDE DEF E
  <2> QED
    BY <1>3, <2>1
<1>5. \A d \in 0..Deepest : Concatenation[d] = G(Concatenation[d - 1], d)
  BY <1>4, Bounds
<1> QED
  BY <1>5
-----------------------------------------------------------------------------
(* Files, and the code of a list of trees.                                 *)
Code == Seq(STRING)
Texted(cs) == FlattenSeq([k \in DOMAIN cs |-> Concatenate(cs[k])])

(* A tree is a text, or a node with children that are less deep.           *)
LEMMA Shapes ==
  ASSUME NEW d \in 0..Deepest, NEW n \in Trees[d]
  PROVE  \/ n.type = "text" /\ n \in Texts
         \/ d # 0 /\ d - 1 \in 0..Deepest /\ n.type # "text" /\ n \in NodesOver(Trees[d - 1])
<1>1. CASE d = 0
  BY <1>1, TreesRounds DEF Texts
<1>2. CASE d # 0
  <2>1. d \in 1..Deepest /\ d - 1 \in 0..Deepest
    BY <1>2, Bounds
  <2>2. n \in Texts \/ n \in NodesOver(Trees[d - 1])
    BY <2>1, TreesRounds
  <2>3. n \in Texts => n.type = "text"
    BY DEF Texts
  <2>4. n \in NodesOver(Trees[d - 1]) => n.type # "text"
    BY DEF NodesOver, NodeTypes
  <2> QED
    BY <1>2, <2>1, <2>2, <2>3, <2>4
<1> QED
  BY <1>1, <1>2

(* Texts have any depth.                                                   *)
LEMMA TextsAreTrees == \A d \in 0..Deepest : Texts \subseteq Trees[d]
<1> TAKE d \in 0..Deepest
<1>1. d = 0 \/ d \in 1..Deepest
  BY Bounds
<1> QED
  BY <1>1, TreesRounds

(* Deeper trees are trees, too, and no other text.                         *)
Grown(d) ==
  /\ \A n \in Trees[d] : Concatenation[d][n] \in Code
  /\ d # 0 => \A n \in Trees[d - 1] : n \in Trees[d] /\ Concatenation[d][n] = Concatenation[d - 1][n]

LEMMA TreesGrow == \A d \in 0..Deepest : Grown(d)
<1> DEFINE T == {d \in 0..Deepest : Grown(d)}
<1>1. 0 \in T
  <2>1. 0 \in 0..Deepest
    BY Bounds
  <2>2. ASSUME NEW n \in Trees[0] PROVE Concatenation[0][n] \in Code
    <3>1. n.type = "text" /\ n.text \in Code
      BY TreesRounds DEF Texts, Code
    <3>2. Concatenation[0][n] = n.text
      BY <2>1, <3>1, ConcatenationRounds
    <3> QED
      BY <3>1, <3>2
  <2> QED
    BY <2>1, <2>2 DEF Grown
<1>2. ASSUME NEW d \in 1..Deepest, d - 1 \in T PROVE d \in T
  <2>1. d \in 0..Deepest /\ d - 1 \in 0..Deepest /\ d # 0 /\ Grown(d - 1)
    BY <1>2
  <2>2. ASSUME NEW n \in Trees[d] PROVE Concatenation[d][n] \in Code
    <3>1. CASE n \in Texts
      BY <2>1, <3>1, ConcatenationRounds DEF Texts, Code
    <3>2. CASE n.type # "text" /\ n \in NodesOver(Trees[d - 1])
      <4> DEFINE cs == n.children
      <4>1. cs \in Seq(Trees[d - 1])
        BY <3>2 DEF NodesOver
      <4>2. \A k \in DOMAIN cs : Concatenation[d - 1][cs[k]] \in Code
        BY <2>1, <4>1 DEF Grown
      <4>3. Concatenation[d][n] = FlattenSeq([k \in DOMAIN cs |-> Concatenation[d - 1][cs[k]]])
        BY <2>1, <3>2, ConcatenationRounds
      <4>4. [k \in DOMAIN cs |-> Concatenation[d - 1][cs[k]]] \in Seq(Code)
        BY <4>1, <4>2
      <4> QED
        BY <4>3, <4>4, FlatType DEF Code
    <3> QED
      BY <2>1, <3>1, <3>2, Shapes
  <2>3. ASSUME NEW n \in Trees[d - 1]
        PROVE  n \in Trees[d] /\ Concatenation[d][n] = Concatenation[d - 1][n]
    <3>1. CASE n \in Texts
      <4>1. n \in Trees[d] /\ n.type = "text"
        BY <2>1, <3>1, TextsAreTrees DEF Texts
      <4> QED
        BY <2>1, <4>1, ConcatenationRounds
    <3>2. CASE d - 1 # 0 /\ n.type # "text" /\ n \in NodesOver(Trees[(d - 1) - 1])
      <4> DEFINE cs == n.children
      <4>1. cs \in Seq(Trees[(d - 1) - 1])
        BY <3>2 DEF NodesOver
      <4>2. \A k \in DOMAIN cs : /\ cs[k] \in Trees[d - 1]
                                 /\ Concatenation[d - 1][cs[k]] = Concatenation[(d - 1) - 1][cs[k]]
        BY <2>1, <3>2, <4>1 DEF Grown
      <4>3. cs \in Seq(Trees[d - 1])
        BY <4>1, <4>2
      <4>4. n \in NodesOver(Trees[d - 1])
        BY <3>2, <4>3 DEF NodesOver
      <4>5. n \in Trees[d]
        BY <1>2, <4>4, TreesRounds
      <4>6. Concatenation[d][n] = FlattenSeq([k \in DOMAIN cs |-> Concatenation[d - 1][cs[k]]])
        BY <2>1, <3>2, <4>5, ConcatenationRounds
      <4>7. Concatenation[d - 1][n] = FlattenSeq([k \in DOMAIN cs |-> Concatenation[(d - 1) - 1][cs[k]]])
        BY <2>1, <3>2, ConcatenationRounds
      <4>8. [k \in DOMAIN cs |-> Concatenation[d - 1][cs[k]]] = [k \in DOMAIN cs |-> Concatenation[(d - 1) - 1][cs[k]]]
        BY <4>2
      <4> QED
        BY <4>5, <4>6, <4>7, <4>8
    <3> QED
      BY <2>1, <3>1, <3>2, Shapes
  <2> QED
    BY <2>1, <2>2, <2>3 DEF Grown
<1> HIDE DEF T
<1>3. \A d \in 0..Deepest : d \in T
  BY <1>1, <1>2, UpTo, Bounds
<1> QED
  BY <1>3 DEF T

(* What concatenate() finds in a tree does not depend on how deep the tree *)
(* is taken to be, and is code.                                            *)
LEMMA TreesConcatenate ==
  ASSUME NEW d \in 0..Deepest, NEW n \in Trees[d]
  PROVE  n \in Trees[Deepest] /\ Concatenate(n) = Concatenation[d][n] /\ Concatenate(n) \in Code
<1> DEFINE T == {j \in 0..Deepest : \A m \in Trees[Deepest - j] :
                   m \in Trees[Deepest] /\ Concatenation[Deepest][m] = Concatenation[Deepest - j][m]}
<1>1. 0 \in T
  BY Bounds
<1>2. ASSUME NEW j \in 1..Deepest, j - 1 \in T PROVE j \in T
  <2> DEFINE e == Deepest - (j - 1)
  <2>1. e \in 0..Deepest /\ e # 0 /\ e - 1 = Deepest - j /\ j \in 0..Deepest
    BY Bounds
  <2>2. \A m \in Trees[e] : m \in Trees[Deepest] /\ Concatenation[Deepest][m] = Concatenation[e][m]
    BY <1>2
  <2>3. \A m \in Trees[e - 1] : m \in Trees[e] /\ Concatenation[e][m] = Concatenation[e - 1][m]
    BY <2>1, TreesGrow DEF Grown
  <2> HIDE DEF e
  <2> QED
    BY <2>1, <2>2, <2>3
<1>3. Deepest - d \in 0..Deepest /\ Deepest - (Deepest - d) = d
  BY Bounds
<1>4. Deepest - d \in T
  <2> HIDE DEF T
  <2> QED
    BY <1>1, <1>2, <1>3, UpTo, Bounds
<1>5. Concatenate(n) = Concatenation[Deepest][n]
  BY DEF Concatenate, Deepest
<1> QED
  BY <1>3, <1>4, <1>5, TreesGrow DEF Grown

(* It is the text of a text, and of a node the code of its children.       *)
LEMMA TextsConcatenate ==
  ASSUME NEW n \in Texts
  PROVE  Concatenate(n) = n.text /\ n.text \in Code
<1>1. n \in Trees[0] /\ n.type = "text" /\ n.text \in Code /\ 0 \in 0..Deepest
  BY TreesRounds, Bounds DEF Texts, Code
<1> QED
  BY <1>1, TreesConcatenate, ConcatenationRounds

LEMMA NodesConcatenate ==
  ASSUME NEW d \in 1..Deepest, NEW n \in NodesOver(Trees[d - 1])
  PROVE  Concatenate(n) = Texted(n.children)
<1> DEFINE cs == n.children
<1>1. n \in Trees[d] /\ n.type # "text" /\ d \in 0..Deepest /\ d - 1 \in 0..Deepest
  BY TreesRounds, Bounds DEF NodesOver, NodeTypes
<1>2. cs \in Seq(Trees[d - 1])
  BY DEF NodesOver
<1>3. \A k \in DOMAIN cs : Concatenate(cs[k]) = Concatenation[d - 1][cs[k]]
  BY <1>1, <1>2, TreesConcatenate
<1>4. Concatenate(n) = FlattenSeq([k \in DOMAIN cs |-> Concatenation[d - 1][cs[k]]])
  BY <1>1, TreesConcatenate, ConcatenationRounds
<1>5. [k \in DOMAIN cs |-> Concatenation[d - 1][cs[k]]] = [k \in DOMAIN cs |-> Concatenate(cs[k])]
  BY <1>3
<1> QED
  BY <1>4, <1>5 DEF Texted

(* Lists of trees and their text.                                          *)
LEMMA TextedList ==
  ASSUME NEW cs \in Seq(Trees[Deepest])
  PROVE  Texted(cs) \in Code /\ [k \in DOMAIN cs |-> Concatenate(cs[k])] \in Seq(Code)
<1>1. Deepest \in 0..Deepest
  BY Bounds
<1>2. \A k \in DOMAIN cs : Concatenate(cs[k]) \in Code
  BY <1>1, TreesConcatenate
<1>3. [k \in DOMAIN cs |-> Concatenate(cs[k])] \in Seq(Code)
  BY <1>2
<1> QED
  BY <1>3, FlatType DEF Texted, Code

LEMMA TextedNone == Texted(<<>>) = <<>>
<1>1. [k \in DOMAIN <<>> |-> Concatenate((<<>>)[k])] = <<>>
  OBVIOUS
<1> QED
  BY <1>1, FlatNone DEF Texted

LEMMA TextedAppend ==
  ASSUME NEW cs \in Seq(Trees[Deepest]), NEW c \in Trees[Deepest]
  PROVE  Texted(Append(cs, c)) = Texted(cs) \o Concatenate(c)
<1> DEFINE ts == [k \in DOMAIN cs |-> Concatenate(cs[k])]
           xs == Append(cs, c)
<1>1. Deepest \in 0..Deepest
  BY Bounds
<1>2. ts \in Seq(Code) /\ Concatenate(c) \in Code
  BY <1>1, TextedList, TreesConcatenate
<1>3. [k \in DOMAIN xs |-> Concatenate(xs[k])] = Append(ts, Concatenate(c))
  <2>1. /\ DOMAIN xs = 1..(Len(cs) + 1) /\ xs[Len(cs) + 1] = c /\ Len(cs) \in Nat
        /\ \A k \in 1..Len(cs) : xs[k] = cs[k] /\ k \in DOMAIN cs
    OBVIOUS
  <2>2. Len(ts) = Len(cs) /\ \A k \in 1..Len(cs) : ts[k] = Concatenate(cs[k])
    OBVIOUS
  <2> HIDE DEF xs, ts
  <2>3. \A k \in 1..(Len(cs) + 1) : Concatenate(xs[k]) = Append(ts, Concatenate(c))[k]
    BY <1>2, <2>1, <2>2
  <2>4. Append(ts, Concatenate(c)) \in Seq(Code) /\ Len(Append(ts, Concatenate(c))) = Len(cs) + 1
    BY <1>2, <2>2
  <2>5. Append(ts, Concatenate(c)) = [k \in 1..(Len(cs) + 1) |-> Append(ts, Concatenate(c))[k]]
    <3> DEFINE y == Append(ts, Concatenate(c))
    <3> HIDE DEF y
    <3>1. y \in [1..Len(y) -> Code]
      BY <2>4, LenProperties DEF y
    <3>2. y = [k \in 1..(Len(cs) + 1) |-> y[k]]
      BY <2>4, <3>1 DEF y
    <3> QED
      BY <3>2 DEF y
  <2> QED
    BY <2>1, <2>3, <2>5
<1> HIDE DEF ts
<1>4. FlattenSeq(Append(ts, Concatenate(c))) = FlattenSeq(ts) \o Concatenate(c)
  BY <1>2, FlatAppend DEF Code
<1> QED
  BY <1>3, <1>4 DEF Texted, ts

(* Of sequences: what \o does to code, and the parts of a list.            *)
LEMMA CodeAssociative ==
  \A s, t, u \in Code : s \o (t \o u) = (s \o t) \o u /\ <<>> \o s = s /\ <<>> \in Code
  BY ConcatAssociative, ConcatEmptySeq DEF Code

LEMMA FrontAndLast ==
  ASSUME NEW S, NEW s \in Seq(S), s # <<>>
  PROVE  /\ Front(s) \in Seq(S) /\ Len(Front(s)) = Len(s) - 1 /\ Last(s) \in S /\ Last(s) = s[Len(s)]
         /\ Len(s) \in Nat \ {0} /\ \A k \in 1..(Len(s) - 1) : Front(s)[k] = s[k]
         /\ s = Append(Front(s), Last(s))
<1>1. Len(s) \in Nat \ {0} /\ Last(s) \in S /\ Last(s) = s[Len(s)]
  BY DEF Last
<1>2. /\ Front(s) \in Seq(S) /\ Len(Front(s)) = Len(s) - 1
      /\ \A k \in 1..(Len(s) - 1) : Front(s)[k] = s[k]
  <2>1. PICK m \in Nat : m = Len(s) - 1
    BY <1>1
  <2>2. Front(s) = SubSeq(s, 1, m) /\ \A k \in 1..m : s[k] \in S
    BY <1>1, <2>1 DEF Front
  <2> QED
    BY <2>1, <2>2, SubSeqProperties
<1> DEFINE t == Append(Front(s), Last(s))
<1>3. t \in Seq(S) /\ Len(t) = Len(s) /\ \A k \in 1..Len(s) : t[k] = s[k]
  BY <1>1, <1>2
<1> HIDE DEF t
<1>4. t = s
  BY <1>3, SeqEqual
<1> QED
  BY <1>1, <1>2, <1>4 DEF t

(* push() adds the code of the child, whether texts are joined or not.     *)
LEMMA PushConcatenates ==
  ASSUME NEW d \in 1..Deepest, NEW n \in NodesOver(Trees[d - 1]), NEW c \in Trees[d - 1]
  PROVE  /\ Push(n, c) \in NodesOver(Trees[d - 1]) /\ Push(n, c).type = n.type
         /\ Concatenate(Push(n, c)) = Concatenate(n) \o Concatenate(c)
<1> DEFINE cs == n.children
           S == Trees[d - 1]
<1>1. d - 1 \in 0..Deepest /\ cs \in Seq(S)
  BY Bounds DEF NodesOver
<1>2. \A m \in S : m \in Trees[Deepest] /\ Concatenate(m) \in Code
  BY <1>1, TreesConcatenate
<1>3. cs \in Seq(Trees[Deepest])
  BY <1>1, <1>2
<1>4. Concatenate(n) = Texted(cs)
  BY NodesConcatenate
<1>5. CASE cs # <<>> /\ c.type = "text" /\ Last(cs).type = "text"
  <2> DEFINE l == Last(cs)
             t == TextNode(l.text \o c.text)
  <2>1. Front(cs) \in Seq(S) /\ l \in S /\ cs = Append(Front(cs), l)
    BY <1>1, <1>5, FrontAndLast
  <2>2. l \in Texts /\ c \in Texts
    BY <1>1, <1>5, <2>1, Shapes
  <2>3. t \in Texts /\ Concatenate(t) = Concatenate(l) \o Concatenate(c)
    <3>1. t \in Texts /\ t.text = l.text \o c.text
      BY <2>2 DEF Texts, TextNode
    <3> QED
      BY <2>2, <3>1, TextsConcatenate
  <2>4. t \in S
    BY <1>1, <2>3, TextsAreTrees
  <2>5. Front(cs) \in Seq(Trees[Deepest]) /\ l \in Trees[Deepest] /\ t \in Trees[Deepest]
    BY <1>2, <2>1, <2>4
  <2> DEFINE xs == Append(Front(cs), t)
  <2>6. Push(n, c) = [n EXCEPT !.children = xs]
    BY <1>5 DEF Push
  <2>7. xs \in Seq(S)
    <3> HIDE DEF S, t
    <3> QED
      BY <2>1, <2>4
  <2>8. Texted(xs) = Texted(Front(cs)) \o Concatenate(t)
    BY <2>5, TextedAppend
  <2>9. Texted(cs) = Texted(Front(cs)) \o Concatenate(l)
    BY <2>1, <2>5, TextedAppend
  <2>10. Texted(Front(cs)) \in Code
    BY <2>5, TextedList
  <2>11. Texted(xs) = Texted(cs) \o Concatenate(c)
    <3>1. Concatenate(l) \in Code /\ Concatenate(c) \in Code
      BY <1>2, <2>1
    <3>2. Texted(Front(cs)) \o (Concatenate(l) \o Concatenate(c)) = (Texted(Front(cs)) \o Concatenate(l)) \o Concatenate(c)
      BY <2>10, <3>1, CodeAssociative
    <3> HIDE DEF xs, t, l
    <3> QED
      BY <2>3, <2>8, <2>9, <3>2
  <2> HIDE DEF xs
  <2>12. Push(n, c) \in NodesOver(S) /\ Push(n, c).type = n.type /\ Push(n, c).children = xs
    BY <2>6, <2>7 DEF NodesOver
  <2> QED
    BY <1>4, <2>11, <2>12, NodesConcatenate
<1>6. CASE ~(cs # <<>> /\ c.type = "text" /\ Last(cs).type = "text")
  <2> DEFINE xs == Append(cs, c)
  <2>1. Push(n, c) = [n EXCEPT !.children = xs]
    BY <1>6 DEF Push
  <2>2. xs \in Seq(S)
    <3>1. c \in S
      OBVIOUS
    <3> HIDE DEF S
    <3> QED
      BY <1>1, <3>1
  <2>3. Texted(xs) = Texted(cs) \o Concatenate(c)
    BY <1>2, <1>3, TextedAppend
  <2> HIDE DEF xs
  <2>4. Push(n, c) \in NodesOver(S) /\ Push(n, c).type = n.type /\ Push(n, c).children = xs
    BY <2>1, <2>2 DEF NodesOver
  <2> QED
    BY <1>4, <2>3, <2>4, NodesConcatenate
<1> QED
  BY <1>5, <1>6
-----------------------------------------------------------------------------
(* The open nodes, each deep enough for those that are open in it.         *)
Stack(ns) ==
  /\ ns \in Seq(Trees[Deepest]) /\ Len(ns) \in 1..MaxNesting
  /\ \A k \in 1..Len(ns) : ns[k] \in NodesOver(Trees[Deepest - k])

(* The k-th open node is a tree that fits into the one before.             *)
LEMMA NodesAreTrees ==
  ASSUME NEW k \in 1..Deepest
  PROVE  /\ Deepest - k \in 0..Deepest /\ (Deepest + 1 - k) \in 1..Deepest /\ (Deepest + 1 - k) - 1 = Deepest - k
         /\ NodesOver(Trees[Deepest - k]) \subseteq Trees[Deepest + 1 - k]
         /\ NodesOver(Trees[Deepest - k]) \subseteq Trees[Deepest]
<1>1. Deepest - k \in 0..Deepest /\ (Deepest + 1 - k) \in 1..Deepest /\ (Deepest + 1 - k) - 1 = Deepest - k
      /\ (Deepest + 1 - k) \in 0..Deepest
  BY Bounds
<1>2. NodesOver(Trees[Deepest - k]) \subseteq Trees[Deepest + 1 - k]
  BY <1>1, TreesRounds
<1> QED
  BY <1>1, <1>2, TreesConcatenate

(* A child for the innermost node, a node that is begun, and one that is   *)
(* given to its parent: each adds its own code to what was read.           *)
LEMMA Added ==
  ASSUME NEW ns, Stack(ns), NEW c \in Trees[Deepest - Len(ns)]
  PROVE  LET new == Append(Front(ns), Push(Last(ns), c))
         IN /\ Stack(new) /\ Len(new) = Len(ns) /\ \A k \in 1..Len(ns) : new[k].type = ns[k].type
            /\ Texted(new) = Texted(ns) \o Concatenate(c)
<1> DEFINE m == Len(ns)
           p == Push(Last(ns), c)
           new == Append(Front(ns), p)
           d == Deepest + 1 - m
<1>1. m \in 1..MaxNesting /\ m \in 1..Deepest /\ ns # <<>> /\ ns \in Seq(Trees[Deepest]) /\ ns[m] \in NodesOver(Trees[Deepest - m])
  BY LexerAssumption DEF Stack, Deepest
<1>2. /\ d \in 1..Deepest /\ d - 1 = Deepest - m /\ Deepest - m \in 0..Deepest
      /\ NodesOver(Trees[Deepest - m]) \subseteq Trees[Deepest]
  BY <1>1, NodesAreTrees
<1>3. /\ Front(ns) \in Seq(Trees[Deepest]) /\ Len(Front(ns)) = m - 1 /\ Last(ns) = ns[m]
      /\ \A k \in 1..(m - 1) : Front(ns)[k] = ns[k]
      /\ ns = Append(Front(ns), Last(ns))
  BY <1>1, FrontAndLast
<1>4. /\ p \in NodesOver(Trees[Deepest - m]) /\ p.type = ns[m].type
      /\ Concatenate(p) = Concatenate(ns[m]) \o Concatenate(c)
  <2> HIDE DEF d
  <2>1. Last(ns) \in NodesOver(Trees[d - 1]) /\ c \in Trees[d - 1]
    BY <1>1, <1>2, <1>3
  <2> QED
    BY <1>2, <1>3, <2>1, PushConcatenates
<1>5. p \in Trees[Deepest] /\ ns[m] \in Trees[Deepest]
  BY <1>1, <1>2, <1>4
<1> HIDE DEF p
<1>6. /\ new \in Seq(Trees[Deepest]) /\ Len(new) = m /\ new[m] = p
      /\ \A k \in 1..(m - 1) : new[k] = ns[k]
  BY <1>1, <1>3, <1>5
<1>7. Texted(new) = Texted(Front(ns)) \o Concatenate(p)
  BY <1>3, <1>5, TextedAppend
<1>8. Texted(ns) = Texted(Front(ns)) \o Concatenate(ns[m])
  BY <1>3, <1>5, TextedAppend
<1>9. Texted(Front(ns)) \in Code /\ Concatenate(ns[m]) \in Code /\ Concatenate(c) \in Code
  <2>1. Deepest \in 0..Deepest
    BY Bounds
  <2> QED
    BY <1>2, <1>3, <1>5, <2>1, TextedList, TreesConcatenate
<1>10. Texted(new) = Texted(ns) \o Concatenate(c)
  BY <1>4, <1>7, <1>8, <1>9, CodeAssociative
<1> HIDE DEF new
<1>11. \A k \in 1..m : k = m \/ k \in 1..(m - 1)
  BY <1>1
<1>12. Stack(new) /\ \A k \in 1..m : new[k].type = ns[k].type
  BY <1>1, <1>4, <1>6, <1>11 DEF Stack
<1> QED
  BY <1>6, <1>10, <1>12 DEF new, p

(* A node that holds a text only.                                          *)
LEMMA WholeNode ==
  ASSUME NEW d \in 1..Deepest, NEW type \in NodeTypes, NEW text \in Texts
  PROVE  /\ Node(type, <<text>>) \in NodesOver(Trees[d - 1]) /\ Node(type, <<text>>) \in Trees[d]
         /\ Concatenate(Node(type, <<text>>)) = text.text
<1> DEFINE p == Node(type, <<text>>)
           S == Trees[d - 1]
<1>1. d - 1 \in 0..Deepest
  BY Bounds
<1>2. text \in S /\ text \in Trees[Deepest]
  BY <1>1, TextsAreTrees, Bounds
<1>3. <<text>> \in Seq(S)
  <2> HIDE DEF S
  <2> QED
    BY <1>2
<1>4. p \in NodesOver(S) /\ p.children = <<text>>
  <2> HIDE DEF S
  <2> QED
    BY <1>3 DEF NodesOver, Node
<1>5. p \in Trees[d]
  BY <1>4, TreesRounds
<1>6. Concatenate(p) = Texted(<<text>>)
  BY <1>4, NodesConcatenate
<1>7. <<text>> = Append(<<>>, text) /\ <<>> \in Seq(Trees[Deepest])
  OBVIOUS
<1>8. Texted(<<text>>) = Texted(<<>>) \o Concatenate(text)
  BY <1>2, <1>7, TextedAppend
<1>9. Concatenate(text) = text.text /\ text.text \in Code
  BY TextsConcatenate
<1> QED
  BY <1>4, <1>5, <1>6, <1>8, <1>9, TextedNone, CodeAssociative

LEMMA Started ==
  ASSUME NEW ns, Stack(ns), Len(ns) < MaxNesting, NEW type \in NodeTypes, NEW text \in Texts
  PROVE  LET new == Append(ns, Node(type, <<text>>))
         IN Stack(new) /\ Texted(new) = Texted(ns) \o text.text
<1> DEFINE m == Len(ns)
           p == Node(type, <<text>>)
           new == Append(ns, p)
<1>1. m + 1 \in 1..MaxNesting /\ m + 1 \in 1..Deepest /\ ns \in Seq(Trees[Deepest]) /\ m \in Nat
  BY LexerAssumption DEF Stack, Deepest
<1>2. /\ NodesOver(Trees[Deepest - (m + 1)]) \subseteq Trees[Deepest] /\ Deepest - (m + 1) \in 0..Deepest
      /\ (Deepest + 1 - (m + 1)) \in 1..Deepest /\ (Deepest + 1 - (m + 1)) - 1 = Deepest - (m + 1)
  BY <1>1, NodesAreTrees
<1>3. PICK d \in 1..Deepest : d - 1 = Deepest - (m + 1)
  BY <1>2
<1>4. p \in NodesOver(Trees[Deepest - (m + 1)])
  BY <1>3, WholeNode
<1>5. Concatenate(p) = text.text
  BY <1>3, WholeNode
<1> HIDE DEF p
<1>6. p \in Trees[Deepest]
  BY <1>2, <1>4
<1>7. /\ new \in Seq(Trees[Deepest]) /\ Len(new) = m + 1 /\ new[m + 1] = p
      /\ \A k \in 1..m : new[k] = ns[k]
  BY <1>1, <1>6
<1>8. Texted(new) = Texted(ns) \o text.text
  BY <1>1, <1>5, <1>6, TextedAppend
<1> HIDE DEF new
<1>9. \A k \in 1..(m + 1) : k = m + 1 \/ k \in 1..m
  BY <1>1
<1>10. Stack(new)
  BY <1>1, <1>4, <1>7, <1>9 DEF Stack
<1> QED
  BY <1>8, <1>10 DEF new, p

LEMMA Ended ==
  ASSUME NEW ns, Stack(ns), Len(ns) # 1, NEW text \in Texts
  PROVE  LET new == Append(Front(Front(ns)), Push(Last(Front(ns)), Push(Last(ns), text)))
         IN /\ Stack(new) /\ Len(new) = Len(ns) - 1 /\ \A k \in 1..Len(new) : new[k].type = ns[k].type
            /\ Texted(new) = Texted(ns) \o text.text
<1> DEFINE m == Len(ns)
           f == Front(ns)
           p == Push(Last(ns), text)
           new == Append(Front(f), Push(Last(f), p))
<1>1. m \in 1..MaxNesting /\ m \in 1..Deepest /\ m # 1 /\ ns # <<>> /\ ns \in Seq(Trees[Deepest]) /\ ns[m] \in NodesOver(Trees[Deepest - m])
  BY LexerAssumption DEF Stack, Deepest
<1>2. /\ (Deepest + 1 - m) \in 1..Deepest /\ (Deepest + 1 - m) - 1 = Deepest - m /\ Deepest - m \in 0..Deepest
      /\ NodesOver(Trees[Deepest - m]) \subseteq Trees[Deepest + 1 - m]
      /\ NodesOver(Trees[Deepest - m]) \subseteq Trees[Deepest]
  BY <1>1, NodesAreTrees
<1>3. /\ f \in Seq(Trees[Deepest]) /\ Len(f) = m - 1 /\ Last(ns) = ns[m]
      /\ \A k \in 1..(m - 1) : f[k] = ns[k]
      /\ ns = Append(f, Last(ns))
  BY <1>1, FrontAndLast
<1>4. /\ p \in NodesOver(Trees[Deepest - m]) /\ Concatenate(p) = Concatenate(ns[m]) \o text.text
  <2>1. text \in Trees[Deepest - m] /\ Concatenate(text) = text.text
    BY <1>2, TextsAreTrees, TextsConcatenate
  <2> DEFINE d == Deepest + 1 - m
  <2>2. d \in 1..Deepest /\ d - 1 = Deepest - m
    BY <1>2
  <2> HIDE DEF d
  <2>3. Last(ns) \in NodesOver(Trees[d - 1]) /\ text \in Trees[d - 1]
    BY <1>1, <1>3, <2>1, <2>2
  <2>4. /\ p \in NodesOver(Trees[d - 1])
        /\ Concatenate(p) = Concatenate(Last(ns)) \o Concatenate(text)
    BY <2>2, <2>3, PushConcatenates
  <2> HIDE DEF p
  <2> QED
    BY <1>3, <2>1, <2>2, <2>4
<1>5. Stack(f)
  <2>1. m - 1 \in 1..MaxNesting /\ \A k \in 1..(m - 1) : k \in 1..m
    <3>1. PICK j : j = m /\ j \in 1..MaxNesting /\ j # 1
      BY <1>1
    <3>2. j - 1 \in 1..MaxNesting /\ \A k \in 1..(j - 1) : k \in 1..j
      BY <3>1, LexerAssumption
    <3> QED
      BY <3>1, <3>2
  <2> QED
    BY <1>3, <2>1 DEF Stack
<1>6. p \in Trees[Deepest - Len(f)]
  BY <1>1, <1>2, <1>3, <1>4, Bounds
<1> HIDE DEF f, p
<1>7. /\ Stack(new) /\ Len(new) = Len(f) /\ \A k \in 1..Len(f) : new[k].type = f[k].type
      /\ Texted(new) = Texted(f) \o Concatenate(p)
  BY <1>5, <1>6, Added
<1>8. ns[m] \in Trees[Deepest]
  BY <1>1, <1>2
<1>9. Texted(ns) = Texted(f) \o Concatenate(ns[m])
  BY <1>3, <1>8, TextedAppend
<1>10. Texted(f) \in Code /\ Concatenate(ns[m]) \in Code /\ text.text \in Code
  <2>1. Deepest \in 0..Deepest
    BY Bounds
  <2> QED
    BY <1>3, <1>8, <2>1, TextedList, TreesConcatenate, TextsConcatenate
<1>11. Texted(new) = Texted(ns) \o text.text
  <2>1. Texted(f) \o (Concatenate(ns[m]) \o text.text) = (Texted(f) \o Concatenate(ns[m])) \o text.text
    BY <1>10, CodeAssociative
  <2> HIDE DEF new
  <2> QED
    BY <1>4, <1>7, <1>9, <2>1
<1> HIDE DEF new
<1>12. Len(new) = m - 1 /\ \A k \in 1..Len(new) : new[k].type = ns[k].type
  BY <1>3, <1>7
<1> QED
  BY <1>7, <1>11, <1>12 DEF new, f, p

(* The nodes that are still open are put into one another.                 *)
LEMMA TreeRounds ==
  ASSUME NEW ns, Len(ns) \in Nat \ {0}
  PROVE \E f : /\ f[0] = Last(ns) /\ \A j \in 1..(Len(ns) - 1) : f[j] = Push(ns[Len(ns) - j], f[j - 1])
               /\ TreeOf(ns) = f[Len(ns) - 1]
<1> DEFINE G(y, n) == Push(ns[Len(ns) - n], y)
           B == Last(ns)
           Is(f, k) == f = [n \in 0..k |-> IF n = 0 THEN B ELSE G(f[n - 1], n)]
<1>1. \A k \in Nat : \E f : Is(f, k)
  <2> DEFINE T == {k \in Nat : ~\E f : Is(f, k)}
  <2>1. SUFFICES ASSUME T # {} PROVE FALSE
    OBVIOUS
  <2>2. PICK k \in T : \A m \in T : k <= m
    <3> HIDE DEF T
    <3> QED
      BY <2>1, LeastNumber DEF T
  <2> HIDE DEF G, B
  <2>3. k # 0
    <3> SUFFICES ASSUME k = 0 PROVE FALSE
      OBVIOUS
    <3>1. Is([n \in 0..0 |-> B], 0)
      OBVIOUS
    <3> QED
      BY <2>2, <3>1
  <2>4. k - 1 \in Nat /\ k - 1 \notin T
    <3>1. k \in Nat
      OBVIOUS
    <3>2. k - 1 \in Nat /\ ~(k <= k - 1)
      BY <3>1, <2>3
    <3> HIDE DEF T
    <3> QED
      BY <2>2, <3>2
  <2>5. PICK f : Is(f, k - 1)
    BY <2>4
  <2>6. Is([n \in 0..k |-> IF n = k THEN G(f[k - 1], k) ELSE f[n]], k)
    <3> DEFINE g == [n \in 0..k |-> IF n = k THEN G(f[k - 1], k) ELSE f[n]]
    <3>1. \A n \in 0..k : n = k \/ n \in 0..(k - 1)
      BY <2>4
    <3>2. \A n \in 0..(k - 1) : g[n] = f[n] /\ f[n] = IF n = 0 THEN B ELSE G(f[n - 1], n)
      BY <2>4, <2>5
    <3>3. \A n \in 0..k : n # 0 => n - 1 \in 0..(k - 1)
      BY <2>4
    <3>4. g[k] = G(f[k - 1], k)
      BY <2>4
    <3>5. \A n \in 0..k : g[n] = IF n = 0 THEN B ELSE G(g[n - 1], n)
      BY <2>4, <2>3, <3>1, <3>2, <3>3, <3>4
    <3> QED
      BY <3>5
  <2> QED
    BY <2>2, <2>6
<1> DEFINE L == Len(ns) - 1
<1>2. PICK f : Is(f, L) /\ TreeOf(ns) = f[L]
  <2> DEFINE c == CHOOSE f : Is(f, L)
  <2>1. Is(c, L)
    <3>1. L \in Nat
      OBVIOUS
    <3> HIDE DEF Is
    <3> QED
      BY <1>1, <3>1
  <2>2. TreeOf(ns) = c[L]
    BY DEF TreeOf
  <2> QED
    BY <2>1, <2>2
<1>3. f[0] = Last(ns) /\ \A j \in 1..L : f[j] = Push(ns[Len(ns) - j], f[j - 1])
  BY <1>2
<1> QED
  BY <1>2, <1>3

(* The tree that create() returns holds what all open nodes hold.          *)
LEMMA TreeConcatenates ==
  ASSUME NEW ns, Stack(ns)
  PROVE  Concatenate(TreeOf(ns)) = Texted(ns)
<1> DEFINE m == Len(ns)
           Firsts(k) == SubSeq(ns, 1, k)
<1>1. m \in 1..MaxNesting /\ ns # <<>> /\ ns \in Seq(Trees[Deepest]) /\ m \in Nat \ {0} /\ m \in 1..(Deepest - 1)
  BY LexerAssumption DEF Stack, Deepest
<1>2. PICK f : /\ f[0] = Last(ns) /\ \A j \in 1..(m - 1) : f[j] = Push(ns[m - j], f[j - 1])
               /\ TreeOf(ns) = f[m - 1]
  BY <1>1, TreeRounds
<1>3. ASSUME NEW k \in 1..m
      PROVE  /\ Firsts(k - 1) \in Seq(Trees[Deepest]) /\ Firsts(k) = Append(Firsts(k - 1), ns[k])
             /\ ns[k] \in Trees[Deepest]
  <2> DEFINE S == Trees[Deepest]
  <2>1. ns \in Seq(S) /\ m = Len(ns) /\ m \in Nat
    BY <1>1
  <2> HIDE DEF S, m
  <2>2. PICK j \in Nat : j = k - 1
    BY <2>1
  <2>3. ns[k] \in S /\ \A i \in 1..k : ns[i] \in S
    BY <2>1
  <2>4. /\ SubSeq(ns, 1, j) \in Seq(S) /\ Len(SubSeq(ns, 1, j)) = j
        /\ \A i \in 1..j : SubSeq(ns, 1, j)[i] = ns[i]
    BY <2>1, <2>2, <2>3, SubSeqProperties
  <2>5. /\ SubSeq(ns, 1, k) \in Seq(S) /\ Len(SubSeq(ns, 1, k)) = k
        /\ \A i \in 1..k : SubSeq(ns, 1, k)[i] = ns[i]
    BY <2>1, <2>2, <2>3, SubSeqProperties
  <2> DEFINE x == SubSeq(ns, 1, k)
             y == Append(SubSeq(ns, 1, j), ns[k])
  <2>6. y \in Seq(S) /\ Len(y) = k /\ \A i \in 1..k : y[i] = ns[i]
    BY <2>2, <2>3, <2>4
  <2> HIDE DEF y
  <2>7. x = y
    BY <2>5, <2>6, SeqEqual
  <2> QED
    BY <2>2, <2>3, <2>4, <2>7 DEF S, y
<1>4. Firsts(0) = <<>> /\ Firsts(m) = ns
  BY <1>1
<1>5. \A k \in 1..m : /\ k \in 1..Deepest /\ ns[k] \in NodesOver(Trees[Deepest - k])
  BY <1>1, Bounds DEF Stack
<1> HIDE DEF Firsts
<1> DEFINE T == {j \in 0..(m - 1) : /\ f[j] \in NodesOver(Trees[Deepest - (m - j)])
                                    /\ Texted(ns) = Texted(Firsts((m - j) - 1)) \o Concatenate(f[j])}
<1>6. 0 \in T
  <2>1. f[0] = ns[m] /\ m \in 1..m /\ 0 \in 0..(m - 1) /\ m - 0 = m
    BY <1>1, <1>2 DEF Last
  <2>2. Texted(ns) = Texted(Firsts(m - 1)) \o Concatenate(ns[m])
    <3>1. /\ Firsts(m - 1) \in Seq(Trees[Deepest]) /\ ns = Append(Firsts(m - 1), ns[m])
          /\ ns[m] \in Trees[Deepest]
      BY <1>3, <1>4, <2>1
    <3>2. Texted(Append(Firsts(m - 1), ns[m])) = Texted(Firsts(m - 1)) \o Concatenate(ns[m])
      BY <3>1, TextedAppend
    <3> QED
      BY <3>1, <3>2
  <2> QED
    BY <1>5, <2>1, <2>2
<1>7. ASSUME NEW j \in 1..(m - 1), j - 1 \in T PROVE j \in T
  <2> DEFINE k == m - j
  <2>1. /\ k \in 1..m /\ k + 1 \in 1..m /\ m - (j - 1) = k + 1 /\ (k + 1) - 1 = k /\ j \in 0..(m - 1)
        /\ k \in 1..Deepest /\ k + 1 \in 1..Deepest
    BY <1>1, Bounds
  <2>2. f[j - 1] \in NodesOver(Trees[Deepest - (k + 1)]) /\ Texted(ns) = Texted(Firsts(k)) \o Concatenate(f[j - 1])
    BY <1>7, <2>1
  <2>3. f[j] = Push(ns[k], f[j - 1])
    BY <1>2
  <2> HIDE DEF k
  <2>4. f[j - 1] \in Trees[Deepest - k]
    <3>1. Deepest + 1 - (k + 1) = Deepest - k
      BY <2>1, Bounds
    <3> QED
      BY <2>1, <2>2, <3>1, NodesAreTrees
  <2>5. /\ f[j] \in NodesOver(Trees[Deepest - k])
        /\ Concatenate(f[j]) = Concatenate(ns[k]) \o Concatenate(f[j - 1])
    <3> DEFINE d == Deepest + 1 - k
    <3>1. d \in 1..Deepest /\ d - 1 = Deepest - k
      BY <2>1, NodesAreTrees
    <3>2. ns[k] \in NodesOver(Trees[d - 1]) /\ f[j - 1] \in Trees[d - 1]
      BY <1>5, <2>1, <2>4, <3>1
    <3> HIDE DEF d
    <3> QED
      BY <2>3, <3>1, <3>2, PushConcatenates
  <2>6. Texted(Firsts(k)) = Texted(Firsts(k - 1)) \o Concatenate(ns[k])
    BY <1>3, <2>1, TextedAppend
  <2>7. Texted(Firsts(k - 1)) \in Code /\ Concatenate(ns[k]) \in Code /\ Concatenate(f[j - 1]) \in Code
    <3>1. Deepest \in 0..Deepest /\ Deepest - k \in 0..Deepest
      BY Bounds, <2>1
    <3> QED
      BY <1>3, <2>1, <2>4, <3>1, TextedList, TreesConcatenate
  <2>8. Texted(ns) = Texted(Firsts(k - 1)) \o Concatenate(f[j])
    BY <2>2, <2>5, <2>6, <2>7, CodeAssociative
  <2> QED
    BY <2>1, <2>5, <2>8 DEF k
<1>8. m - 1 \in T
  <2>1. m - 1 \in Nat /\ m - 1 \in 0..(m - 1)
    BY <1>1
  <2> HIDE DEF T
  <2> QED
    BY <1>6, <1>7, <2>1, UpTo
<1>9. /\ (m - (m - 1)) - 1 = 0 /\ m - (m - 1) = 1 /\ 1 \in 1..Deepest
  BY <1>1, Bounds
<1>10. f[m - 1] \in Trees[Deepest] /\ Texted(ns) = Texted(Firsts(0)) \o Concatenate(f[m - 1])
  BY <1>8, <1>9, NodesAreTrees
<1>11. Concatenate(f[m - 1]) \in Code
  BY <1>10, TreesConcatenate, Bounds
<1> QED
  BY <1>2, <1>4, <1>10, <1>11, TextedNone DEF Code
-----------------------------------------------------------------------------
(* Where things end in the code.                                           *)
LEMMA Minimum ==
  ASSUME NEW is \in SUBSET Nat, Min0(is) # 0
  PROVE  Min0(is) \in is
<1>1. is # {}
  BY DEF Min0
<1>2. \E i \in is : \A j \in is : i <= j
  BY <1>1, LeastNumber
<1> QED
  BY <1>1, <1>2 DEF Min0

LEMMA LineEnds ==
  ASSUME NEW c \in Code, NEW i \in 1..Len(c), ~AtLineEnd(c, i)
  PROVE  LineEnd(c, i) \in (i + 1)..(Len(c) + 1)
<1> DEFINE T == {j \in i..(Len(c) + 1) : AtLineEnd(c, j)}
<1>1. T \in SUBSET Nat
  OBVIOUS
<1>2. Len(c) + 1 \in T
  BY DEF AtLineEnd, Sym, Code
<1>3. PICK j \in T : \A m \in T : j <= m
  <2> HIDE DEF T
  <2> QED
    BY <1>1, <1>2, LeastNumber
<1>4. \A k \in i..(j - 1) : ~AtLineEnd(c, k)
  <2> TAKE k \in i..(j - 1)
  <2>1. k \in i..(Len(c) + 1) /\ ~(j <= k)
    BY <1>1, <1>3
  <2>2. k \notin T
    <3> HIDE DEF T
    <3> QED
      BY <1>3, <2>1
  <2> QED
    BY <2>1, <2>2
<1>5. j \in i..(Len(c) + 1) /\ AtLineEnd(c, j)
  BY <1>3
<1> HIDE DEF T
<1> DEFINE P(k) == AtLineEnd(c, k) /\ \A l \in i..(k - 1) : ~AtLineEnd(c, l)
<1>6. P(j)
  BY <1>4, <1>5
<1>7. LineEnd(c, i) = CHOOSE k \in i..(Len(c) + 1) : P(k)
  BY DEF LineEnd
<1>8. LineEnd(c, i) \in i..(Len(c) + 1) /\ P(LineEnd(c, i))
  <2> HIDE DEF P
  <2> QED
    BY <1>5, <1>6, <1>7
<1>9. LineEnd(c, i) # i
  BY <1>8
<1> QED
  BY <1>8, <1>9

LEMMA CommentEnds ==
  ASSUME NEW c \in Code, NEW i \in 1..Len(c), CommentEnd(c, i) # 0
  PROVE  CommentEnd(c, i) \in (i + 1)..Len(c)
<1> DEFINE T == {j \in (i + 1)..Len(c) : c[j] = "*/"}
<1>1. T \in SUBSET Nat /\ CommentEnd(c, i) = Min0(T) /\ T \subseteq (i + 1)..Len(c)
  BY DEF CommentEnd
<1> HIDE DEF T
<1> QED
  BY <1>1, Minimum

LEMMA StringEnds ==
  ASSUME NEW c \in Code, NEW i \in 1..Len(c), NEW quote, StringEnd(c, i + 1, quote) # 0
  PROVE  StringEnd(c, i + 1, quote) \in (i + 1)..Len(c)
<1>1. \E T : T \in SUBSET ((i + 1)..Len(c)) /\ StringEnd(c, i + 1, quote) = Min0(T)
  BY DEF StringEnd
<1>2. PICK T : T \in SUBSET ((i + 1)..Len(c)) /\ StringEnd(c, i + 1, quote) = Min0(T)
  BY <1>1
<1>3. T \in SUBSET Nat
  BY <1>2
<1> QED
  BY <1>2, <1>3, Minimum
-----------------------------------------------------------------------------
(* The tokens: what the rules of a state may do.                           *)
States == {"sql", "inner", "js", "template", "single", "double"}

Starts(token, state) ==
  /\ token.does = "start" /\ token.to \in {"js", "inner", "single", "double"}
  /\ token.type \in NodeTypes /\ token.type \in NodeOfState(token.to)
  /\ token.type = "sql" => state = "sql"
  /\ token.type \in {"string", "placeholder"} => state \in {"sql", "inner", "single", "double"}
Closes(token, state) ==
  token.does = "close" /\ token.to = "pop" /\ state \in {"js", "inner", "single", "double"}
Adds(token, state) ==
  \/ token.does = "text" /\ token.to = ""
  \/ token.does = "text" /\ token.to = "template"
  \/ token.does = "text" /\ token.to = "pop" /\ state = "template"
  \/ token.does = "whole" /\ token.to = "" /\ token.type \in NodeTypes
Allowed(token, state, left) ==
  token.length \in 1..left /\ (Starts(token, state) \/ Closes(token, state) \/ Adds(token, state))

(* What each state's rules do, plain text first.                           *)
LEMMA Simple ==
  ASSUME NEW c \in Code, NEW i \in 1..Len(c), NEW state \in States
  PROVE  /\ \A n \in 1..(Len(c) + 1 - i) : Allowed(PlainText(n), state, Len(c) + 1 - i)
         /\ 1 \in 1..(Len(c) + 1 - i)
  BY DEF Allowed, Adds, PlainText, Token, Code

LEMMA CommentsAndStringsAllowed ==
  ASSUME NEW c \in Code, NEW i \in 1..Len(c), NEW state \in {"sql", "inner"}
  PROVE  Allowed(CommentsAndStrings(c, i, PlainText(1)), state, Len(c) + 1 - i)
<1> DEFINE left == Len(c) + 1 - i
           t == CommentsAndStrings(c, i, PlainText(1))
<1>1. left \in Nat /\ 1 \in 1..left
  BY DEF Code
<1>2. ASSUME NEW n \in 1..left, NEW type \in NodeTypes PROVE Allowed(Token("whole", type, n, ""), state, left)
  BY DEF Allowed, Adds, Token
<1>3. /\ Allowed(Token("start", "placeholder", 1, "js"), state, left)
      /\ Allowed(Token("start", "string", 1, "single"), state, left)
      /\ Allowed(Token("start", "string", 1, "double"), state, left)
  BY <1>1 DEF Allowed, Starts, Token, NodeOfState, NodeTypes
<1>4. "separator" \in NodeTypes /\ "comment" \in NodeTypes
  BY DEF NodeTypes
<1>5. Sym(c, i) \in {"--", "---"} => LineEnd(c, i) - i \in 1..left
  <2> SUFFICES ASSUME Sym(c, i) \in {"--", "---"} PROVE LineEnd(c, i) - i \in 1..left
    OBVIOUS
  <2>1. ~AtLineEnd(c, i)
    BY DEF AtLineEnd
  <2>2. LineEnd(c, i) \in (i + 1)..(Len(c) + 1)
    BY <2>1, LineEnds
  <2> QED
    BY <2>2 DEF Code
<1>6. CommentEnd(c, i) # 0 => CommentEnd(c, i) - i + 1 \in 1..left
  <2> SUFFICES ASSUME CommentEnd(c, i) # 0 PROVE CommentEnd(c, i) - i + 1 \in 1..left
    OBVIOUS
  <2>1. CommentEnd(c, i) \in (i + 1)..Len(c)
    BY CommentEnds
  <2> QED
    BY <2>1 DEF Code
<1>7. Allowed(PlainText(1), state, left)
  BY <1>1, Simple DEF States
<1>8. \/ t = Token("whole", "separator", 1, "")
      \/ Sym(c, i) \in {"--", "---"} /\ t = Token("whole", "comment", LineEnd(c, i) - i, "")
      \/ CommentEnd(c, i) # 0 /\ t = Token("whole", "comment", CommentEnd(c, i) - i + 1, "")
      \/ t = Token("start", "placeholder", 1, "js")
      \/ t = Token("start", "string", 1, "single")
      \/ t = Token("start", "string", 1, "double")
      \/ t = PlainText(1)
  <2> DEFINE none == ""
             single == "'"
             double == "\""
             comment == "/*"
             placeholder == "${"
  <2>1. t = CASE Sym(c, i) = "---" /\ AtLineEnd(c, i + 1) -> Token("whole", "separator", 1, none)
              [] Sym(c, i) \in {"--", "---"} -> Token("whole", "comment", LineEnd(c, i) - i, none)
              [] Sym(c, i) = comment /\ CommentEnd(c, i) # 0 ->
                   Token("whole", "comment", CommentEnd(c, i) - i + 1, none)
              [] Sym(c, i) = placeholder -> Token("start", "placeholder", 1, "js")
              [] Sym(c, i) = single -> Token("start", "string", 1, "single")
              [] Sym(c, i) = double -> Token("start", "string", 1, "double")
              [] OTHER -> PlainText(1)
    BY DEF CommentsAndStrings
  <2> HIDE DEF none, single, double, comment, placeholder, t
  <2>2. \/ t = Token("whole", "separator", 1, none)
        \/ Sym(c, i) \in {"--", "---"} /\ t = Token("whole", "comment", LineEnd(c, i) - i, none)
        \/ CommentEnd(c, i) # 0 /\ t = Token("whole", "comment", CommentEnd(c, i) - i + 1, none)
        \/ t = Token("start", "placeholder", 1, "js")
        \/ t = Token("start", "string", 1, "single")
        \/ t = Token("start", "string", 1, "double")
        \/ t = PlainText(1)
    BY <2>1
  <2> QED
    BY <2>2, Zenon DEF none
<1> HIDE DEF t, left
<1>9. Allowed(t, state, left)
  BY <1>1, <1>2, <1>3, <1>4, <1>5, <1>6, <1>7, <1>8
<1> QED
  BY <1>9 DEF t, left

LEMMA SqlAllowed ==
  ASSUME NEW c \in Code, NEW i \in 1..Len(c)
  PROVE  Allowed(SqlToken(c, i), "sql", Len(c) + 1 - i)
<1> DEFINE left == Len(c) + 1 - i
<1>1. 1 \in 1..left
  BY DEF Code
<1>2. Allowed(Token("start", "js", 1, "js"), "sql", left) /\ Allowed(Token("start", "sql", 1, "inner"), "sql", left)
  BY <1>1 DEF Allowed, Starts, Token, NodeOfState, NodeTypes
<1>3. Allowed(CommentsAndStrings(c, i, PlainText(1)), "sql", left)
  BY CommentsAndStringsAllowed
<1> HIDE DEF left
<1>4. Allowed(SqlToken(c, i), "sql", left)
  BY <1>2, <1>3 DEF SqlToken
<1> QED
  BY <1>4 DEF left

LEMMA InnerSqlAllowed ==
  ASSUME NEW c \in Code, NEW i \in 1..Len(c)
  PROVE  Allowed(InnerSqlToken(c, i), "inner", Len(c) + 1 - i)
<1> DEFINE left == Len(c) + 1 - i
<1>1. 1 \in 1..left
  BY DEF Code
<1>2. Allowed(Token("close", "", 1, "pop"), "inner", left)
  BY <1>1 DEF Allowed, Closes, Token
<1>3. Allowed(CommentsAndStrings(c, i, PlainText(1)), "inner", left)
  BY CommentsAndStringsAllowed
<1> HIDE DEF left
<1>4. Allowed(InnerSqlToken(c, i), "inner", left)
  BY <1>2, <1>3 DEF InnerSqlToken
<1> QED
  BY <1>4 DEF left

LEMMA JsAllowed ==
  ASSUME NEW c \in Code, NEW i \in 1..Len(c)
  PROVE  Allowed(JsToken(c, i), "js", Len(c) + 1 - i)
<1> DEFINE left == Len(c) + 1 - i
           t == JsToken(c, i)
<1>1. 1 \in 1..left
  BY DEF Code
<1>2. /\ Allowed(Token("start", "js", 1, "js"), "js", left)
      /\ Allowed(Token("text", "", 1, "template"), "js", left)
      /\ Allowed(Token("close", "", 1, "pop"), "js", left)
  BY <1>1 DEF Allowed, Starts, Closes, Adds, Token, NodeOfState, NodeTypes
<1>3. \A n \in 1..left : Allowed(PlainText(n), "js", left)
  BY Simple DEF States
<1>4. Sym(c, i) = "//" => LineEnd(c, i) - i \in 1..left
  <2> SUFFICES ASSUME Sym(c, i) = "//" PROVE LineEnd(c, i) - i \in 1..left
    OBVIOUS
  <2>1. ~AtLineEnd(c, i)
    BY DEF AtLineEnd
  <2>2. LineEnd(c, i) \in (i + 1)..(Len(c) + 1)
    BY <2>1, LineEnds
  <2> QED
    BY <2>2 DEF Code
<1>5. CommentEnd(c, i) # 0 => CommentEnd(c, i) - i + 1 \in 1..left
  <2> SUFFICES ASSUME CommentEnd(c, i) # 0 PROVE CommentEnd(c, i) - i + 1 \in 1..left
    OBVIOUS
  <2>1. CommentEnd(c, i) \in (i + 1)..Len(c)
    BY CommentEnds
  <2> QED
    BY <2>1 DEF Code
<1>6. StringEnd(c, i + 1, Sym(c, i)) # 0 => StringEnd(c, i + 1, Sym(c, i)) - i + 1 \in 1..left
  <2> SUFFICES ASSUME StringEnd(c, i + 1, Sym(c, i)) # 0 PROVE StringEnd(c, i + 1, Sym(c, i)) - i + 1 \in 1..left
    OBVIOUS
  <2>1. StringEnd(c, i + 1, Sym(c, i)) \in (i + 1)..Len(c)
    BY StringEnds
  <2> QED
    BY <2>1 DEF Code
<1>7. \/ Sym(c, i) = "//" /\ t = PlainText(LineEnd(c, i) - i)
      \/ CommentEnd(c, i) # 0 /\ t = PlainText(CommentEnd(c, i) - i + 1)
      \/ StringEnd(c, i + 1, Sym(c, i)) # 0 /\ t = PlainText(StringEnd(c, i + 1, Sym(c, i)) - i + 1)
      \/ t = Token("text", "", 1, "template")
      \/ t = Token("start", "js", 1, "js")
      \/ t = Token("close", "", 1, "pop")
      \/ t = PlainText(1)
  <2> DEFINE none == ""
             quotes == {"'", "\""}
             comment == "/*"
             end == "}"
  <2>1. t = CASE Sym(c, i) = "//" -> PlainText(LineEnd(c, i) - i)
              [] Sym(c, i) = comment /\ CommentEnd(c, i) # 0 -> PlainText(CommentEnd(c, i) - i + 1)
              [] Sym(c, i) \in quotes /\ StringEnd(c, i + 1, Sym(c, i)) # 0 ->
                   PlainText(StringEnd(c, i + 1, Sym(c, i)) - i + 1)
              [] Sym(c, i) = "backtick" -> Token("text", none, 1, "template")
              [] Sym(c, i) \in Braces -> Token("start", "js", 1, "js")
              [] Sym(c, i) = end -> Token("close", none, 1, "pop")
              [] OTHER -> PlainText(1)
    BY DEF JsToken
  <2> HIDE DEF none, quotes, comment, end, t
  <2>2. \/ Sym(c, i) = "//" /\ t = PlainText(LineEnd(c, i) - i)
        \/ CommentEnd(c, i) # 0 /\ t = PlainText(CommentEnd(c, i) - i + 1)
        \/ StringEnd(c, i + 1, Sym(c, i)) # 0 /\ t = PlainText(StringEnd(c, i + 1, Sym(c, i)) - i + 1)
        \/ t = Token("text", none, 1, "template")
        \/ t = Token("start", "js", 1, "js")
        \/ t = Token("close", none, 1, "pop")
        \/ t = PlainText(1)
    BY <2>1
  <2> QED
    BY <2>2, Zenon DEF none
<1> HIDE DEF t, left
<1>8. Allowed(t, "js", left)
  BY <1>1, <1>2, <1>3, <1>4, <1>5, <1>6, <1>7
<1> QED
  BY <1>8 DEF t, left

LEMMA TemplateAllowed ==
  ASSUME NEW c \in Code, NEW i \in 1..Len(c)
  PROVE  Allowed(TemplateToken(c, i), "template", Len(c) + 1 - i)
<1> DEFINE left == Len(c) + 1 - i
           t == TemplateToken(c, i)
<1>1. 1 \in 1..left /\ left \in Nat
  BY DEF Code
<1>2. /\ Allowed(Token("start", "js", 1, "js"), "template", left)
      /\ Allowed(Token("text", "", 1, "pop"), "template", left)
  BY <1>1 DEF Allowed, Starts, Adds, Token, NodeOfState, NodeTypes
<1>3. \A n \in 1..left : Allowed(PlainText(n), "template", left)
  BY Simple DEF States
<1>4. Sym(c, i + 1) # "end" => 2 \in 1..left
  BY DEF Sym, Code
<1>5. Sym(c, i + 2) # "end" => 3 \in 1..left
  BY DEF Sym, Code
<1>6. \/ Sym(c, i + 1) = "\\" /\ t = PlainText(2)
      \/ Sym(c, i + 2) = "backtick" /\ t = PlainText(3)
      \/ t = Token("start", "js", 1, "js")
      \/ t = Token("text", "", 1, "pop")
      \/ t = PlainText(1)
  BY DEF TemplateToken
<1> HIDE DEF t, left
<1>7. Allowed(t, "template", left)
  BY <1>1, <1>2, <1>3, <1>4, <1>5, <1>6
<1> QED
  BY <1>7 DEF t, left

LEMMA QuotedAllowed ==
  ASSUME NEW c \in Code, NEW i \in 1..Len(c), NEW state \in {"single", "double"},
         NEW quote, NEW placeholders \in BOOLEAN, quote # "end"
  PROVE  Allowed(QuotedToken(c, i, quote, placeholders), state, Len(c) + 1 - i)
<1> DEFINE left == Len(c) + 1 - i
           t == QuotedToken(c, i, quote, placeholders)
<1>1. 1 \in 1..left /\ left \in Nat
  BY DEF Code
<1>2. /\ Allowed(Token("start", "placeholder", 1, "js"), state, left)
      /\ Allowed(Token("close", "", 1, "pop"), state, left)
  BY <1>1 DEF Allowed, Starts, Closes, Token, NodeOfState, NodeTypes
<1>3. \A n \in 1..left : Allowed(PlainText(n), state, left)
  BY Simple DEF States
<1>4. Sym(c, i + 1) # "end" => 2 \in 1..left
  BY DEF Sym, Code
<1>5. \/ Sym(c, i + 1) # "end" /\ t = PlainText(2)
      \/ t = Token("start", "placeholder", 1, "js")
      \/ t = Token("close", "", 1, "pop")
      \/ t = PlainText(1)
  <2> DEFINE none == ""
             placeholder == "${"
  <2>1. t = CASE Sym(c, i) = "\\" /\ Sym(c, i + 1) \in {"\\", quote} -> PlainText(2)
              [] Sym(c, i) = placeholder /\ placeholders -> Token("start", "placeholder", 1, "js")
              [] Sym(c, i) = quote -> Token("close", none, 1, "pop")
              [] OTHER -> PlainText(1)
    BY DEF QuotedToken
  <2> HIDE DEF none, placeholder, t
  <2>2. \/ Sym(c, i + 1) # "end" /\ t = PlainText(2)
        \/ t = Token("start", "placeholder", 1, "js")
        \/ t = Token("close", none, 1, "pop")
        \/ t = PlainText(1)
    BY <2>1
  <2> QED
    BY <2>2, Zenon DEF none
<1> HIDE DEF t, left
<1>6. Allowed(t, state, left)
  BY <1>1, <1>2, <1>3, <1>4, <1>5
<1> QED
  BY <1>6 DEF t, left

LEMMA TokensAllowed ==
  ASSUME NEW c \in Code, NEW i \in 1..Len(c), NEW state \in States
  PROVE  Allowed(NextToken(c, i, state), state, Len(c) + 1 - i)
<1>1. /\ NextToken(c, i, "sql") = SqlToken(c, i)
      /\ NextToken(c, i, "inner") = InnerSqlToken(c, i)
      /\ NextToken(c, i, "js") = JsToken(c, i)
      /\ NextToken(c, i, "template") = TemplateToken(c, i)
      /\ NextToken(c, i, "single") = QuotedToken(c, i, "'", TRUE)
      /\ NextToken(c, i, "double") = QuotedToken(c, i, "\"", FALSE)
  BY DEF NextToken
<1> QED
  BY <1>1, SqlAllowed, InnerSqlAllowed, JsAllowed, TemplateAllowed, QuotedAllowed DEF States
-----------------------------------------------------------------------------
(* The states that nodes are open for, when one is pushed or popped.       *)
Opened(s) == [k \in DOMAIN s |-> IF s[k] = "template" THEN <<>> ELSE <<s[k]>>]

LEMMA OpenStatesNone == OpenStates(<<>>) = <<>>
<1>1. [k \in DOMAIN <<>> |-> IF (<<>>)[k] = "template" THEN <<>> ELSE <<(<<>>)[k]>>] = <<>>
  OBVIOUS
<1> QED
  BY <1>1, FlatNone DEF OpenStates

LEMMA OpenStatesPushed ==
  ASSUME NEW s \in Seq(States), NEW x \in States
  PROVE  /\ OpenStates(Append(s, x)) = IF x = "template" THEN OpenStates(s) ELSE Append(OpenStates(s), x)
         /\ OpenStates(s) \in Seq(States)
<1> DEFINE ss == Opened(s)
           last == IF x = "template" THEN <<>> ELSE <<x>>
           t == Append(s, x)
<1>1. last \in Seq(States)
  OBVIOUS
<1>2. /\ \A k \in DOMAIN s : (IF s[k] = "template" THEN <<>> ELSE <<s[k]>>) \in Seq(States)
      /\ DOMAIN s = 1..Len(s) /\ Len(s) \in Nat
  <2>1. \A k \in DOMAIN s : s[k] \in States
    OBVIOUS
  <2> HIDE DEF States
  <2>2. <<>> \in Seq(States) /\ \A e \in States : <<e>> \in Seq(States)
    OBVIOUS
  <2>3. DOMAIN s = 1..Len(s) /\ Len(s) \in Nat
    BY LenProperties
  <2>4. ASSUME NEW k \in DOMAIN s PROVE (IF s[k] = "template" THEN <<>> ELSE <<s[k]>>) \in Seq(States)
    BY <2>1, <2>2
  <2> QED
    BY <2>3, <2>4
<1>3. ss \in Seq(Seq(States)) /\ Len(ss) = Len(s) /\ \A k \in 1..Len(s) : ss[k] = IF s[k] = "template" THEN <<>> ELSE <<s[k]>>
  BY <1>2 DEF Opened
<1>4. Opened(t) = Append(ss, last)
  <2> DEFINE y == Append(ss, last)
  <2>1. DOMAIN t = 1..(Len(s) + 1) /\ t[Len(s) + 1] = x /\ \A k \in 1..Len(s) : t[k] = s[k]
    OBVIOUS
  <2>2. y \in Seq(Seq(States)) /\ Len(y) = Len(s) + 1 /\ y[Len(s) + 1] = last /\ \A k \in 1..Len(s) : y[k] = ss[k]
    <3> HIDE DEF ss, last
    <3> QED
      BY <1>1, <1>3
  <2> HIDE DEF y, ss, t
  <2>3. y \in [1..Len(y) -> Seq(States)]
    BY <2>2, LenProperties
  <2>4. y = [k \in 1..(Len(s) + 1) |-> y[k]]
    BY <2>2, <2>3
  <2>5. \A k \in 1..(Len(s) + 1) : y[k] = IF t[k] = "template" THEN <<>> ELSE <<t[k]>>
    <3>1. ASSUME NEW k \in 1..(Len(s) + 1) PROVE k = Len(s) + 1 \/ (k \in 1..Len(s) /\ k # Len(s) + 1)
      BY <1>2
    <3>2. y[Len(s) + 1] = IF t[Len(s) + 1] = "template" THEN <<>> ELSE <<t[Len(s) + 1]>>
      BY <2>1, <2>2
    <3>3. ASSUME NEW k \in 1..Len(s) PROVE y[k] = IF t[k] = "template" THEN <<>> ELSE <<t[k]>>
      BY <1>3, <2>1, <2>2
    <3> QED
      BY <3>1, <3>2, <3>3
  <2>6. Opened(t) = [k \in 1..(Len(s) + 1) |-> y[k]]
    BY <2>1, <2>5 DEF Opened
  <2> QED
    BY <2>4, <2>6 DEF y
<1>5. OpenStates(t) = FlattenSeq(Opened(t)) /\ OpenStates(s) = FlattenSeq(ss)
  BY DEF OpenStates, Opened
<1> HIDE DEF ss, last
<1>6. OpenStates(t) = OpenStates(s) \o last /\ OpenStates(s) \in Seq(States)
  BY <1>1, <1>3, <1>4, <1>5, FlatAppend, FlatType
<1> QED
  BY <1>6 DEF last, States

(* The nodes that are open, of the types of their states.                  *)
Nested(ns, open) ==
  /\ open \in Seq(States) /\ Len(ns) \in Nat \ {0} /\ Len(open) = Len(ns) /\ open[1] = "sql"
  /\ \A k \in 2..Len(ns) : open[k] # "sql"
  /\ \A k \in 1..Len(ns) : ns[k].type \in NodeOfState(open[k])
  /\ \A k \in 1..(Len(ns) - 1) :
       /\ ns[k + 1].type \in {"string", "placeholder"} => ns[k].type \in {"sql", "string"}
       /\ ns[k + 1].type = "sql" => k = 1

(* When no node is opened or closed, when one is opened, and when the      *)
(* innermost is closed.                                                    *)
LEMMA NestedAsBefore ==
  ASSUME NEW ns, NEW open, Nested(ns, open), NEW new, Len(new) = Len(ns),
         \A k \in 1..Len(ns) : new[k].type = ns[k].type
  PROVE  Nested(new, open)
<1>1. PICK n \in Nat : n = Len(ns)
  BY DEF Nested
<1>2. \A k \in 1..(n - 1) : k \in 1..n /\ k + 1 \in 1..n
  BY <1>1
<1> QED
  BY <1>1, <1>2 DEF Nested

LEMMA NestedStarted ==
  ASSUME NEW ns, NEW open, Nested(ns, open), NEW new, Len(new) = Len(ns) + 1,
         \A k \in 1..Len(ns) : new[k].type = ns[k].type,
         NEW to \in {"js", "inner", "single", "double"}, new[Len(ns) + 1].type \in NodeOfState(to),
         new[Len(ns) + 1].type = "sql" => open[Len(ns)] = "sql",
         new[Len(ns) + 1].type \in {"string", "placeholder"} => ns[Len(ns)].type \in {"sql", "string"}
  PROVE  Nested(new, Append(open, to))
<1>1. PICK n \in Nat \ {0} : n = Len(ns)
  BY DEF Nested
<1> DEFINE opens == Append(open, to)
<1>2. to \in States /\ to # "sql"
  BY DEF States
<1>3. opens \in Seq(States) /\ Len(opens) = n + 1 /\ opens[n + 1] = to /\ \A k \in 1..n : opens[k] = open[k]
  BY <1>1, <1>2 DEF Nested
<1> HIDE DEF opens
<1>4. opens[1] = "sql" /\ \A k \in 2..(n + 1) : opens[k] # "sql"
  <2>1. 1 \in 1..n /\ \A k \in 2..(n + 1) : k = n + 1 \/ (k \in 1..n /\ k \in 2..n)
    BY <1>1
  <2> QED
    BY <1>1, <1>2, <1>3, <2>1 DEF Nested
<1>5. \A k \in 1..(n + 1) : new[k].type \in NodeOfState(opens[k])
  <2>1. \A k \in 1..(n + 1) : k = n + 1 \/ k \in 1..n
    BY <1>1
  <2> QED
    BY <1>1, <1>3, <2>1 DEF Nested
<1>6. ASSUME NEW k \in 1..n
      PROVE  /\ new[k + 1].type \in {"string", "placeholder"} => new[k].type \in {"sql", "string"}
             /\ new[k + 1].type = "sql" => k = 1
  <2>1. k = n \/ (k \in 1..(n - 1) /\ k + 1 \in 1..n)
    BY <1>1
  <2>2. open[n] = "sql" => n = 1
    BY <1>1 DEF Nested
  <2> QED
    BY <1>1, <2>1, <2>2 DEF Nested
<1>7. Len(new) = n + 1 /\ n + 1 \in Nat \ {0} /\ (n + 1) - 1 = n
  BY <1>1
<1>8. Nested(new, opens)
  BY <1>3, <1>4, <1>5, <1>6, <1>7 DEF Nested
<1> QED
  BY <1>8 DEF opens

LEMMA NestedEnded ==
  ASSUME NEW ns, NEW open \in Seq(States), NEW x, Nested(ns, Append(open, x)), x # "sql",
         NEW new, Len(new) = Len(ns) - 1, \A k \in 1..Len(new) : new[k].type = ns[k].type
  PROVE  Nested(new, open)
<1> DEFINE opens == Append(open, x)
<1>1. PICK n \in Nat : n = Len(open)
  OBVIOUS
<1>2. Len(opens) = n + 1 /\ opens[n + 1] = x /\ \A k \in 1..n : opens[k] = open[k]
  BY <1>1
<1>3. Nested(ns, opens)
  OBVIOUS
<1> HIDE DEF opens
<1>4. Len(ns) = n + 1 /\ Len(new) = n
  BY <1>1, <1>2, <1>3 DEF Nested
<1>5. n # 0
  BY <1>2, <1>3 DEF Nested
<1>6. /\ 1 \in 1..n /\ \A k \in 2..n : k \in 1..n /\ k \in 2..(n + 1)
      /\ \A k \in 1..n : k \in 1..(n + 1)
      /\ \A k \in 1..(n - 1) : k \in 1..n /\ k + 1 \in 1..n /\ k \in 1..((n + 1) - 1)
  BY <1>1, <1>5
<1> QED
  BY <1>1, <1>2, <1>3, <1>4, <1>5, <1>6 DEF Nested
-----------------------------------------------------------------------------
(* The invariant: what was read is in the open nodes, which are those of   *)
(* the states, none deeper than its place allows.                          *)
LexInv ==
  /\ code \in Code /\ lexing.at \in 1..(Len(code) + 1)
  /\ lexing.states \in Seq(States) /\ lexing.states # <<>>
  /\ Stack(lexing.nodes) /\ Nested(lexing.nodes, OpenStates(lexing.states))
  /\ Texted(lexing.nodes) = SubSeq(code, 1, lexing.at - 1)

(* A file that is not read yet, and every token of it.                     *)
LEMMA Starting == code \in Code /\ lexing = Start => LexInv
<1> SUFFICES ASSUME code \in Code, lexing = Start PROVE LexInv
  OBVIOUS
<1> DEFINE root == Node("sql", <<>>)
<1>1. lexing.at = 1 /\ lexing.states = <<"sql">> /\ lexing.nodes = <<root>>
  BY DEF Start
<1>2. Deepest - 1 \in 0..Deepest /\ Deepest \in 1..Deepest /\ Deepest \in 0..Deepest /\ 1 \in 1..Deepest
      /\ 1 \in 1..MaxNesting
  BY Bounds, LexerAssumption
<1>3. root \in NodesOver(Trees[Deepest - 1]) /\ root.children = <<>> /\ root.type = "sql"
  BY DEF Node, NodesOver, NodeTypes
<1>4. Concatenate(root) = <<>>
  BY <1>2, <1>3, NodesConcatenate, TextedNone
<1>5. root \in Trees[Deepest]
  BY <1>2, <1>3, TreesRounds
<1> HIDE DEF root
<1>6. <<root>> \in Seq(Trees[Deepest]) /\ Len(<<root>>) = 1 /\ (<<root>>)[1] = root /\ <<root>> = Append(<<>>, root)
      /\ <<>> \in Seq(Trees[Deepest])
  <2> DEFINE S == Trees[Deepest]
  <2>1. root \in S
    BY <1>5
  <2> HIDE DEF S
  <2>2. <<root>> \in Seq(S) /\ Len(<<root>>) = 1 /\ (<<root>>)[1] = root /\ <<root>> = Append(<<>>, root)
        /\ <<>> \in Seq(S)
    BY <2>1
  <2> QED
    BY <2>2 DEF S
<1>7. Stack(<<root>>)
  BY <1>2, <1>3, <1>6 DEF Stack
<1>8. Texted(<<root>>) = <<>>
  <2>1. Texted(<<root>>) = Texted(<<>>) \o Concatenate(root)
    BY <1>5, <1>6, TextedAppend
  <2> QED
    BY <1>4, <2>1, TextedNone, CodeAssociative
<1>9. SubSeq(code, 1, 0) = <<>>
  OBVIOUS
<1>10. OpenStates(<<"sql">>) = <<"sql">>
  <2>1. <<"sql">> = Append(<<>>, "sql") /\ <<>> \in Seq(States) /\ "sql" \in States /\ Append(<<>>, "sql") = <<"sql">>
    BY DEF States
  <2>2. OpenStates(<<>>) = <<>>
    BY OpenStatesNone
  <2> QED
    BY <2>1, <2>2, OpenStatesPushed
<1>11. Nested(<<root>>, <<"sql">>)
  BY <1>3, <1>6 DEF Nested, NodeOfState, States
<1>12. <<"sql">> \in Seq(States) /\ <<"sql">> # <<>> /\ 1 \in 1..(Len(code) + 1) /\ 1 - 1 = 0
  BY DEF States, Code
<1> QED
  BY <1>1, <1>7, <1>8, <1>9, <1>10, <1>11, <1>12 DEF LexInv

LEMMA Reading ==
  ASSUME LexInv, LexStep
  PROVE  LexInv'
<1> DEFINE i == lexing.at
           ss == lexing.states
           ns == lexing.nodes
           open == OpenStates(ss)
           state == Last(ss)
           token == NextToken(code, i, state)
           part == SubSeq(code, i, i + token.length - 1)
           text == TextNode(part)
           added(child) == Append(Front(ns), Push(Last(ns), child))
<1>1. /\ code \in Code /\ i \in 1..(Len(code) + 1) /\ ss \in Seq(States) /\ ss # <<>>
      /\ Stack(ns) /\ Nested(ns, open) /\ Texted(ns) = SubSeq(code, 1, i - 1)
  BY DEF LexInv
<1>2. i \in 1..Len(code) /\ code' = code /\ Len(lexing'.nodes) <= MaxNesting
  BY <1>1 DEF LexStep, Code
<1>3. /\ lexing'.at = i + token.length
      /\ lexing'.states = CASE token.to = "" -> ss [] token.to = "pop" -> Front(ss)
                            [] OTHER -> Append(ss, token.to)
      /\ lexing'.nodes =
           CASE token.does = "start" -> Append(ns, Node(token.type, <<text>>))
             [] token.does = "close" -> Append(Front(Front(ns)), Push(Last(Front(ns)), Push(Last(ns), text)))
             [] token.does = "whole" -> added(Node(token.type, <<text>>))
             [] token.does = "text" -> added(text)
  BY DEF LexStep, LexToken
<1>4. /\ state \in States /\ Front(ss) \in Seq(States) /\ ss = Append(Front(ss), state)
  BY <1>1, FrontAndLast
<1> HIDE DEF state
<1>5. Allowed(token, state, Len(code) + 1 - i)
  BY <1>1, <1>2, <1>4, TokensAllowed
<1> HIDE DEF token
<1>6. token.length \in 1..(Len(code) + 1 - i) /\ (Starts(token, state) \/ Closes(token, state) \/ Adds(token, state))
  BY <1>5 DEF Allowed
<1>7. /\ i + token.length \in 1..(Len(code) + 1) /\ part \in Code
      /\ SubSeq(code, 1, i - 1) \o part = SubSeq(code, 1, (i + token.length) - 1)
  <2>1. PICK n \in Nat : n = Len(code)
    BY <1>1 DEF Code
  <2>2. PICK m \in Nat : m = token.length /\ m \in 1..(n + 1 - i)
    BY <1>6, <2>1
  <2>3. PICK j \in Nat : j = i /\ j \in 1..n
    BY <1>2, <2>1
  <2>4. /\ j + m \in 1..(n + 1) /\ 1 \in 1..(n + 1) /\ j - 1 \in (1 - 1)..n /\ j + m - 1 \in (j - 1)..n
        /\ (j - 1) + 1 = j /\ j + m - 1 = (j + m) - 1
    BY <2>2, <2>3
  <2>5. SubSeq(code, 1, j - 1) \o SubSeq(code, (j - 1) + 1, j + m - 1) = SubSeq(code, 1, j + m - 1)
    BY <1>1, <2>1, <2>4, ConcatAdjacentSubSeq DEF Code
  <2>6. \A k \in j..(j + m - 1) : code[k] \in STRING
    <3>1. \A k \in j..(j + m - 1) : k \in 1..n
      BY <2>2, <2>3
    <3> QED
      BY <1>1, <2>1, <3>1 DEF Code
  <2>7. SubSeq(code, j, j + m - 1) \in Seq(STRING)
    BY <2>2, <2>3, <2>6, SubSeqProperties
  <2> QED
    BY <2>1, <2>2, <2>3, <2>4, <2>5, <2>7 DEF Code
<1>8. text \in Texts /\ text.text = part
  BY <1>7 DEF Texts, TextNode, Code
<1> HIDE DEF text, part, i
<1>9. SubSeq(code, 1, (i + token.length) - 1) = Texted(ns) \o part
  <2>1. Texted(ns) = SubSeq(code, 1, i - 1) /\ SubSeq(code, 1, i - 1) \o part = SubSeq(code, 1, (i + token.length) - 1)
    BY <1>1, <1>7
  <2> HIDE DEF ns
  <2> QED
    BY <2>1, Zenon
<1>10. ASSUME /\ lexing'.states \in Seq(States) /\ lexing'.states # <<>>
              /\ Stack(lexing'.nodes) /\ Nested(lexing'.nodes, OpenStates(lexing'.states))
              /\ Texted(lexing'.nodes) = Texted(ns) \o part
       PROVE  LexInv'
  <2>1. code' \in Code /\ lexing'.at \in 1..(Len(code') + 1)
    BY <1>1, <1>2, <1>3, <1>7
  <2>2. Texted(lexing'.nodes) = SubSeq(code', 1, lexing'.at - 1)
    BY <1>2, <1>3, <1>9, <1>10
  <2>3. LexInv' = (/\ code' \in Code /\ lexing'.at \in 1..(Len(code') + 1)
                   /\ lexing'.states \in Seq(States) /\ lexing'.states # <<>>
                   /\ Stack(lexing'.nodes) /\ Nested(lexing'.nodes, OpenStates(lexing'.states))
                   /\ Texted(lexing'.nodes) = SubSeq(code', 1, lexing'.at - 1))
    BY DEF LexInv
  <2> QED
    BY <1>10, <2>1, <2>2, <2>3
<1>11. PICK n \in Nat \ {0} : n = Len(ns) /\ n <= MaxNesting
  BY <1>1, LexerAssumption DEF Stack
<1>12. /\ state = "template" => open = OpenStates(Front(ss))
       /\ state # "template" => open = Append(OpenStates(Front(ss)), state)
       /\ OpenStates(Front(ss)) \in Seq(States) /\ open \in Seq(States)
  BY <1>1, <1>4, OpenStatesPushed
<1> HIDE DEF ss, open
<1>13. state # "template" => Len(open) = n /\ open[n] = state /\ state \in States
  <2> SUFFICES ASSUME state # "template" PROVE Len(open) = n /\ open[n] = state
    BY <1>4
  <2> DEFINE fs == OpenStates(Front(ss))
  <2>1. fs \in Seq(States) /\ open = Append(fs, state)
    BY <1>12
  <2> HIDE DEF fs
  <2>2. Len(open) = Len(fs) + 1 /\ open[Len(fs) + 1] = state
    BY <2>1
  <2>3. Len(open) = n
    BY <1>1, <1>11 DEF Nested
  <2> QED
    BY <2>2, <2>3
<1>14. CASE Starts(token, state)
  <2> DEFINE p == Node(token.type, <<text>>)
             new == Append(ns, p)
  <2>1. /\ token.does = "start" /\ token.to \in {"js", "inner", "single", "double"}
        /\ token.type \in NodeTypes /\ token.type \in NodeOfState(token.to)
        /\ token.type = "sql" => state = "sql"
        /\ token.type \in {"string", "placeholder"} => state \in {"sql", "inner", "single", "double"}
    BY <1>14 DEF Starts
  <2>2. lexing'.nodes = new /\ lexing'.states = Append(ss, token.to) /\ token.to \in States /\ token.to # "template"
    BY <1>3, <2>1 DEF States
  <2>3. ns \in Seq(Trees[Deepest]) /\ p.type = token.type
    BY <1>1 DEF Stack, Node
  <2> HIDE DEF p
  <2>4. Len(new) = n + 1 /\ new[n + 1] = p /\ \A k \in 1..n : new[k] = ns[k]
    BY <1>11, <2>3
  <2>5. Len(ns) < MaxNesting
    BY <1>2, <1>11, <2>2, <2>4, LexerAssumption
  <2>6. Stack(new) /\ Texted(new) = Texted(ns) \o text.text
    BY <1>1, <1>8, <2>1, <2>5, Started DEF p
  <2>7. OpenStates(Append(ss, token.to)) = Append(open, token.to)
    BY <1>1, <2>2, OpenStatesPushed DEF open, ss
  <2>8. token.type = "sql" => open[n] = "sql"
    BY <1>13, <2>1
  <2>9. token.type \in {"string", "placeholder"} => ns[n].type \in {"sql", "string"}
    <3>1. n \in 1..n /\ ns[n].type \in NodeOfState(open[n])
      BY <1>1, <1>11 DEF Nested
    <3> QED
      BY <1>13, <2>1, <3>1 DEF NodeOfState
  <2> HIDE DEF new
  <2>10. Nested(new, Append(open, token.to))
    BY <1>1, <1>11, <2>1, <2>3, <2>4, <2>8, <2>9, NestedStarted
  <2>11. Append(ss, token.to) \in Seq(States) /\ Append(ss, token.to) # <<>>
    BY <1>1, <2>2 DEF ss
  <2> QED
    BY <1>8, <1>10, <2>2, <2>6, <2>7, <2>10, <2>11
<1>15. CASE Closes(token, state)
  <2> DEFINE new == Append(Front(Front(ns)), Push(Last(Front(ns)), Push(Last(ns), text)))
             fs == OpenStates(Front(ss))
  <2>1. token.does = "close" /\ token.to = "pop" /\ state \in {"js", "inner", "single", "double"}
    BY <1>15 DEF Closes
  <2>2. lexing'.nodes = new /\ lexing'.states = Front(ss)
    BY <1>3, <2>1
  <2>3. fs \in Seq(States) /\ open = Append(fs, state) /\ state # "sql"
    BY <1>12, <2>1
  <2>4. n # 1
    BY <1>1, <1>13, <2>1 DEF Nested
  <2>5. /\ Stack(new) /\ Len(new) = Len(ns) - 1 /\ \A k \in 1..Len(new) : new[k].type = ns[k].type
        /\ Texted(new) = Texted(ns) \o text.text
    BY <1>1, <1>8, <1>11, <2>4, Ended
  <2> HIDE DEF new, fs
  <2>6. Nested(new, fs)
    BY <1>1, <2>3, <2>5, NestedEnded
  <2>7. Front(ss) # <<>>
    <3>1. Len(fs) # 0
      BY <2>6 DEF Nested
    <3>2. OpenStates(<<>>) = <<>>
      BY OpenStatesNone
    <3> QED
      BY <3>1, <3>2 DEF fs
  <2> QED
    BY <1>4, <1>8, <1>10, <2>2, <2>5, <2>6, <2>7 DEF fs, ss
<1>16. CASE Adds(token, state)
  <2> DEFINE c == IF token.does = "whole" THEN Node(token.type, <<text>>) ELSE text
             new == added(c)
  <2>1. /\ token.does = "text" \/ (token.does = "whole" /\ token.type \in NodeTypes)
        /\ token.to = "" \/ token.to = "template" \/ (token.to = "pop" /\ state = "template")
    BY <1>16, Zenon DEF Adds
  <2>2. lexing'.nodes = new
    <3>1. \/ token.does = "text" /\ c = text
          \/ token.does = "whole" /\ c = Node(token.type, <<text>>)
      BY <2>1
    <3>2. /\ token.does = "text" => lexing'.nodes = added(text)
          /\ token.does = "whole" => lexing'.nodes = added(Node(token.type, <<text>>))
      BY <1>3
    <3> HIDE DEF c
    <3> QED
      BY <3>1, <3>2
  <2>3. c \in Trees[Deepest - n] /\ Concatenate(c) = part
    <3>1. Deepest - n \in 1..Deepest /\ Deepest - n \in 0..Deepest
      <4>1. n \in Nat \ {0} /\ n <= MaxNesting
        BY <1>11
      <4> QED
        BY <4>1, LexerAssumption DEF Deepest
    <3> QED
      BY <1>8, <2>1, <3>1, WholeNode, TextsAreTrees, TextsConcatenate
  <2> HIDE DEF c
  <2>4. /\ Stack(new) /\ Len(new) = Len(ns) /\ \A k \in 1..Len(ns) : new[k].type = ns[k].type
        /\ Texted(new) = Texted(ns) \o part
    BY <1>1, <1>11, <2>3, Added
  <2> HIDE DEF new
  <2>5. Nested(new, open)
    BY <1>1, <2>4, NestedAsBefore
  <2>6. /\ lexing'.states \in Seq(States) /\ lexing'.states # <<>> /\ OpenStates(lexing'.states) = open
    <3>1. CASE token.to = ""
      BY <1>1, <1>3, <3>1 DEF open, ss
    <3>2. CASE token.to = "template"
      <4>1. lexing'.states = Append(ss, "template") /\ "template" \in States
        BY <1>3, <3>2 DEF States
      <4>2. OpenStates(Append(ss, "template")) = open
        BY <1>1, <4>1, OpenStatesPushed DEF open
      <4> QED
        BY <1>1, <4>1, <4>2
    <3>3. CASE token.to = "pop" /\ state = "template"
      <4>1. lexing'.states = Front(ss)
        BY <1>3, <3>3
      <4>2. open # <<>>
        BY <1>1 DEF Nested
      <4>3. OpenStates(<<>>) = <<>>
        BY OpenStatesNone
      <4> QED
        BY <1>4, <1>12, <3>3, <4>1, <4>2, <4>3
    <3> QED
      BY <2>1, <3>1, <3>2, <3>3
  <2> QED
    BY <1>10, <2>2, <2>4, <2>5, <2>6
<1> QED
  BY <1>6, <1>14, <1>15, <1>16

(* The tree of the nodes that are open is the code before the lexer.       *)
LEMMA LexInvIsEnough == LexInv => TreeIsTheCode
<1> SUFFICES ASSUME LexInv PROVE TreeIsTheCode
  OBVIOUS
<1> DEFINE ns == lexing.nodes
           open == OpenStates(lexing.states)
<1>1. Stack(ns) /\ Nested(ns, open) /\ Texted(ns) = SubSeq(code, 1, lexing.at - 1)
  BY DEF LexInv
<1>2. Concatenate(TreeOf(ns)) = SubSeq(code, 1, lexing.at - 1)
  BY <1>1, TreeConcatenates
<1>3. DOMAIN ns = 1..Len(ns)
  BY <1>1 DEF Stack
<1> QED
  BY <1>1, <1>2, <1>3 DEF TreeIsTheCode, Nested

LEMMA LexInvHolds == LexSpec => []LexInv
<1>1. LexInit => LexInv
  BY Starting DEF LexInit, Code
<1>2. LexInv /\ [LexStep \/ NextFile]_<<code, lexing>> => LexInv'
  <2> SUFFICES ASSUME LexInv, [LexStep \/ NextFile]_<<code, lexing>> PROVE LexInv'
    OBVIOUS
  <2>1. CASE LexStep
    BY <2>1, Reading
  <2>2. CASE NextFile
    <3>1. (code \in Code /\ lexing = Start => LexInv)'
      BY Starting, PTL
    <3>2. code' \in Code /\ lexing' = Start
      BY <2>2 DEF NextFile, Code
    <3>3. Start' = Start /\ Code' = Code
      OBVIOUS
    <3> QED
      BY <3>1, <3>2, <3>3
  <2>3. CASE UNCHANGED <<code, lexing>>
    <3>1. code' = code /\ lexing' = lexing
      BY <2>3
    <3> QED
      BY <3>1 DEF LexInv
  <2> QED
    BY <2>1, <2>2, <2>3
<1> QED
  BY <1>1, <1>2, PTL DEF LexSpec

(* Whatever the code of a file, and however long it is, the tree of what   *)
(* was read holds every symbol of it, in its order; open nodes belong to   *)
(* the states of the lexer, with placeholders and strings in SQL only and  *)
(* blocks of SQL in the root only: create() (lexer.ts:143-172) loses no    *)
(* code, closes no node but its own and never throws.                      *)
THEOREM TreesAreTheCode == LexSpec => []TreeIsTheCode
  BY LexInvHolds, LexInvIsEnough, PTL

(* Every token has a symbol at least, and none leaves the lexer without a  *)
(* state: parse() never sticks to a place of the code, and the "pop" of a  *)
(* rule always finds a state to go back to (lexer.ts:76, 237-390).     *)
THEOREM TokensAdvance ==
  LexSpec => [][LexStep => lexing'.at > lexing.at /\ lexing'.states # <<>>]_<<code, lexing>>
<1>1. LexInv /\ LexStep => lexing'.at > lexing.at /\ lexing'.states # <<>>
  <2> SUFFICES ASSUME LexInv, LexStep PROVE lexing'.at > lexing.at /\ lexing'.states # <<>>
    OBVIOUS
  <2> DEFINE token == NextToken(code, lexing.at, Last(lexing.states))
  <2>1. lexing'.states # <<>>
    BY Reading DEF LexInv
  <2>2. /\ lexing.at \in 1..Len(code) /\ code \in Code /\ Last(lexing.states) \in States
        /\ lexing'.at = lexing.at + token.length
    <3>1. code \in Code /\ lexing.at \in 1..(Len(code) + 1) /\ lexing.at <= Len(code)
      BY DEF LexInv, LexStep
    <3>2. lexing.states \in Seq(States) /\ lexing.states # <<>>
      BY DEF LexInv
    <3>3. Last(lexing.states) \in States
      BY <3>2, FrontAndLast
    <3>4. lexing'.at = lexing.at + token.length
      BY DEF LexStep, LexToken
    <3>5. lexing.at \in 1..Len(code)
      BY <3>1 DEF Code
    <3> QED
      BY <3>1, <3>3, <3>4, <3>5
  <2> HIDE DEF token
  <2>3. token.length \in 1..(Len(code) + 1 - lexing.at)
    BY <2>2, TokensAllowed DEF Allowed, token
  <2>4. PICK n \in Nat : n = Len(code)
    BY <2>2 DEF Code
  <2> QED
    BY <2>1, <2>2, <2>3, <2>4
<1> QED
  BY <1>1, LexInvHolds, PTL
================================================================================
