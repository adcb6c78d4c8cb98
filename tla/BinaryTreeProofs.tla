-------------------------- MODULE BinaryTreeProofs --------------------------
(***************************************************************************)
(* What is reached in a tree of any finite size, and the subtrees of a search *)
(* tree: the facts about the operators of BinaryTree that proofs about the *)
(* trees of tree.h need.                                                   *)
(***************************************************************************)
EXTENDS BinaryTree, FiniteSetTheorems, WellFoundedInduction, TLAPS

-----------------------------------------------------------------------------
(***************************************************************************)
(* What is reached in a tree of any size.                                  *)
(***************************************************************************)
\* Every set of natural numbers that is not empty has a least element.
LEMMA LeastExists ==
  ASSUME NEW S, S \subseteq Nat, S # {}
  PROVE  \E i \in S : \A j \in S : i <= j
<1> DEFINE Less == {pair \in Nat \X Nat : pair[1] < pair[2]}
<1>1. IsWellFoundedOn(Less, Nat)
  BY NatLessThanWellFounded DEF OpToRel
<1>2. PICK i \in S : \A j \in S : <<j, i>> \notin Less
  <2> HIDE DEF Less
  <2> QED BY <1>1, WFMin
<1>3. \A j \in S : ~(j < i)
  BY <1>2
<1> QED BY <1>3

\* What is one link further than a set, and the set.
Further(R, kids) == R \cup ({kids[x][s] : x \in R, s \in Sides} \ {NULL})

\* The steps in which Reachable grows.
IsReach(f, n, from, kids) ==
  f = [i \in 0 .. n |-> IF i = 0 THEN from \ {NULL} ELSE Further(f[i - 1], kids)]

\* There is such a function.
LEMMA ReachExists ==
  ASSUME NEW n \in Nat, NEW from, NEW kids
  PROVE  \E f : IsReach(f, n, from, kids)
<1> DEFINE Missing == {m \in Nat : ~ \E f : IsReach(f, m, from, kids)}
<1> SUFFICES ASSUME Missing # {} PROVE FALSE
  OBVIOUS
<1>1. PICK m \in Missing : \A j \in Missing : m <= j
  <2>1. Missing \subseteq Nat
    OBVIOUS
  <2> HIDE DEF Missing
  <2> QED BY <2>1, LeastExists
<1>2. m \in Nat /\ ~ \E f : IsReach(f, m, from, kids)
  OBVIOUS
<1>3. m # 0
  <2> SUFFICES ASSUME m = 0 PROVE FALSE
    OBVIOUS
  <2> DEFINE f == [i \in 0 .. 0 |-> from \ {NULL}]
  <2>1. f = [i \in 0 .. 0 |-> IF i = 0 THEN from \ {NULL} ELSE Further(f[i - 1], kids)]
    OBVIOUS
  <2> HIDE DEF f
  <2>2. IsReach(f, 0, from, kids)
    BY <2>1 DEF IsReach
  <2> QED BY <1>2, <2>2
<1>4. m - 1 \in Nat /\ m - 1 \notin Missing
  BY <1>1, <1>2, <1>3
<1>5. PICK f : IsReach(f, m - 1, from, kids)
  BY <1>4
<1> DEFINE g == [i \in 0 .. m |-> IF i = m THEN Further(f[m - 1], kids) ELSE f[i]]
<1>6. \A i \in 0 .. m - 1 : g[i] = f[i]
  BY <1>2, <1>4
<1>7. \A i \in 0 .. m : g[i] = IF i = 0 THEN from \ {NULL} ELSE Further(g[i - 1], kids)
  <2> SUFFICES ASSUME NEW i \in 0 .. m
               PROVE  g[i] = IF i = 0 THEN from \ {NULL} ELSE Further(g[i - 1], kids)
    OBVIOUS
  <2>1. CASE i = m
    <3>1. g[i] = Further(f[m - 1], kids) /\ g[i - 1] = f[m - 1] /\ i # 0
      BY <1>2, <1>3, <1>4, <1>6, <2>1
    <3> HIDE DEF g
    <3> QED BY <3>1
  <2>2. CASE i # m
    <3>1. i \in 0 .. m - 1 /\ (i # 0 => i - 1 \in 0 .. m - 1)
      BY <1>2, <2>2
    <3>2. g[i] = f[i] /\ (i # 0 => g[i - 1] = f[i - 1])
      BY <1>6, <3>1
    <3> HIDE DEF g
    <3>3. f[i] = IF i = 0 THEN from \ {NULL} ELSE Further(f[i - 1], kids)
      BY <1>5, <3>1 DEF IsReach
    <3> QED BY <3>2, <3>3
  <2> QED BY <2>1, <2>2
<1>8. g = [i \in 0 .. m |-> IF i = 0 THEN from \ {NULL} ELSE Further(g[i - 1], kids)]
  <2>1. g = [i \in 0 .. m |-> g[i]]
    OBVIOUS
  <2> HIDE DEF g
  <2> QED BY <1>7, <2>1
<1> HIDE DEF g
<1> QED BY <1>2, <1>8 DEF IsReach

\* Reachable is its last value.
LEMMA ReachableFrom ==
  ASSUME NEW kids, IsFiniteSet(DOMAIN kids), NEW from
  PROVE  \E f : /\ IsReach(f, Cardinality(DOMAIN kids), from, kids)
                /\ Reachable(from, kids) = f[Cardinality(DOMAIN kids)]
<1> DEFINE n == Cardinality(DOMAIN kids)
<1>1. n \in Nat
  BY FS_CardinalityType
<1> DEFINE Reach == CHOOSE f : f = [i \in 0 .. n |-> IF i = 0 THEN from \ {NULL}
                                       ELSE Further(f[i - 1], kids)]
<1>2. Reachable(from, kids) = Reach[n]
  BY DEF Reachable, Further
<1>3. \E f : f = [i \in 0 .. n |-> IF i = 0 THEN from \ {NULL} ELSE Further(f[i - 1], kids)]
  <2> HIDE DEF n, Reach
  <2>1. \E f : IsReach(f, n, from, kids)
    BY <1>1, ReachExists
  <2> QED BY <2>1, Zenon DEF IsReach
<1>4. Reach = [i \in 0 .. n |-> IF i = 0 THEN from \ {NULL} ELSE Further(Reach[i - 1], kids)]
  BY <1>3
<1> HIDE DEF Reach, n
<1>5. IsReach(Reach, n, from, kids)
  BY <1>4 DEF IsReach
<1> QED BY <1>2, <1>5 DEF n

\* What an element of S links to is in S.
Closed(S, kids) == \A x \in S, s \in Sides : kids[x][s] \in S \cup {NULL}

\* What is reached is the least set that holds where it begins and whatever its
\* elements link to.
LEMMA ReachableIs ==
  ASSUME NEW D, IsFiniteSet(D), NULL \notin D, NEW kids \in [D -> [Sides -> D \cup {NULL}]],
         NEW from, from \subseteq D \cup {NULL}
  PROVE  /\ from \ {NULL} \subseteq Reachable(from, kids) /\ Reachable(from, kids) \subseteq D
         /\ Closed(Reachable(from, kids), kids)
         /\ \A S : from \ {NULL} \subseteq S /\ Closed(S, kids) => Reachable(from, kids) \subseteq S
<1> DEFINE n == Cardinality(D)
<1>1. n \in Nat /\ DOMAIN kids = D
  BY FS_CardinalityType
<1>2. PICK f : IsReach(f, n, from, kids) /\ Reachable(from, kids) = f[n]
  BY <1>1, ReachableFrom
<1> HIDE DEF n
<1>3. f[0] = from \ {NULL} /\ \A i \in 1 .. n : f[i] = Further(f[i - 1], kids)
  <2>1. \A i \in 0 .. n : f[i] = IF i = 0 THEN from \ {NULL} ELSE Further(f[i - 1], kids)
    BY <1>2 DEF IsReach
  <2> QED BY <1>1, <2>1
<1>4. ASSUME NEW S, from \ {NULL} \subseteq S, Closed(S, kids)
      PROVE  \A i \in 0 .. n : f[i] \subseteq S
  <2> DEFINE Bad == {i \in 0 .. n : ~(f[i] \subseteq S)}
  <2> SUFFICES ASSUME Bad # {} PROVE FALSE
    OBVIOUS
  <2>1. PICK i \in Bad : \A j \in Bad : i <= j
    <3>1. Bad \subseteq Nat
      OBVIOUS
    <3> HIDE DEF Bad
    <3> QED BY <3>1, LeastExists
  <2>2. i # 0
    BY <1>3, <1>4
  <2>3. i \in 1 .. n /\ i - 1 \in 0 .. n /\ i - 1 \notin Bad
    BY <1>1, <2>1, <2>2
  <2>4. f[i - 1] \subseteq S /\ f[i] = Further(f[i - 1], kids)
    BY <1>3, <2>3
  <2>5. f[i] \subseteq S
    <3> SUFFICES ASSUME NEW y \in Further(f[i - 1], kids) PROVE y \in S
      BY <2>4
    <3>1. CASE y \in f[i - 1]
      BY <2>4, <3>1
    <3>2. ASSUME NEW x \in f[i - 1], NEW s \in Sides, y = kids[x][s], y # NULL
          PROVE  y \in S
      BY <1>4, <2>4, <3>2 DEF Closed
    <3> QED BY <3>1, <3>2 DEF Further
  <2> QED BY <2>5
<1>5. \A i \in 0 .. n : f[i] \subseteq D
  <2>1. Closed(D, kids)
    BY DEF Closed
  <2> QED BY <1>4, <2>1
<1>6. \A i \in 1 .. n : f[i - 1] \subseteq f[i]
  BY <1>3 DEF Further
<1>7. \A i \in 0 .. n : from \ {NULL} \subseteq f[i]
  <2> DEFINE Bad == {i \in 0 .. n : ~(from \ {NULL} \subseteq f[i])}
  <2> SUFFICES ASSUME Bad # {} PROVE FALSE
    OBVIOUS
  <2>1. PICK i \in Bad : \A j \in Bad : i <= j
    <3>1. Bad \subseteq Nat
      OBVIOUS
    <3> HIDE DEF Bad
    <3> QED BY <3>1, LeastExists
  <2>2. i # 0
    BY <1>3
  <2>3. i \in 1 .. n /\ i - 1 \in 0 .. n /\ i - 1 \notin Bad
    BY <1>1, <2>1, <2>2
  <2>4. from \ {NULL} \subseteq f[i - 1] /\ f[i - 1] \subseteq f[i]
    BY <1>6, <2>3
  <2> QED BY <2>4
\* As long as the set grows it has an element for each step; so it stops growing.
<1>8. \A i \in 0 .. n : Closed(f[i], kids) \/ i < Cardinality(f[i])
  <2> DEFINE Bad == {i \in 0 .. n : ~(Closed(f[i], kids) \/ i < Cardinality(f[i]))}
  <2> SUFFICES ASSUME Bad # {} PROVE FALSE
    OBVIOUS
  <2>1. PICK i \in Bad : \A j \in Bad : i <= j
    <3>1. Bad \subseteq Nat
      OBVIOUS
    <3> HIDE DEF Bad
    <3> QED BY <3>1, LeastExists
  <2>2. i \in 0 .. n /\ ~Closed(f[i], kids) /\ ~(i < Cardinality(f[i]))
    OBVIOUS
  <2>3. IsFiniteSet(f[i]) /\ Cardinality(f[i]) \in Nat
    BY <1>5, <2>2, FS_Subset, FS_CardinalityType
  <2>4. CASE i = 0
    <3>1. Cardinality(f[i]) = 0
      BY <2>2, <2>3, <2>4
    <3>2. f[i] = {}
      BY <2>3, <3>1, FS_EmptySet
    <3> QED BY <2>2, <3>2 DEF Closed
  <2>5. CASE i # 0
    <3>1. i \in 1 .. n /\ i - 1 \in 0 .. n /\ i - 1 \notin Bad
      BY <1>1, <2>1, <2>5
    <3>2. f[i - 1] \subseteq f[i] /\ f[i] = Further(f[i - 1], kids)
      BY <1>3, <1>6, <3>1
    <3>3. CASE Closed(f[i - 1], kids)
      <4>1. f[i] = f[i - 1]
        BY <3>2, <3>3 DEF Closed, Further
      <4> QED BY <2>2, <3>3, <4>1
    <3>4. CASE i - 1 < Cardinality(f[i - 1])
      <4>1. f[i - 1] # f[i]
        <5> SUFFICES ASSUME f[i - 1] = f[i] PROVE FALSE
          OBVIOUS
        <5>1. \A x \in f[i], s \in Sides : kids[x][s] \in f[i] \cup {NULL}
          BY <3>2 DEF Further
        <5> QED BY <2>2, <5>1 DEF Closed
      <4>2. Cardinality(f[i - 1]) \in Nat /\ Cardinality(f[i - 1]) < Cardinality(f[i])
        <5>1. IsFiniteSet(f[i - 1])
          BY <2>3, <3>2, FS_Subset
        <5>2. Cardinality(f[i - 1]) \in Nat /\ Cardinality(f[i - 1]) <= Cardinality(f[i])
          BY <2>3, <3>2, <5>1, FS_Subset, FS_CardinalityType
        <5>3. Cardinality(f[i - 1]) # Cardinality(f[i])
          BY <2>3, <3>2, <4>1, FS_Subset
        <5> QED BY <2>3, <5>2, <5>3
      <4> QED BY <1>1, <2>2, <2>3, <3>4, <4>2
    <3> QED BY <3>1, <3>3, <3>4
  <2> QED BY <2>4, <2>5
<1>9. Closed(f[n], kids)
  <2>1. n \in 0 .. n
    BY <1>1
  <2>2. f[n] \subseteq D
    BY <1>5, <2>1
  <2>3. IsFiniteSet(f[n]) /\ Cardinality(f[n]) \in Nat /\ Cardinality(f[n]) <= n
    BY <2>2, FS_Subset, FS_CardinalityType DEF n
  <2> QED BY <1>1, <1>8, <2>1, <2>3
<1>10. n \in 0 .. n
  BY <1>1
<1> QED BY <1>2, <1>4, <1>5, <1>7, <1>9, <1>10

-----------------------------------------------------------------------------
(***************************************************************************)
(* Search trees: D[x] is the set of the elements in the subtree of x.      *)
(***************************************************************************)
\* a is at side s of b, and the side of b that a is at.
On(s, a, b) == IF s = "left" THEN a < b ELSE b < a
SideTo(a, b) == IF a < b THEN "left" ELSE "right"

\* There are two sides.
LEMMA SideFacts ==
  ASSUME NEW s \in Sides
  PROVE  /\ Other(s) \in Sides /\ Other(s) # s /\ Other(Other(s)) = s
         /\ \A r \in Sides : r = s \/ r = Other(s)
  BY DEF Sides, Other

\* Of two elements one is at the left of the other.
LEMMA OnFacts ==
  ASSUME NEW a \in Nat, NEW b \in Nat, NEW s \in Sides
  PROVE  /\ a # b => On(SideTo(a, b), a, b)
         /\ On(s, a, b) => a # b /\ SideTo(a, b) = s /\ SideTo(b, a) = Other(s)
         /\ On(Other(s), a, b) <=> On(s, b, a)
         /\ SideTo(a, b) \in Sides
         /\ ~(On(s, a, b) /\ On(s, b, a))
  BY DEF Sides, Other, On, SideTo

\* What is at one side of an element is at that side of all on its other side.
LEMMA OnTransitive ==
  ASSUME NEW a \in Nat, NEW b \in Nat, NEW c \in Nat, NEW s \in Sides, On(s, a, b), On(s, b, c)
  PROVE  On(s, a, c)
  BY DEF Sides, On

\* The subtree of an element has it, and the subtrees of its children at their
\* sides of it, and nothing else.
IsSubtrees(E, root, kids, D) ==
  /\ D \in [E \cup {NULL} -> SUBSET E] /\ D[NULL] = {}
  /\ root # NULL => root \in D[root]
  /\ \A x \in D[root] : x \in D[x] /\ D[x] \subseteq D[root]
  /\ \A x \in D[root], s \in Sides :
       /\ kids[x][s] # NULL => kids[x][s] \in D[kids[x][s]]
       /\ \A y \in D[kids[x][s]] : y \in D[x] /\ On(s, y, x)
  /\ \A x \in D[root] : \A y \in D[x] : y # x => y \in D[kids[x][SideTo(y, x)]]

\* The links make a search tree of elements of E.
IsTree(E, root, kids, D) ==
  /\ IsFiniteSet(E) /\ E \subseteq Nat \ {NULL}
  /\ root \in E \cup {NULL} /\ kids \in [E -> [Sides -> E \cup {NULL}]]
  /\ IsSubtrees(E, root, kids, D)

\* The child of an element at a side, if there is one, is in the tree and at that side.
LEMMA KidFacts ==
  ASSUME NEW E, NEW root, NEW kids, NEW D, IsTree(E, root, kids, D),
         NEW x \in D[root], NEW s \in Sides, NEW c, c = kids[x][s]
  PROVE  /\ x \in E /\ x \in Nat /\ x # NULL /\ c \in E \cup {NULL} /\ D[c] \subseteq D[x] /\ x \notin D[c]
         /\ c # NULL => c \in D[root] /\ c \in D[c] /\ c \in D[x] /\ On(s, c, x)
         /\ c = NULL => D[c] = {}
<1> USE DEF IsTree, IsSubtrees
<1>1. x \in E /\ x \in Nat /\ x # NULL /\ c \in E \cup {NULL}
  <2>1. D[root] \subseteq E
    OBVIOUS
  <2> QED BY <2>1
<1>2. \A y \in D[c] : y \in D[x] /\ On(s, y, x)
  OBVIOUS
<1>3. ~On(s, x, x)
  BY <1>1, OnFacts
<1>4. c # NULL => c \in D[c]
  OBVIOUS
<1>5. D[x] \subseteq D[root]
  OBVIOUS
<1> HIDE DEF IsTree
<1>6. c = NULL => D[c] = {}
  BY DEF IsTree
<1> QED BY <1>1, <1>2, <1>3, <1>4, <1>5, <1>6

\* Among the elements of a set there is one with no child in the set.
LEMMA Deepest ==
  ASSUME NEW E, NEW root, NEW kids, NEW D, IsTree(E, root, kids, D),
         NEW S, S \subseteq D[root], S # {}
  PROVE  \E x \in S : \A s \in Sides : kids[x][s] \notin S
<1> USE DEF IsTree, IsSubtrees
<1> DEFINE Sizes == {Cardinality(D[x]) : x \in S}
<1>1. \A x \in D[root] : x \in E /\ IsFiniteSet(D[x]) /\ Cardinality(D[x]) \in Nat
  BY FS_Subset, FS_CardinalityType
<1>2. PICK n \in Sizes : \A m \in Sizes : n <= m
  <2>1. Sizes \subseteq Nat
    BY <1>1
  <2>2. Sizes # {}
    <3>1. PICK x \in S : TRUE
      OBVIOUS
    <3>2. Cardinality(D[x]) \in Sizes
      OBVIOUS
    <3> QED BY <3>2
  <2> HIDE DEF Sizes
  <2> QED BY <2>1, <2>2, LeastExists
<1>3. PICK x \in S : \A z \in S : Cardinality(D[x]) <= Cardinality(D[z])
  BY <1>2
<1>4. ASSUME NEW s \in Sides, kids[x][s] \in S PROVE FALSE
  <2> DEFINE c == kids[x][s]
  <2>1. c \in D[root] /\ x \in D[root] /\ c # NULL
    BY <1>1, <1>4
  <2>2. D[c] \subseteq D[x] /\ x \in D[x] /\ x \notin D[c]
    <3>1. x \in D[x]
      BY <2>1
    <3> HIDE DEF IsTree, IsSubtrees
    <3> QED BY <2>1, <3>1, KidFacts
  <2>3. Cardinality(D[c]) < Cardinality(D[x])
    <3>1. IsFiniteSet(D[x]) /\ Cardinality(D[x]) \in Nat /\ Cardinality(D[c]) \in Nat
      BY <1>1, <2>1
    <3>2. Cardinality(D[c]) <= Cardinality(D[x]) /\ (Cardinality(D[c]) = Cardinality(D[x]) => D[c] = D[x])
      BY <2>2, <3>1, FS_Subset
    <3> QED BY <2>2, <3>1, <3>2
  <2>4. Cardinality(D[x]) <= Cardinality(D[c])
    BY <1>3, <1>4
  <2>5. Cardinality(D[x]) \in Nat /\ Cardinality(D[c]) \in Nat
    BY <1>1, <2>1
  <2> HIDE DEF c
  <2> QED BY <2>3, <2>4, <2>5
<1> QED BY <1>3, <1>4

\* A subtree holds the subtrees of its elements.
LEMMA Nested ==
  ASSUME NEW E, NEW root, NEW kids, NEW D, IsTree(E, root, kids, D)
  PROVE  \A x \in D[root] : \A y \in D[x] : D[y] \subseteq D[x]
<1> SUFFICES ASSUME NEW x0 \in D[root], NEW y \in D[x0], ~(D[y] \subseteq D[x0])
             PROVE  FALSE
  OBVIOUS
<1> DEFINE S == {x \in D[root] : y \in D[x] /\ ~(D[y] \subseteq D[x])}
<1>1. PICK x \in S : \A s \in Sides : kids[x][s] \notin S
  <2>1. S \subseteq D[root] /\ S # {}
    OBVIOUS
  <2> HIDE DEF S
  <2> QED BY <2>1, Deepest
<1> USE DEF IsTree, IsSubtrees
<1>2. x \in D[root] /\ y \in D[x] /\ ~(D[y] \subseteq D[x]) /\ x # y
  OBVIOUS
<1> DEFINE s == SideTo(y, x)
           c == kids[x][s]
<1>3. s \in Sides
  BY DEF SideTo, Sides
<1>4. y \in D[c]
  BY <1>2
<1>5. D[c] \subseteq D[x] /\ c \in D[root]
  <2>1. c # NULL
    BY <1>4
  <2> HIDE DEF IsTree, IsSubtrees, s
  <2> QED BY <1>2, <1>3, <2>1, KidFacts
<1> HIDE DEF s, IsTree, IsSubtrees
<1>6. c \notin S
  BY <1>1, <1>3
<1> QED BY <1>2, <1>4, <1>5, <1>6

\* What is outside a subtree is at one side of all of it.
LEMMA Convex ==
  ASSUME NEW E, NEW root, NEW kids, NEW D, IsTree(E, root, kids, D),
         NEW x \in D[root], NEW y \in D[root], y \notin D[x],
         NEW a \in D[x], NEW b \in D[x], NEW s \in Sides, On(s, y, a)
  PROVE  On(s, y, b)
<1> DEFINE S == {w \in D[root] : x \in D[w] /\ y \in D[w]}
<1>1. PICK w \in S : \A r \in Sides : kids[w][r] \notin S
  <2>1. S \subseteq D[root] /\ S # {}
    BY DEF IsTree, IsSubtrees
  <2> HIDE DEF S
  <2> QED BY <2>1, Deepest
<1>2. w \in D[root] /\ x \in D[w] /\ y \in D[w] /\ w # x
  OBVIOUS
<1>3. D[root] \subseteq Nat /\ a \in D[root] /\ b \in D[root]
  BY DEF IsTree, IsSubtrees
<1>4. \A z \in D[w] : z # w => /\ SideTo(z, w) \in Sides
                               /\ z \in D[kids[w][SideTo(z, w)]] /\ kids[w][SideTo(z, w)] \in D[root]
                               /\ On(SideTo(z, w), z, w)
  <2> SUFFICES ASSUME NEW z \in D[w], z # w
               PROVE  /\ SideTo(z, w) \in Sides
                      /\ z \in D[kids[w][SideTo(z, w)]] /\ kids[w][SideTo(z, w)] \in D[root]
                      /\ On(SideTo(z, w), z, w)
    OBVIOUS
  <2>1. SideTo(z, w) \in Sides
    BY DEF SideTo, Sides
  <2>2. z \in D[kids[w][SideTo(z, w)]]
    BY <1>2 DEF IsTree, IsSubtrees
  <2>3. kids[w][SideTo(z, w)] # NULL
    BY <2>2 DEF IsTree, IsSubtrees
  <2>4. kids[w][SideTo(z, w)] \in D[root]
    BY <1>2, <2>1, <2>3, KidFacts
  <2>5. On(SideTo(z, w), z, w)
    BY <1>2, <2>1, <2>2 DEF IsTree, IsSubtrees
  <2> QED BY <2>1, <2>2, <2>4, <2>5
<1> DEFINE r == SideTo(x, w)
           c == kids[w][r]
<1>5. r \in Sides /\ x \in D[c] /\ c \in D[root]
  BY <1>2, <1>4
<1>6. y \notin D[c]
  BY <1>1, <1>2, <1>5
<1>7. a \in D[c] /\ b \in D[c]
  <2>1. D[x] \subseteq D[c]
    <3> HIDE DEF c
    <3> QED BY <1>5, Nested
  <2> QED BY <2>1
<1>8. On(r, a, w) /\ On(r, b, w)
  BY <1>2, <1>5, <1>7 DEF IsTree, IsSubtrees
<1>9. y = w \/ On(Other(r), y, w)
  <2>1. CASE y # w
    <3>1. SideTo(y, w) # r /\ SideTo(y, w) \in Sides /\ On(SideTo(y, w), y, w)
      BY <1>2, <1>4, <1>6, <2>1
    <3> HIDE DEF r
    <3> QED BY <1>5, <3>1, SideFacts
  <2> QED BY <2>1
<1> HIDE DEF r, c
<1> QED BY <1>3, <1>5, <1>8, <1>9, <1>2 DEF On, Sides, Other

\* A subtree is what is reached from its root.
LEMMA SubtreeReached ==
  ASSUME NEW E, NEW root, NEW kids, NEW D, IsTree(E, root, kids, D),
         NEW x \in D[root] \cup {NULL}
  PROVE  Reachable({x}, kids) = D[x]
<1> DEFINE R == Reachable({x}, kids)
<1>0. D[root] \subseteq E /\ NULL \notin E
  BY DEF IsTree, IsSubtrees
<1>1. /\ {x} \ {NULL} \subseteq R /\ R \subseteq E /\ Closed(R, kids)
      /\ \A S : {x} \ {NULL} \subseteq S /\ Closed(S, kids) => R \subseteq S
  <2>1. {x} \subseteq E \cup {NULL}
    BY <1>0
  <2>2. IsFiniteSet(E) /\ kids \in [E -> [Sides -> E \cup {NULL}]]
    BY DEF IsTree
  <2> QED BY <1>0, <2>1, <2>2, ReachableIs
<1> HIDE DEF R
<1>2. R \subseteq D[x]
  <2>1. {x} \ {NULL} \subseteq D[x]
    BY DEF IsTree, IsSubtrees
  <2>2. Closed(D[x], kids)
    <3> SUFFICES ASSUME NEW y \in D[x], NEW s \in Sides, kids[y][s] # NULL
                 PROVE  kids[y][s] \in D[x]
      BY DEF Closed
    <3>1. x \in D[root] /\ y \in D[root]
      BY DEF IsTree, IsSubtrees
    <3>2. D[y] \subseteq D[x]
      BY <3>1, Nested
    <3> QED BY <3>1, <3>2 DEF IsTree, IsSubtrees
  <2> QED BY <1>1, <2>1, <2>2
<1>3. ASSUME NEW y \in D[x], y \notin R PROVE FALSE
  <2> DEFINE S == {w \in D[root] \cap R : y \in D[w]}
  <2>1. PICK w \in S : \A r \in Sides : kids[w][r] \notin S
    <3>1. S \subseteq D[root] /\ x \in S
      BY <1>1, <1>3 DEF IsTree, IsSubtrees
    <3> HIDE DEF S
    <3> QED BY <3>1, Deepest
  <2>2. w \in D[root] /\ w \in R /\ y \in D[w] /\ w # y
    BY <1>3
  <2> DEFINE r == SideTo(y, w)
             c == kids[w][r]
  <2>3. r \in Sides
    BY DEF SideTo, Sides
  <2>4. y \in D[c] /\ c # NULL
    BY <2>2 DEF IsTree, IsSubtrees
  <2>5. c \in D[root]
    BY <2>2, <2>3, <2>4, KidFacts
  <2>6. c \in R
    BY <1>1, <2>2, <2>3, <2>4 DEF Closed
  <2> QED BY <2>1, <2>3, <2>4, <2>5, <2>6
<1> QED BY <1>2, <1>3 DEF R

=============================================================================
