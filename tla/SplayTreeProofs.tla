--------------------------- MODULE SplayTreeProofs ---------------------------
(***************************************************************************)
(* Proofs about the splay tree, for every set of elements: the tree can    *)
(* always be put together again, what SPLAY brings to the root is what was *)
(* searched or next to it, and callers see an ordered set.                 *)
(***************************************************************************)
EXTENDS SplayTree, BinaryTreeProofs

(***************************************************************************)
(* Trees by what is in them: taken apart and put together again.           *)
(***************************************************************************)
Slots == Elements \cup {NULL}
Links == [Elements -> [Sides -> Slots]]

\* With the links k, the elements below r are those of S, in order.
TreeOf(k, r, S) == \E D : IsTree(Elements, r, k, D) /\ D[r] = S

\* What is assumed of the elements.
LEMMA NoNull == NULL \notin Elements /\ Elements \subseteq Nat /\ IsFiniteSet(Elements)
  BY ElementsAssumption

\* The types in a tree, and its root is in it.
LEMMA TreeTypes ==
  ASSUME NEW k, NEW r, NEW S, TreeOf(k, r, S)
  PROVE  /\ k \in Links /\ r \in Slots /\ S \subseteq Elements /\ S \subseteq Nat /\ NULL \notin S
         /\ r = NULL <=> S = {}
         /\ r # NULL => r \in S
<1>1. PICK D : IsTree(Elements, r, k, D) /\ D[r] = S
  BY DEF TreeOf
<1> QED BY <1>1, NoNull DEF IsTree, IsSubtrees, Links, Slots

\* Nothing is below NULL.
LEMMA EmptyTree ==
  ASSUME NEW k \in Links
  PROVE  TreeOf(k, NULL, {})
<1> DEFINE D == [x \in Elements \cup {NULL} |-> {}]
<1>1. D \in [Elements \cup {NULL} -> SUBSET Elements] /\ D[NULL] = {}
  OBVIOUS
<1> HIDE DEF D
<1>2. IsTree(Elements, NULL, k, D)
  BY <1>1, NoNull DEF IsTree, IsSubtrees, Links, Slots
<1> QED BY <1>1, <1>2 DEF TreeOf

\* A child is the root of what is at its side.
LEMMA KidTree ==
  ASSUME NEW k, NEW r, NEW S, TreeOf(k, r, S), r # NULL, NEW s \in Sides
  PROVE  TreeOf(k, k[r][s], {y \in S : On(s, y, r)})
<1>1. PICK D : IsTree(Elements, r, k, D) /\ D[r] = S
  BY DEF TreeOf
<1> DEFINE c == k[r][s]
<1>2. r \in D[r] /\ D[r] \subseteq Elements /\ Elements \subseteq Nat /\ NULL \notin Elements
  BY <1>1, NoNull DEF IsTree, IsSubtrees
<1>3. c \in Elements \cup {NULL} /\ (c # NULL => c \in D[r] /\ c \in D[c]) /\ (c = NULL => D[c] = {})
  BY <1>1, <1>2, KidFacts
<1>4. \A x \in D[c] : x \in D[r] /\ D[x] \subseteq D[c]
  <2> HIDE DEF c
  <2>1. c # NULL => \A x \in D[c] : D[x] \subseteq D[c]
    BY <1>1, <1>3, Nested
  <2>2. c # NULL => D[c] \subseteq D[r]
    BY <1>1, <1>3 DEF IsTree, IsSubtrees
  <2> QED BY <1>3, <2>1, <2>2
<1>5. D[c] = {y \in D[r] : On(s, y, r)}
  <2>1. ASSUME NEW y \in D[c] PROVE y \in D[r] /\ On(s, y, r)
    BY <1>1, <1>2, <1>4, <2>1 DEF IsTree, IsSubtrees
  <2>2. ASSUME NEW y \in D[r], On(s, y, r) PROVE y \in D[c]
    <3>1. y # r /\ SideTo(y, r) = s
      BY <1>2, <2>2, OnFacts
    <3> QED BY <1>1, <1>2, <2>2, <3>1 DEF IsTree, IsSubtrees
  <2> QED BY <2>1, <2>2
<1>6. IsTree(Elements, c, k, D)
  <2> HIDE DEF c
  <2> QED BY <1>1, <1>2, <1>3, <1>4 DEF IsTree, IsSubtrees
<1> QED BY <1>1, <1>5, <1>6 DEF TreeOf

\* Only the links of the elements in a tree matter.
LEMMA FrameTree ==
  ASSUME NEW k, NEW r, NEW S, TreeOf(k, r, S), NEW m \in Links, \A x \in S : m[x] = k[x]
  PROVE  TreeOf(m, r, S)
<1>1. PICK D : IsTree(Elements, r, k, D) /\ D[r] = S
  BY DEF TreeOf
<1>2. IsTree(Elements, r, m, D)
  BY <1>1 DEF IsTree, IsSubtrees, Links, Slots
<1> QED BY <1>1, <1>2 DEF TreeOf

\* An element with a tree at each of its sides.
LEMMA JoinTree ==
  ASSUME NEW k, NEW x \in Elements, NEW A, NEW B,
         TreeOf(k, k[x]["left"], A), TreeOf(k, k[x]["right"], B),
         \A y \in A : y < x, \A y \in B : x < y
  PROVE  TreeOf(k, x, {x} \cup A \cup B)
<1>1. PICK F : IsTree(Elements, k[x]["left"], k, F) /\ F[k[x]["left"]] = A
  BY DEF TreeOf
<1>2. PICK G : IsTree(Elements, k[x]["right"], k, G) /\ G[k[x]["right"]] = B
  BY DEF TreeOf
<1>3. x \in Nat /\ A \subseteq Nat /\ B \subseteq Nat /\ x # NULL /\ NULL \notin A /\ NULL \notin B
  BY NoNull, TreeTypes
<1>4. A \subseteq Elements /\ B \subseteq Elements
  BY TreeTypes
<1>5. x \notin A /\ x \notin B /\ \A y \in A : y \notin B
  <2>1. ASSUME NEW y \in A, y \in B PROVE FALSE
    <3>1. y < x /\ x < y /\ y \in Nat
      BY <1>3, <2>1
    <3> QED BY <1>3, <3>1
  <2>2. ~(x < x)
    BY <1>3
  <2> QED BY <2>1, <2>2
<1> DEFINE D == [z \in Elements \cup {NULL} |-> IF z = x THEN {x} \cup A \cup B
                                                 ELSE IF z \in A THEN F[z]
                                                 ELSE IF z \in B THEN G[z] ELSE {}]
<1>6. \A z \in A : F[z] \subseteq A /\ z \in F[z]
  BY <1>1 DEF IsTree, IsSubtrees
<1>7. \A z \in B : G[z] \subseteq B /\ z \in G[z]
  BY <1>2 DEF IsTree, IsSubtrees
<1>8. /\ D \in [Elements \cup {NULL} -> SUBSET Elements]
      /\ D[NULL] = {} /\ D[x] = {x} \cup A \cup B
      /\ \A z \in A : D[z] = F[z]
      /\ \A z \in B : D[z] = G[z]
  <2>1. \A z \in Elements \cup {NULL} : D[z] \in SUBSET Elements
    BY <1>4, <1>6, <1>7
  <2>2. D[NULL] = {}
    BY <1>3
  <2>3. D[x] = {x} \cup A \cup B
    OBVIOUS
  <2>4. ASSUME NEW z \in A PROVE D[z] = F[z]
    BY <1>4, <1>5
  <2>5. ASSUME NEW z \in B PROVE D[z] = G[z]
    BY <1>4, <1>5
  <2>6. D = [z \in Elements \cup {NULL} |-> D[z]]
    OBVIOUS
  <2> HIDE DEF D
  <2> QED BY <2>1, <2>2, <2>3, <2>4, <2>5, <2>6
<1> HIDE DEF D
<1>9. k \in Links
  BY TreeTypes
<1>10. \A z \in A, s \in Sides : /\ k[z][s] = NULL \/ k[z][s] \in A
                                 /\ D[k[z][s]] \subseteq D[z] /\ \A y \in D[k[z][s]] : On(s, y, z)
  <2> SUFFICES ASSUME NEW z \in A, NEW s \in Sides
               PROVE  /\ k[z][s] = NULL \/ k[z][s] \in A
                      /\ D[k[z][s]] \subseteq D[z] /\ \A y \in D[k[z][s]] : On(s, y, z)
    OBVIOUS
  <2>1. k[z][s] = NULL \/ k[z][s] \in A
    BY <1>1, KidFacts
  <2>2. F[k[z][s]] \subseteq F[z] /\ \A y \in F[k[z][s]] : On(s, y, z)
    BY <1>1 DEF IsTree, IsSubtrees
  <2> QED BY <1>8, <2>1, <2>2
<1>11. \A z \in B, s \in Sides : /\ k[z][s] = NULL \/ k[z][s] \in B
                                 /\ D[k[z][s]] \subseteq D[z] /\ \A y \in D[k[z][s]] : On(s, y, z)
  <2> SUFFICES ASSUME NEW z \in B, NEW s \in Sides
               PROVE  /\ k[z][s] = NULL \/ k[z][s] \in B
                      /\ D[k[z][s]] \subseteq D[z] /\ \A y \in D[k[z][s]] : On(s, y, z)
    OBVIOUS
  <2>1. k[z][s] = NULL \/ k[z][s] \in B
    BY <1>2, KidFacts
  <2>2. G[k[z][s]] \subseteq G[z] /\ \A y \in G[k[z][s]] : On(s, y, z)
    BY <1>2 DEF IsTree, IsSubtrees
  <2> QED BY <1>8, <2>1, <2>2
<1>12. \A z \in A : \A y \in D[z] : y # z => y \in D[k[z][SideTo(y, z)]]
  <2> SUFFICES ASSUME NEW z \in A, NEW y \in D[z], y # z PROVE y \in D[k[z][SideTo(y, z)]]
    OBVIOUS
  <2>1. y \in F[k[z][SideTo(y, z)]]
    BY <1>1, <1>8 DEF IsTree, IsSubtrees
  <2>2. SideTo(y, z) \in Sides
    BY DEF SideTo, Sides
  <2>3. k[z][SideTo(y, z)] \in A
    BY <1>1, <1>10, <2>1, <2>2 DEF IsTree, IsSubtrees
  <2> QED BY <1>8, <2>1, <2>3
<1>13. \A z \in B : \A y \in D[z] : y # z => y \in D[k[z][SideTo(y, z)]]
  <2> SUFFICES ASSUME NEW z \in B, NEW y \in D[z], y # z PROVE y \in D[k[z][SideTo(y, z)]]
    OBVIOUS
  <2>1. y \in G[k[z][SideTo(y, z)]]
    BY <1>2, <1>8 DEF IsTree, IsSubtrees
  <2>2. SideTo(y, z) \in Sides
    BY DEF SideTo, Sides
  <2>3. k[z][SideTo(y, z)] \in B
    BY <1>2, <1>11, <2>1, <2>2 DEF IsTree, IsSubtrees
  <2> QED BY <1>8, <2>1, <2>3
<1>14. /\ k[x]["left"] \in A \cup {NULL} /\ k[x]["right"] \in B \cup {NULL}
       /\ D[k[x]["left"]] = A /\ D[k[x]["right"]] = B
  <2>1. k[x]["left"] \in A \cup {NULL} /\ k[x]["right"] \in B \cup {NULL}
    BY TreeTypes
  <2>2. k[x]["left"] = NULL => A = {}
    BY TreeTypes
  <2>3. D[k[x]["left"]] = A
    BY <1>1, <1>8, <2>1, <2>2
  <2>4. k[x]["right"] = NULL => B = {}
    BY TreeTypes
  <2>5. D[k[x]["right"]] = B
    BY <1>2, <1>8, <2>1, <2>4
  <2> QED BY <2>1, <2>3, <2>5
<1>15. \A s \in Sides : \A y \in D[k[x][s]] : y \in D[x] /\ On(s, y, x)
  BY <1>8, <1>14 DEF Sides, On
<1>16. \A y \in D[x] : y # x => y \in D[k[x][SideTo(y, x)]]
  <2> SUFFICES ASSUME NEW y \in D[x], y # x PROVE y \in D[k[x][SideTo(y, x)]]
    OBVIOUS
  <2>1. CASE y \in A
    BY <1>14, <2>1 DEF SideTo
  <2>2. CASE y \in B
    <3>1. ~(y < x)
      BY <1>3, <2>2
    <3> QED BY <1>14, <2>2, <3>1 DEF SideTo
  <2> QED BY <1>8, <2>1, <2>2
<1>17. \A z \in D[x] : z \in D[z] /\ D[z] \subseteq D[x]
  BY <1>6, <1>7, <1>8
<1>18. \A z \in D[x], s \in Sides :
         /\ k[z][s] # NULL => k[z][s] \in D[k[z][s]]
         /\ \A y \in D[k[z][s]] : y \in D[z] /\ On(s, y, z)
  <2> SUFFICES ASSUME NEW z \in D[x], NEW s \in Sides
               PROVE  /\ k[z][s] # NULL => k[z][s] \in D[k[z][s]]
                      /\ \A y \in D[k[z][s]] : y \in D[z] /\ On(s, y, z)
    OBVIOUS
  <2>1. CASE z \in A
    BY <1>6, <1>8, <1>10, <2>1
  <2>2. CASE z \in B
    BY <1>7, <1>8, <1>11, <2>2
  <2>3. CASE z = x
    <3>1. k[x][s] # NULL => k[x][s] \in A \cup B
      BY <1>14 DEF Sides
    <3> QED BY <1>6, <1>7, <1>8, <1>15, <2>3, <3>1
  <2> QED BY <1>8, <2>1, <2>2, <2>3
<1>19. \A z \in D[x] : \A y \in D[z] : y # z => y \in D[k[z][SideTo(y, z)]]
  BY <1>8, <1>12, <1>13, <1>16
<1>20. IsTree(Elements, x, k, D)
  BY <1>8, <1>9, <1>17, <1>18, <1>19, NoNull DEF IsTree, IsSubtrees, Links, Slots
<1> QED BY <1>8, <1>20 DEF TreeOf

\* At the outermost element of a tree another one can hang.
LEMMA AttachTree ==
  ASSUME NEW k, NEW r, NEW S, TreeOf(k, r, S), NEW q, NEW Q, TreeOf(k, q, Q),
         NEW e \in S, NEW s \in Sides, \A y \in S : y # e => On(Other(s), y, e),
         \A y \in Q : On(s, y, e), NEW m, m = [k EXCEPT ![e][s] = q]
  PROVE  TreeOf(m, r, S \cup Q)
<1>1. PICK F : IsTree(Elements, r, k, F) /\ F[r] = S
  BY DEF TreeOf
<1>2. PICK G : IsTree(Elements, q, k, G) /\ G[q] = Q
  BY DEF TreeOf
<1>3. /\ S \subseteq Elements /\ Q \subseteq Elements /\ S \subseteq Nat /\ Q \subseteq Nat
      /\ NULL \notin S /\ NULL \notin Q /\ k \in Links /\ r \in Slots /\ q \in Slots /\ e \in Nat
      /\ r # NULL => r \in S
      /\ r = NULL <=> S = {}
      /\ q # NULL => q \in Q
      /\ q = NULL => Q = {}
  BY TreeTypes
<1>4. /\ m \in Links /\ m[e][s] = q
      /\ \A z \in Elements, t \in Sides : ~(z = e /\ t = s) => m[z][t] = k[z][t]
  BY <1>3 DEF Links
<1>5. /\ Other(s) \in Sides /\ Other(s) # s
      /\ \A t \in Sides : t = s \/ t = Other(s)
  BY SideFacts
<1>6. \A y \in S, z \in Q : On(s, z, e) /\ On(s, z, y)
  <2> SUFFICES ASSUME NEW y \in S, NEW z \in Q PROVE On(s, z, e) /\ On(s, z, y)
    OBVIOUS
  <2>1. y \in Nat /\ z \in Nat
    BY <1>3
  <2>2. y # e => On(s, e, y)
    BY <1>3, <1>5, <2>1, OnFacts
  <2> QED BY <1>3, <2>1, <2>2, OnTransitive
<1>7. \A y \in S : y \notin Q
  <2>1. \A y \in Nat : ~On(s, y, y)
    BY OnFacts
  <2> QED BY <1>3, <1>6, <2>1
<1> DEFINE D == [z \in Elements \cup {NULL} |-> IF z \in Q THEN G[z]
                                                 ELSE IF z \in S THEN IF e \in F[z] THEN F[z] \cup Q ELSE F[z]
                                                 ELSE {}]
<1>8. \A z \in S : F[z] \subseteq S /\ z \in F[z]
  BY <1>1 DEF IsTree, IsSubtrees
<1>9. \A z \in Q : G[z] \subseteq Q /\ z \in G[z]
  BY <1>2 DEF IsTree, IsSubtrees
<1>10. /\ D \in [Elements \cup {NULL} -> SUBSET Elements]
       /\ D[NULL] = {}
       /\ \A z \in Q : D[z] = G[z]
       /\ \A z \in S : D[z] = IF e \in F[z] THEN F[z] \cup Q ELSE F[z]
  <2>1. \A z \in Elements \cup {NULL} : D[z] \in SUBSET Elements
    BY <1>3, <1>8, <1>9
  <2>2. D[NULL] = {}
    BY <1>3
  <2>3. ASSUME NEW z \in Q PROVE D[z] = G[z]
    BY <1>3
  <2>4. ASSUME NEW z \in S PROVE D[z] = IF e \in F[z] THEN F[z] \cup Q ELSE F[z]
    BY <1>3, <1>7
  <2>5. D = [z \in Elements \cup {NULL} |-> D[z]]
    OBVIOUS
  <2> HIDE DEF D
  <2> QED BY <2>1, <2>2, <2>3, <2>4, <2>5
<1> HIDE DEF D
<1>11. D[r] = S \cup Q
  BY <1>1, <1>3, <1>10
<1>12. \A z \in D[r] : z \in D[z] /\ D[z] \subseteq D[r]
  BY <1>8, <1>9, <1>10, <1>11
\* The links of what is attached.
<1>13. ASSUME NEW z \in Q
       PROVE  /\ \A t \in Sides : /\ m[z][t] # NULL => m[z][t] \in D[m[z][t]]
                                  /\ \A y \in D[m[z][t]] : y \in D[z] /\ On(t, y, z)
              /\ \A y \in D[z] : y # z => y \in D[m[z][SideTo(y, z)]]
  <2>1. \A t \in Sides : m[z][t] = k[z][t]
    BY <1>3, <1>4, <1>7
  <2>2. \A t \in Sides : k[z][t] \in Q \cup {NULL} /\ G[NULL] = {}
    <3>1. \A t \in Sides : k[z][t] \in Q \cup {NULL}
      BY <1>2, KidFacts
    <3> QED BY <1>2, <3>1 DEF IsTree, IsSubtrees
  <2>3. \A t \in Sides : D[m[z][t]] = G[k[z][t]]
    BY <1>10, <2>1, <2>2
  <2>4. \A t \in Sides : /\ m[z][t] # NULL => m[z][t] \in D[m[z][t]]
                         /\ \A y \in D[m[z][t]] : y \in D[z] /\ On(t, y, z)
    BY <1>2, <1>10, <2>1, <2>3 DEF IsTree, IsSubtrees
  <2>5. ASSUME NEW y \in D[z], y # z PROVE y \in D[m[z][SideTo(y, z)]]
    <3>1. y \in G[k[z][SideTo(y, z)]]
      BY <1>2, <1>10, <2>5 DEF IsTree, IsSubtrees
    <3>2. SideTo(y, z) \in Sides
      BY DEF SideTo, Sides
    <3> QED BY <2>3, <3>1, <3>2
  <2> QED BY <2>4, <2>5
\* The links of what it is attached to.
<1>14. \A z \in S, t \in Sides : k[z][t] \in S \cup {NULL}
  BY <1>1, KidFacts
<1>15. F[NULL] = {}
  BY <1>1 DEF IsTree, IsSubtrees
<1>16. k[e][s] = NULL
  <2> SUFFICES ASSUME k[e][s] # NULL PROVE FALSE
    OBVIOUS
  <2>1. k[e][s] \in S /\ On(s, k[e][s], e)
    BY <1>1, KidFacts
  <2>2. k[e][s] # e /\ k[e][s] \in Nat
    BY <1>3, <2>1, OnFacts
  <2>3. On(Other(s), k[e][s], e)
    BY <2>1, <2>2
  <2> QED BY <1>3, <2>1, <2>2, <2>3, OnFacts
<1>17. \A z \in S : e \in F[z] /\ z # e => SideTo(e, z) = s
  <2> SUFFICES ASSUME NEW z \in S, e \in F[z], z # e PROVE SideTo(e, z) = s
    OBVIOUS
  <2>1. z \in Nat /\ On(Other(s), z, e)
    BY <1>3
  <2> QED BY <1>3, <2>1, OnFacts
<1>18. ASSUME NEW z \in S, NEW t \in Sides
       PROVE  /\ m[z][t] # NULL => m[z][t] \in D[m[z][t]]
              /\ \A y \in D[m[z][t]] : y \in D[z] /\ On(t, y, z)
  <2>1. CASE z = e /\ t = s
    <3>1. m[z][t] = q /\ D[q] = Q
      BY <1>2, <1>3, <1>4, <1>10, <2>1
    <3>2. e \in F[e] /\ D[e] = F[e] \cup Q
      BY <1>8, <1>10
    <3> QED BY <1>3, <1>6, <2>1, <3>1, <3>2
  <2>2. CASE ~(z = e /\ t = s)
    <3> DEFINE c == k[z][t]
    <3>1. m[z][t] = c /\ c \in S \cup {NULL}
      BY <1>3, <1>4, <1>14, <2>2
    <3>2. F[c] \subseteq F[z] /\ \A y \in F[c] : On(t, y, z)
      BY <1>1 DEF IsTree, IsSubtrees
    <3> HIDE DEF c
    <3>3. c # NULL => c \in D[c]
      <4> SUFFICES ASSUME c \in S PROVE c \in D[c]
        BY <3>1
      <4> QED BY <1>8, <1>10
    <3>4. ASSUME NEW y \in D[c] PROVE y \in D[z] /\ On(t, y, z)
      <4>1. c \in S
        BY <1>10, <3>1, <3>4
      <4>2. CASE y \in F[c]
        BY <1>10, <3>2, <4>2
      <4>3. CASE y \in Q /\ e \in F[c]
        <5>1. e \in F[z] /\ On(t, e, z)
          BY <3>2, <4>3
        <5>2. z # e /\ SideTo(e, z) = t /\ z \in Nat
          BY <1>3, <5>1, OnFacts
        <5>3. t = s
          BY <1>17, <5>1, <5>2
        <5> QED BY <1>6, <1>10, <4>3, <5>1, <5>3
      <4> QED BY <1>10, <3>4, <4>1, <4>2, <4>3
    <3> QED BY <3>1, <3>3, <3>4
  <2> QED BY <2>1, <2>2
<1>19. ASSUME NEW z \in S, NEW y \in D[z], y # z
       PROVE  y \in D[m[z][SideTo(y, z)]]
  <2>1. SideTo(y, z) \in Sides /\ z \in Nat /\ y \in Nat
    BY <1>3, <1>8, <1>10 DEF SideTo, Sides
  <2>2. CASE y \in F[z]
    <3> DEFINE t == SideTo(y, z)
    <3>1. y \in F[k[z][t]]
      BY <1>1, <1>19, <2>2 DEF IsTree, IsSubtrees
    <3> HIDE DEF t
    <3>2. k[z][t] \in S
      BY <1>14, <1>15, <2>1, <3>1 DEF t
    <3>3. ~(z = e /\ t = s)
      BY <1>15, <1>16, <3>1
    <3>4. m[z][t] = k[z][t]
      BY <1>3, <1>4, <2>1, <3>3 DEF t
    <3> QED BY <1>10, <3>1, <3>2, <3>4 DEF t
  <2>3. CASE y \in Q /\ e \in F[z]
    <3>1. SideTo(y, z) = s
      BY <1>6, <2>1, <2>3, OnFacts
    <3>2. CASE z = e
      <4>1. m[z][s] = q /\ D[q] = Q
        BY <1>2, <1>3, <1>4, <1>10, <3>2
      <4> QED BY <2>3, <3>1, <4>1
    <3>3. CASE z # e
      <4>1. SideTo(e, z) = s
        BY <1>17, <2>3, <3>3
      <4>2. e \in F[k[z][s]]
        BY <1>1, <2>3, <3>3, <4>1 DEF IsTree, IsSubtrees
      <4>3. k[z][s] \in S
        BY <1>14, <1>15, <4>2
      <4>4. m[z][s] = k[z][s]
        BY <1>3, <1>4, <3>3
      <4> QED BY <1>10, <2>3, <3>1, <4>2, <4>3, <4>4
    <3> QED BY <3>2, <3>3
  <2> QED BY <1>10, <1>19, <2>2, <2>3
<1>20. \A z \in D[r], t \in Sides :
         /\ m[z][t] # NULL => m[z][t] \in D[m[z][t]]
         /\ \A y \in D[m[z][t]] : y \in D[z] /\ On(t, y, z)
  BY <1>11, <1>13, <1>18
<1>21. \A z \in D[r] : \A y \in D[z] : y # z => y \in D[m[z][SideTo(y, z)]]
  BY <1>11, <1>13, <1>19
<1>22. r # NULL => r \in D[r]
  BY <1>3, <1>11
<1>23. IsTree(Elements, r, m, D)
  BY <1>3, <1>4, <1>10, <1>12, <1>20, <1>21, <1>22, NoNull DEF IsTree, IsSubtrees, Links, Slots
<1> QED BY <1>11, <1>23 DEF TreeOf

\* Whatever holds the root and the children of its elements holds the tree.
LEMMA DownTree ==
  ASSUME NEW k, NEW r, NEW S, TreeOf(k, r, S), NEW Z, r \in Z \cup {NULL},
         \A x \in Z \cap S, s \in Sides : k[x][s] \in Z \cup {NULL}
  PROVE  S \subseteq Z
<1>1. PICK D : IsTree(Elements, r, k, D) /\ D[r] = S
  BY DEF TreeOf
<1>2. k \in Links /\ r \in Slots /\ S \subseteq Elements
  BY TreeTypes
<1>3. \A x \in S, s \in Sides : k[x][s] \in S \cup {NULL}
  BY <1>1, KidFacts
<1>4. r \in S \cup {NULL}
  BY TreeTypes
<1>5. Closed(Z \cap S, k) /\ {r} \ {NULL} \subseteq Z \cap S
  BY <1>3, <1>4 DEF Closed
<1>6. Reachable({r}, k) = S
  <2>1. r \in D[r] \cup {NULL}
    BY <1>1, <1>4
  <2> QED BY <1>1, <2>1, SubtreeReached
<1>7. Reachable({r}, k) \subseteq Z \cap S
  <2>1. {r} \subseteq Elements \cup {NULL} /\ k \in [Elements -> [Sides -> Elements \cup {NULL}]]
    BY <1>2 DEF Links, Slots
  <2> QED BY <1>5, <2>1, NoNull, ReachableIs
<1> QED BY <1>6, <1>7

\* The children of a tree are in it.
LEMMA KidsInTree ==
  ASSUME NEW k, NEW r, NEW S, TreeOf(k, r, S), NEW x \in S, NEW s \in Sides
  PROVE  k[x][s] \in S \cup {NULL} /\ (k[x][s] # NULL => On(s, k[x][s], x))
<1>1. PICK D : IsTree(Elements, r, k, D) /\ D[r] = S
  BY DEF TreeOf
<1> QED BY <1>1, KidFacts

\* The same, whichever side is which.
LEMMA JoinAt ==
  ASSUME NEW k, NEW x \in Elements, NEW s \in Sides, NEW A, NEW B,
         TreeOf(k, k[x][s], A), TreeOf(k, k[x][Other(s)], B),
         \A y \in A : On(s, y, x), \A y \in B : On(Other(s), y, x)
  PROVE  TreeOf(k, x, {x} \cup A \cup B)
<1>1. CASE s = "left"
  <2>1. Other(s) = "right"
    BY <1>1 DEF Other
  <2>2. \A y \in A : y < x
    BY <1>1 DEF On
  <2>3. \A y \in B : x < y
    BY <2>1 DEF On
  <2> QED BY <1>1, <2>1, <2>2, <2>3, JoinTree
<1>2. CASE s = "right"
  <2>1. Other(s) = "left"
    BY <1>2 DEF Other
  <2>2. \A y \in A : x < y
    BY <1>2 DEF On
  <2>3. \A y \in B : y < x
    BY <2>1 DEF On
  <2>4. TreeOf(k, x, {x} \cup B \cup A)
    BY <1>2, <2>1, <2>2, <2>3, JoinTree
  <2>5. {x} \cup B \cup A = {x} \cup A \cup B
    OBVIOUS
  <2> QED BY <2>4, <2>5
<1> QED BY <1>1, <1>2 DEF Sides

-----------------------------------------------------------------------------
(***************************************************************************)
(* A tree that is taken apart, with links k, root r and ends e.            *)
(***************************************************************************)
Fields == [Elements \cup {NODE} -> [Sides -> Slots]]

\* The links of the elements, and without what the ends still link to.
Own(k) == [x \in Elements |-> k[x]]
Cut(k, e) ==
  [x \in Elements |-> [t \in Sides |-> IF x = e[Other(t)] THEN NULL ELSE k[x][t]]]

\* What is below the root and at the two sides of the way down.
Around(M, P) == M \cup P["left"] \cup P["right"]

\* The elements P[s] hang at side s, at that side of all of M, and the end is the
\* innermost of them.  It may still link to any element.
HangsAt(k, e, M, P, s) ==
  /\ TreeOf(Cut(k, e), k[NODE][Other(s)], P[s])
  /\ \A y \in P[s], x \in M : On(s, y, x)
  /\ P[s] = {} => e[s] = NODE
  /\ P[s] # {} => e[s] \in P[s] /\ \A y \in P[s] : y # e[s] => On(s, y, e[s])
  /\ e[s] # NODE => k[e[s]][Other(s)] \in Around(M, P) \cup {NULL}

Parted(k, r, e, M, P) ==
  /\ k \in Fields /\ e \in [Sides -> Elements \cup {NODE}]
  /\ P \in [Sides -> SUBSET Elements]
  /\ TreeOf(Own(k), r, M)
  /\ \A s \in Sides : HangsAt(k, e, M, P, s)

\* __node is not an element.
LEMMA NodeIsNone == NODE \notin Elements /\ NODE # NULL /\ NODE \notin Nat
<1>1. NODE \notin Nat
  BY DEF NODE
<1>2. NULL \in Nat
  BY DEF NULL
<1> QED BY <1>1, <1>2, NoNull

\* The types of the links that are looked at.
LEMMA LinkTypes ==
  ASSUME NEW k \in Fields, NEW e
  PROVE  /\ Own(k) \in Links /\ Cut(k, e) \in Links
         /\ \A x \in Elements : Own(k)[x] = k[x]
         /\ \A x \in Elements, t \in Sides : Cut(k, e)[x][t] = IF x = e[Other(t)] THEN NULL ELSE k[x][t]
  BY DEF Own, Cut, Links, Fields, Slots

\* Links are the same when they are at each side.
LEMMA SameLinks ==
  ASSUME NEW k \in Links, NEW m \in Links, NEW x \in Elements,
         \A t \in Sides : k[x][t] = m[x][t]
  PROVE  k[x] = m[x]
<1>1. k[x] \in [Sides -> Slots] /\ m[x] \in [Sides -> Slots]
  BY DEF Links
<1> QED BY <1>1

\* The parts and the tree between them have no element in common.
LEMMA PartsApart ==
  ASSUME NEW k, NEW r, NEW e, NEW M, NEW P, Parted(k, r, e, M, P), NEW s \in Sides
  PROVE  /\ r \in Slots /\ M \subseteq Elements /\ P[s] \subseteq Elements
         /\ r # NULL => r \in M
         /\ r = NULL <=> M = {}
         /\ \A y \in P[s] : y \notin M
         /\ e[s] \in P[s] \cup {NODE} /\ e[s] \notin M
         /\ M # {} => /\ \A y \in P[s], z \in P[Other(s)] : On(s, y, z) /\ y # z
                      /\ e[s] \notin P[Other(s)]
<1>1. Other(s) \in Sides /\ Other(Other(s)) = s
  BY SideFacts
<1>2. /\ r \in Slots /\ M \subseteq Elements /\ (r # NULL => r \in M) /\ (r = NULL <=> M = {})
      /\ M \subseteq Nat
  BY TreeTypes DEF Parted
<1>3. \A t \in Sides : P[t] \subseteq Elements /\ P[t] \subseteq Nat /\ HangsAt(k, e, M, P, t)
  BY NoNull DEF Parted
<1>4. \A y \in P[s], x \in M : On(s, y, x) /\ x # y
  <2>1. \A x \in Nat : ~On(s, x, x)
    BY OnFacts
  <2> QED BY <1>2, <1>3, <2>1 DEF HangsAt
<1>5. e[s] \in P[s] \cup {NODE}
  BY <1>3 DEF HangsAt
<1>6. e[s] \notin M
  BY <1>2, <1>4, <1>5, NodeIsNone
<1>7. ASSUME M # {}, NEW y \in P[s], NEW z \in P[Other(s)] PROVE On(s, y, z) /\ y # z
  <2>1. PICK x \in M : TRUE
    BY <1>7
  <2>2. x \in Nat /\ y \in Nat /\ z \in Nat
    BY <1>1, <1>2, <1>3
  <2>3. On(s, y, x)
    BY <1>4
  <2>4. On(Other(s), z, x)
    BY <1>1, <1>3 DEF HangsAt
  <2>5. On(s, x, z)
    BY <2>2, <2>4, OnFacts
  <2>6. On(s, y, z)
    BY <2>2, <2>3, <2>5, OnTransitive
  <2> QED BY <2>2, <2>6, OnFacts
<1>8. M # {} => e[s] \notin P[Other(s)]
  <2> SUFFICES ASSUME M # {}, e[s] \in P[Other(s)] PROVE FALSE
    OBVIOUS
  <2>1. e[s] \in P[s]
    BY <1>1, <1>3, <1>5, NodeIsNone
  <2> QED BY <1>7, <2>1
<1> QED BY <1>2, <1>3, <1>4, <1>5, <1>6, <1>7, <1>8

\* What is below the root beyond it, at one side and at the other.
Beside(M, r, s) == {y \in M : On(s, y, r)}

\* The root, what is at one side of it and what is at the other are all there is.
Halved(M, r, s) ==
  /\ M = {r} \cup Beside(M, r, s) \cup Beside(M, r, Other(s))
  /\ M \ Beside(M, r, s) = {r} \cup Beside(M, r, Other(s))

\* Every set of elements is halved by each of them.
LEMMA ThreeParts ==
  ASSUME NEW M, M \subseteq Nat, NEW r \in M, NEW s \in Sides
  PROVE  Halved(M, r, s)
<1>1. \A y \in M : y = r \/ On(s, y, r) \/ On(Other(s), y, r)
  <2> SUFFICES ASSUME NEW y \in M, y # r PROVE On(s, y, r) \/ On(Other(s), y, r)
    OBVIOUS
  <2>1. y \in Nat /\ r \in Nat
    OBVIOUS
  <2> QED BY <2>1 DEF On, Sides, Other
<1>2. ~On(s, r, r) /\ \A y \in M : ~(On(s, y, r) /\ On(Other(s), y, r))
  <2>1. \A y \in M : y \in Nat /\ r \in Nat
    OBVIOUS
  <2> QED BY <2>1 DEF On, Sides, Other
<1> QED BY <1>1, <1>2 DEF Beside, Halved

\* What is beside a root hangs at its side.
LEMMA SideTree ==
  ASSUME NEW k \in Fields, NEW r, NEW M, TreeOf(Own(k), r, M), r # NULL, NEW s \in Sides
  PROVE  TreeOf(Own(k), k[r][s], Beside(M, r, s))
<1>1. TreeOf(Own(k), Own(k)[r][s], {y \in M : On(s, y, r)})
  BY KidTree
<1>2. r \in Elements
  BY TreeTypes
<1>3. Own(k)[r] = k[r]
  BY <1>2, LinkTypes
<1> QED BY <1>1, <1>3 DEF Beside

-----------------------------------------------------------------------------
(***************************************************************************)
(* SPLAY_LINKLEFT and SPLAY_LINKRIGHT, for the way to side s.              *)
(***************************************************************************)
\* The root and all that is beyond it go to the part at the other side.
Joined(P, M, r, s) == [P EXCEPT ![Other(s)] = P[Other(s)] \cup (M \ Beside(M, r, s))]

Linked(k, e, r, s, m, f) ==
  /\ m = [k EXCEPT ![e[Other(s)]][s] = r]
  /\ f = [e EXCEPT ![Other(s)] = r]

\* The links and the ends after the link.
LEMMA LinkedFields ==
  ASSUME NEW k \in Fields, NEW e \in [Sides -> Elements \cup {NODE}], NEW r \in Elements, NEW s \in Sides,
         NEW m, NEW f, Linked(k, e, r, s, m, f)
  PROVE  /\ m \in Fields /\ f \in [Sides -> Elements \cup {NODE}]
         /\ m[e[Other(s)]][s] = r /\ f[Other(s)] = r /\ f[s] = e[s]
         /\ \A x \in Elements \cup {NODE}, t \in Sides : ~(x = e[Other(s)] /\ t = s) => m[x][t] = k[x][t]
<1>1. Other(s) \in Sides /\ Other(s) # s
  BY SideFacts
<1>2. f \in [Sides -> Elements \cup {NODE}] /\ f[Other(s)] = r /\ f[s] = e[s]
  BY <1>1 DEF Linked
<1>3. e[Other(s)] \in Elements \cup {NODE}
  BY <1>1
<1> QED BY <1>2, <1>3 DEF Linked, Fields, Slots

\* What hangs at the side of the way is not touched.
LEMMA LinkedHere ==
  ASSUME NEW k, NEW r, NEW e, NEW M, NEW P, Parted(k, r, e, M, P), r # NULL, NEW s \in Sides,
         NEW m, NEW f, Linked(k, e, r, s, m, f)
  PROVE  HangsAt(m, f, Beside(M, r, s), Joined(P, M, r, s), s)
<1> DEFINE o == Other(s)
<1> DEFINE Q == Joined(P, M, r, s)
<1>1. o \in Sides /\ o # s /\ Other(o) = s /\ \A t \in Sides : t = s \/ t = o
  BY SideFacts
<1>2. k \in Fields /\ e \in [Sides -> Elements \cup {NODE}] /\ P \in [Sides -> SUBSET Elements]
      /\ HangsAt(k, e, M, P, s)
  BY DEF Parted
<1>3. r \in M /\ r \in Elements /\ M \subseteq Elements /\ P[s] \subseteq Elements /\ M # {}
  BY PartsApart, TreeTypes DEF Parted
<1>4. r \notin P[s] /\ e[o] \notin P[s]
  <2>1. r \notin P[s]
    BY <1>3, PartsApart
  <2>2. e[o] \notin P[Other(o)]
    BY <1>1, <1>3, PartsApart
  <2> QED BY <1>1, <2>1, <2>2
<1>5. /\ m \in Fields /\ f \in [Sides -> Elements \cup {NODE}] /\ f[o] = r /\ f[s] = e[s]
      /\ \A x \in Elements \cup {NODE}, t \in Sides : ~(x = e[o] /\ t = s) => m[x][t] = k[x][t]
  BY <1>2, <1>3, LinkedFields
<1>6. Q[s] = P[s] /\ Q[o] = P[o] \cup (M \ Beside(M, r, s)) /\ Beside(M, r, s) \subseteq M
  BY <1>1, <1>2 DEF Joined, Beside
<1> HIDE DEF o, Q
<1>7. Around(Beside(M, r, s), Q) = Around(M, P)
  <2>1. Around(Beside(M, r, s), Q) = Beside(M, r, s) \cup Q[s] \cup Q[o]
    BY <1>1 DEF Around, Sides
  <2>2. Around(M, P) = M \cup P[s] \cup P[o]
    BY <1>1 DEF Around, Sides
  <2> QED BY <1>6, <2>1, <2>2
<1>8. TreeOf(Cut(m, f), m[NODE][o], P[s])
  <2>1. m[NODE][o] = k[NODE][o]
    BY <1>1, <1>5
  <2>2. Cut(m, f) \in Links /\ Cut(k, e) \in Links
    BY <1>2, <1>5, LinkTypes
  <2>3. ASSUME NEW x \in P[s], NEW t \in Sides PROVE Cut(m, f)[x][t] = Cut(k, e)[x][t]
    <3>1. x \in Elements /\ x # r /\ x # e[o] /\ m[x][t] = k[x][t]
      BY <1>3, <1>4, <1>5
    <3>2. Cut(m, f)[x][t] = (IF x = f[Other(t)] THEN NULL ELSE m[x][t])
          /\ Cut(k, e)[x][t] = (IF x = e[Other(t)] THEN NULL ELSE k[x][t])
      BY <1>2, <1>5, <3>1, LinkTypes
    <3>3. Other(t) = s \/ Other(t) = o
      BY <1>1, SideFacts
    <3> QED BY <1>5, <3>1, <3>2, <3>3
  <2>4. \A x \in P[s] : Cut(m, f)[x] = Cut(k, e)[x]
    BY <1>3, <2>2, <2>3, SameLinks
  <2>5. TreeOf(Cut(k, e), k[NODE][o], P[s])
    BY <1>2 DEF HangsAt, o
  <2> QED BY <2>1, <2>2, <2>4, <2>5, FrameTree
<1>9. \A y \in P[s], x \in Beside(M, r, s) : On(s, y, x)
  BY <1>2, <1>6 DEF HangsAt
<1>10. f[s] # NODE => m[f[s]][o] \in Around(M, P) \cup {NULL}
  <2> SUFFICES ASSUME e[s] # NODE PROVE m[e[s]][o] \in Around(M, P) \cup {NULL}
    BY <1>5
  <2>1. k[e[s]][o] \in Around(M, P) \cup {NULL}
    BY <1>2 DEF HangsAt, o
  <2>2. m[e[s]][o] = k[e[s]][o]
    BY <1>1, <1>2, <1>5
  <2> QED BY <2>1, <2>2
<1>11. /\ P[s] = {} => f[s] = NODE
       /\ P[s] # {} => f[s] \in P[s] /\ \A y \in P[s] : y # f[s] => On(s, y, f[s])
  BY <1>2, <1>5 DEF HangsAt
<1> QED
  <2>1. /\ TreeOf(Cut(m, f), m[NODE][Other(s)], Q[s])
        /\ f[s] # NODE => m[f[s]][Other(s)] \in Around(Beside(M, r, s), Q) \cup {NULL}
        /\ \A y \in Q[s], x \in Beside(M, r, s) : On(s, y, x)
    BY <1>6, <1>7, <1>8, <1>9, <1>10 DEF o
  <2>2. /\ Q[s] = {} => f[s] = NODE
        /\ Q[s] # {} => f[s] \in Q[s] /\ \A y \in Q[s] : y # f[s] => On(s, y, f[s])
    BY <1>6, <1>11
  <2>3. HangsAt(m, f, Beside(M, r, s), Q, s)
    BY <2>1, <2>2 DEF HangsAt
  <2> QED BY <2>3 DEF Q

\* The root and what is beyond it make a tree, whose link to the rest is cut.
LEMMA LinkedTop ==
  ASSUME NEW k, NEW r, NEW e, NEW M, NEW P, Parted(k, r, e, M, P), r # NULL, NEW s \in Sides,
         NEW n \in Links, n[r][s] = NULL, n[r][Other(s)] = k[r][Other(s)],
         \A x \in M : x # r => n[x] = k[x]
  PROVE  TreeOf(n, r, M \ Beside(M, r, s))
<1>1. Other(s) \in Sides /\ Other(s) # s /\ Other(Other(s)) = s
  BY SideFacts
<1>2. r \in M /\ r \in Elements /\ M \subseteq Elements /\ M \subseteq Nat /\ k \in Fields /\ TreeOf(Own(k), r, M)
  BY PartsApart, TreeTypes DEF Parted
<1>3. M \ Beside(M, r, s) = {r} \cup Beside(M, r, Other(s))
  <2>1. M \subseteq Nat /\ r \in M
    BY <1>2
  <2>2. Halved(M, r, s)
    BY <2>1, ThreeParts
  <2> QED BY <2>2 DEF Halved
<1>4. TreeOf(n, n[r][s], {})
  BY EmptyTree
<1>5. TreeOf(Own(k), k[r][Other(s)], Beside(M, r, Other(s)))
  BY <1>1, <1>2, SideTree
<1>6. TreeOf(n, n[r][Other(s)], Beside(M, r, Other(s)))
  <2>1. \A x \in Beside(M, r, Other(s)) : x \in M /\ x # r
    <3>1. ~On(Other(s), r, r)
      BY <1>1, <1>2, OnFacts
    <3> QED BY <3>1 DEF Beside
  <2>2. \A x \in Beside(M, r, Other(s)) : n[x] = Own(k)[x]
    <3>1. \A x \in Elements : Own(k)[x] = k[x]
      BY <1>2, LinkTypes
    <3>2. \A x \in Beside(M, r, Other(s)) : x \in Elements /\ n[x] = k[x]
      BY <1>2, <2>1
    <3> QED BY <3>1, <3>2
  <2> QED BY <1>5, <2>2, FrameTree
<1>7. \A y \in Beside(M, r, Other(s)) : On(Other(s), y, r)
  BY DEF Beside
<1>8. TreeOf(n, r, {r} \cup {} \cup Beside(M, r, Other(s)))
  <2>1. \A y \in {} : On(s, y, r)
    OBVIOUS
  <2> HIDE DEF Beside
  <2> QED BY <1>2, <1>4, <1>6, <1>7, <2>1, JoinAt
<1>9. {r} \cup {} \cup Beside(M, r, Other(s)) = {r} \cup Beside(M, r, Other(s))
  OBVIOUS
<1> QED BY <1>3, <1>8, <1>9

\* The root hangs under the end of the part at the other side.
LEMMA LinkedThere ==
  ASSUME NEW k, NEW r, NEW e, NEW M, NEW P, Parted(k, r, e, M, P), r # NULL, NEW s \in Sides,
         k[r][s] # NULL, NEW m, NEW f, Linked(k, e, r, s, m, f)
  PROVE  HangsAt(m, f, Beside(M, r, s), Joined(P, M, r, s), Other(s))
<1> DEFINE o == Other(s)
<1> DEFINE R == M \ Beside(M, r, s)
<1> DEFINE Q == Joined(P, M, r, s)
<1>1. o \in Sides /\ o # s /\ Other(o) = s /\ \A t \in Sides : t = s \/ t = o
  BY SideFacts
<1>2. k \in Fields /\ e \in [Sides -> Elements \cup {NODE}] /\ P \in [Sides -> SUBSET Elements]
      /\ HangsAt(k, e, M, P, o) /\ TreeOf(Own(k), r, M)
  BY <1>1 DEF Parted
<1>3. /\ r \in M /\ r \in Elements /\ r \in Nat /\ M \subseteq Elements /\ M \subseteq Nat /\ P[o] \subseteq Elements
      /\ M # {} /\ P[o] \subseteq Nat /\ Elements \subseteq Nat
  <2>1. r \in M /\ P[o] \subseteq Elements
    BY <1>1, PartsApart
  <2>2. r \in Elements /\ M \subseteq Elements
    BY <1>2, <2>1, TreeTypes
  <2> QED BY <2>1, <2>2, NoNull
<1>4. \A x \in P[o] : x # r /\ x \notin M /\ x # e[s]
  <2>1. \A x \in P[o] : x \notin M
    BY <1>1, PartsApart
  <2>2. e[s] \notin P[o]
    BY <1>3, PartsApart
  <2> QED BY <1>3, <2>1, <2>2
<1>5. e[o] \in P[o] \cup {NODE} /\ e[o] \notin M /\ e[s] \notin M
  BY <1>1, PartsApart
<1>6. /\ m \in Fields /\ f \in [Sides -> Elements \cup {NODE}] /\ f[o] = r /\ f[s] = e[s]
      /\ m[e[o]][s] = r
      /\ \A x \in Elements \cup {NODE}, t \in Sides : ~(x = e[o] /\ t = s) => m[x][t] = k[x][t]
  BY <1>2, <1>3, LinkedFields
<1>7. Q[o] = P[o] \cup R /\ Q[s] = P[s]
  BY <1>1, <1>2 DEF Joined
<1> DEFINE n == Cut(m, f)
<1>8. n \in Links
      /\ \A x \in Elements, t \in Sides : n[x][t] = IF x = f[Other(t)] THEN NULL ELSE m[x][t]
  BY <1>6, LinkTypes
<1>9. R \subseteq M /\ r \in R /\ \A y \in R : y # r => On(o, y, r)
  <2>1. R = {r} \cup Beside(M, r, o)
    <3>1. M \subseteq Nat /\ r \in M
      BY <1>3
    <3>2. Halved(M, r, s)
      BY <3>1, ThreeParts
    <3> QED BY <3>2 DEF Halved
  <2> QED BY <1>3, <2>1 DEF Beside
<1> HIDE DEF o, R, Q, n
\* The links of the tree that comes to the part.
<1>10. n[r][s] = NULL /\ n[r][o] = k[r][o] /\ \A x \in M : x # r => n[x] = k[x]
  <2>1. n[r][s] = NULL
    BY <1>3, <1>6, <1>8 DEF o
  <2>2. n[r][o] = m[r][o] /\ m[r][o] = k[r][o]
    BY <1>1, <1>3, <1>5, <1>6, <1>8
  <2>3. ASSUME NEW x \in M, x # r, NEW t \in Sides PROVE n[x][t] = k[x][t]
    <3>1. Other(t) = s \/ Other(t) = o
      BY <1>1, SideFacts
    <3> QED BY <1>3, <1>5, <1>6, <1>8, <2>3, <3>1
  <2>4. ASSUME NEW x \in M, x # r PROVE n[x] = k[x]
    <3>1. \A t \in Sides : n[x][t] = Own(k)[x][t] /\ x \in Elements
      BY <1>2, <1>3, <2>3, <2>4, LinkTypes
    <3>2. Own(k) \in Links /\ Own(k)[x] = k[x]
      BY <1>2, <1>3, <2>4, LinkTypes
    <3> QED BY <1>8, <3>1, <3>2, SameLinks
  <2> QED BY <2>1, <2>2, <2>4
<1>11. TreeOf(n, r, R)
  BY <1>8, <1>10, LinkedTop DEF o, R
\* The part that it comes to.
<1>12. ASSUME NEW x \in P[o], NEW t \in Sides
       PROVE  n[x][t] = (IF x = e[o] /\ t = s THEN r ELSE Cut(k, e)[x][t])
  <2>1. n[x][t] = m[x][t]
    <3>1. Other(t) = s \/ Other(t) = o
      BY <1>1, SideFacts
    <3> QED BY <1>3, <1>4, <1>6, <1>8, <3>1
  <2>2. Cut(k, e)[x][t] = IF x = e[Other(t)] THEN NULL ELSE k[x][t]
    BY <1>2, <1>3, LinkTypes
  <2>3. CASE t = s
    <3>1. Other(t) = o
      BY <2>3 DEF o
    <3> QED BY <1>3, <1>6, <2>1, <2>2, <2>3, <3>1
  <2>4. CASE t = o
    <3>1. Other(t) = s
      BY <1>1, <2>4
    <3> QED BY <1>1, <1>3, <1>4, <1>6, <2>1, <2>2, <2>4, <3>1
  <2> QED BY <1>1, <2>3, <2>4
<1>13. TreeOf(n, m[NODE][s], P[o] \cup R)
  <2>1. CASE P[o] = {}
    <3>1. e[o] = NODE
      BY <1>2, <2>1 DEF HangsAt
    <3>2. m[NODE][s] = r /\ P[o] \cup R = R
      BY <1>6, <2>1, <3>1
    <3> QED BY <1>11, <3>2
  <2>2. CASE P[o] # {}
    <3> DEFINE k0 == [n EXCEPT ![e[o]][s] = NULL]
    <3>1. e[o] \in P[o] /\ e[o] \in Elements /\ e[o] # NODE
          /\ \A y \in P[o] : y # e[o] => On(o, y, e[o])
      BY <1>2, <1>3, <2>2, NodeIsNone DEF HangsAt
    <3>2. /\ k0 \in Links
          /\ \A x \in Elements, t \in Sides : k0[x][t] = IF x = e[o] /\ t = s THEN NULL ELSE n[x][t]
      BY <1>8, <3>1 DEF Links, Slots
    <3>3. n = [k0 EXCEPT ![e[o]][s] = r]
      <4>1. n[e[o]][s] = r
        BY <1>12, <3>1
      <4> QED BY <1>8, <3>1, <4>1 DEF Links
    <3> HIDE DEF k0
    <3>4. \A x \in P[o] : k0[x] = Cut(k, e)[x]
      <4>1. \A x \in P[o], t \in Sides : k0[x][t] = Cut(k, e)[x][t]
        <5> SUFFICES ASSUME NEW x \in P[o], NEW t \in Sides PROVE k0[x][t] = Cut(k, e)[x][t]
          OBVIOUS
        <5>1. k0[x][t] = IF x = e[o] /\ t = s THEN NULL ELSE Cut(k, e)[x][t]
          BY <1>3, <1>12, <3>2
        <5>2. Cut(k, e)[x][t] = IF x = e[Other(t)] THEN NULL ELSE k[x][t]
          BY <1>2, <1>3, LinkTypes
        <5> QED BY <5>1, <5>2 DEF o
      <4>2. Cut(k, e) \in Links
        BY <1>2, LinkTypes
      <4> QED BY <1>3, <3>2, <4>1, <4>2, SameLinks
    <3>5. TreeOf(k0, k[NODE][s], P[o])
      <4>1. TreeOf(Cut(k, e), k[NODE][s], P[o])
        BY <1>1, <1>2 DEF HangsAt
      <4> QED BY <3>2, <3>4, <4>1, FrameTree
    <3>6. TreeOf(k0, r, R)
      <4>1. \A x \in R : k0[x] = n[x]
        <5>1. \A x \in R, t \in Sides : k0[x][t] = n[x][t] /\ x \in Elements
          BY <1>3, <1>5, <1>9, <3>2
        <5> QED BY <1>8, <3>2, <5>1, SameLinks
      <4> QED BY <1>11, <3>2, <4>1, FrameTree
    <3>7. \A y \in R : On(s, y, e[o])
      <4>1. \A x \in M : On(o, e[o], x)
        BY <1>2, <3>1 DEF HangsAt
      <4>2. e[o] \in Nat /\ \A x \in M : x \in Nat
        BY <1>3, <3>1
      <4> QED BY <1>9, <4>1, <4>2, OnFacts DEF o
    <3>8. k[NODE][s] = m[NODE][s]
      BY <1>6, <3>1
    <3>9. \A y \in P[o] : y # e[o] => On(Other(s), y, e[o])
      BY <3>1 DEF o
    <3>10. TreeOf(n, k[NODE][s], P[o] \cup R)
      BY <3>1, <3>3, <3>5, <3>6, <3>7, <3>9, AttachTree
    <3> QED BY <3>8, <3>10
  <2> QED BY <2>1, <2>2
\* The order, and the end.
<1>14. \A y \in P[o] \cup R, x \in Beside(M, r, s) : On(o, y, x)
  <2> SUFFICES ASSUME NEW y \in P[o] \cup R, NEW x \in Beside(M, r, s) PROVE On(o, y, x)
    OBVIOUS
  <2>1. x \in M /\ On(s, x, r) /\ x \in Nat
    BY <1>3 DEF Beside
  <2>2. CASE y \in P[o]
    BY <1>2, <2>1, <2>2 DEF HangsAt
  <2>3. CASE y \in R
    <3>1. On(o, r, x)
      BY <1>3, <2>1, OnFacts DEF o
    <3>2. y = r \/ On(o, y, r)
      BY <1>9, <2>3
    <3>3. y \in Nat
      BY <1>3, <1>9, <2>3
    <3> QED BY <1>1, <1>3, <2>1, <3>1, <3>2, <3>3, OnTransitive
  <2> QED BY <2>2, <2>3
<1>15. \A y \in P[o] \cup R : y # r => On(o, y, r)
  BY <1>2, <1>3, <1>9 DEF HangsAt
<1>16. m[r][s] \in Around(Beside(M, r, s), Q)
  <2>1. m[r][s] = k[r][s]
    BY <1>3, <1>5, <1>6
  <2>2. k[r][s] \in Beside(M, r, s)
    <3>1. Own(k)[r][s] \in M \cup {NULL} /\ (Own(k)[r][s] # NULL => On(s, Own(k)[r][s], r))
      BY <1>2, <1>3, KidsInTree
    <3>2. Own(k)[r] = k[r]
      BY <1>2, <1>3, LinkTypes
    <3> QED BY <3>1, <3>2 DEF Beside
  <2> QED BY <2>1, <2>2 DEF Around
<1> QED
  <2>1. /\ TreeOf(Cut(m, f), m[NODE][Other(o)], Q[o])
        /\ f[o] # NODE => m[f[o]][Other(o)] \in Around(Beside(M, r, s), Q) \cup {NULL}
        /\ \A y \in Q[o], x \in Beside(M, r, s) : On(o, y, x)
    BY <1>1, <1>6, <1>7, <1>13, <1>14, <1>16 DEF n
  <2>2. /\ Q[o] = {} => f[o] = NODE
        /\ Q[o] # {} => f[o] \in Q[o] /\ \A y \in Q[o] : y # f[o] => On(o, y, f[o])
    BY <1>6, <1>7, <1>9, <1>15
  <2>3. HangsAt(m, f, Beside(M, r, s), Q, o)
    BY <2>1, <2>2 DEF HangsAt
  <2> QED BY <2>3 DEF Q, o

\* One step down keeps the parts apart; what is in them stays.
LEMMA LinkedParts ==
  ASSUME NEW k, NEW r, NEW e, NEW M, NEW P, Parted(k, r, e, M, P), r # NULL, NEW s \in Sides,
         k[r][s] # NULL, NEW m, NEW f, Linked(k, e, r, s, m, f)
  PROVE  /\ Parted(m, k[r][s], f, Beside(M, r, s), Joined(P, M, r, s))
         /\ Around(Beside(M, r, s), Joined(P, M, r, s)) = Around(M, P)
         /\ \A x \in Elements : x \notin Around(M, P) => m[x] = k[x]
<1> DEFINE o == Other(s)
<1> DEFINE Q == Joined(P, M, r, s)
<1>1. o \in Sides /\ o # s /\ Other(o) = s /\ \A t \in Sides : t = s \/ t = o
  BY SideFacts
<1>2. k \in Fields /\ e \in [Sides -> Elements \cup {NODE}] /\ P \in [Sides -> SUBSET Elements]
      /\ TreeOf(Own(k), r, M)
  BY DEF Parted
<1>3. r \in M /\ r \in Elements /\ M \subseteq Elements
  BY PartsApart, TreeTypes DEF Parted
<1>4. e[o] \in P[o] \cup {NODE} /\ e[o] \notin M
  BY <1>1, PartsApart
<1>5. /\ m \in Fields /\ f \in [Sides -> Elements \cup {NODE}]
      /\ \A x \in Elements \cup {NODE}, t \in Sides : ~(x = e[o] /\ t = s) => m[x][t] = k[x][t]
  BY <1>2, <1>3, LinkedFields
<1>6. Q \in [Sides -> SUBSET Elements] /\ Q[s] = P[s] /\ Q[o] = P[o] \cup (M \ Beside(M, r, s))
  BY <1>1, <1>2, <1>3 DEF Joined
<1>7. ASSUME NEW x \in Elements, x # e[o] PROVE m[x] = k[x]
  <2>1. \A t \in Sides : Own(m)[x][t] = Own(k)[x][t]
    <3>1. \A t \in Sides : m[x][t] = k[x][t]
      BY <1>5, <1>7
    <3>2. Own(m)[x] = m[x] /\ Own(k)[x] = k[x]
      BY <1>2, <1>5, LinkTypes
    <3> QED BY <3>1, <3>2
  <2>2. Own(m)[x] = Own(k)[x]
    <3>1. Own(m) \in Links /\ Own(k) \in Links
      BY <1>2, <1>5, LinkTypes
    <3> QED BY <2>1, <3>1, SameLinks
  <2> QED BY <1>2, <1>5, <2>2, LinkTypes
<1>8. TreeOf(Own(m), k[r][s], Beside(M, r, s))
  <2>1. TreeOf(Own(k), Own(k)[r][s], {y \in M : On(s, y, r)})
    BY <1>2, <1>3, KidTree
  <2>2. Own(k)[r][s] = k[r][s]
    BY <1>2, <1>3, LinkTypes
  <2>3. \A x \in {y \in M : On(s, y, r)} : Own(m)[x] = Own(k)[x]
    BY <1>2, <1>3, <1>4, <1>5, <1>7, LinkTypes
  <2>4. Own(m) \in Links
    BY <1>5, LinkTypes
  <2>5. TreeOf(Own(m), Own(k)[r][s], {y \in M : On(s, y, r)})
    BY <2>1, <2>3, <2>4, FrameTree
  <2> QED BY <2>2, <2>5 DEF Beside
<1>9. \A t \in Sides : HangsAt(m, f, Beside(M, r, s), Q, t)
  <2>1. HangsAt(m, f, Beside(M, r, s), Q, s)
    BY LinkedHere
  <2>2. HangsAt(m, f, Beside(M, r, s), Q, o)
    BY LinkedThere
  <2> HIDE DEF Q, o
  <2> QED BY <1>1, <2>1, <2>2
<1>10. Around(Beside(M, r, s), Q) = Around(M, P)
  <2>1. Around(Beside(M, r, s), Q) = Beside(M, r, s) \cup Q[s] \cup Q[o]
    BY <1>1 DEF Around, Sides
  <2>2. Around(M, P) = M \cup P[s] \cup P[o]
    BY <1>1 DEF Around, Sides
  <2>3. Beside(M, r, s) \subseteq M
    BY DEF Beside
  <2> HIDE DEF Q, o
  <2> QED BY <1>6, <2>1, <2>2, <2>3
<1>11. \A x \in Elements : x \notin Around(M, P) => m[x] = k[x]
  <2>1. P[o] \subseteq Around(M, P)
    BY <1>1 DEF Around, Sides
  <2> QED BY <1>4, <1>7, <2>1, NodeIsNone
<1> HIDE DEF Q
<1>12. Parted(m, k[r][s], f, Beside(M, r, s), Q)
  BY <1>5, <1>6, <1>8, <1>9 DEF Parted
<1> QED BY <1>10, <1>11, <1>12 DEF Q

-----------------------------------------------------------------------------
(***************************************************************************)
(* SPLAY_ROTATE_LEFT and SPLAY_ROTATE_RIGHT, with the child at side s.     *)
(***************************************************************************)
Turned(k, r, s, m) ==
  m = [k EXCEPT ![r][s] = k[k[r][s]][Other(s)], ![k[r][s]][Other(s)] = r]

\* The links after the rotation.
LEMMA TurnedFields ==
  ASSUME NEW k \in Fields, NEW r \in Elements, NEW s \in Sides, NEW c \in Elements,
         c = k[r][s], c # r, NEW m, Turned(k, r, s, m)
  PROVE  /\ m \in Fields
         /\ m[r][s] = k[c][Other(s)] /\ m[c][Other(s)] = r
         /\ m[r][Other(s)] = k[r][Other(s)] /\ m[c][s] = k[c][s]
         /\ \A x \in Elements \cup {NODE} : x # r /\ x # c => m[x] = k[x]
<1>1. Other(s) \in Sides /\ Other(s) # s
  BY SideFacts
<1> DEFINE n == [k EXCEPT ![r][s] = k[c][Other(s)]]
<1>2. /\ n \in Fields /\ n[r][s] = k[c][Other(s)] /\ n[r][Other(s)] = k[r][Other(s)]
      /\ \A x \in Elements \cup {NODE} : x # r => n[x] = k[x]
  BY <1>1 DEF Fields, Slots
<1>3. m = [n EXCEPT ![c][Other(s)] = r]
  BY DEF Turned
<1> HIDE DEF n
<1>4. /\ m \in Fields /\ m[c][Other(s)] = r /\ m[c][s] = n[c][s]
      /\ \A x \in Elements \cup {NODE} : x # c => m[x] = n[x]
  BY <1>1, <1>2, <1>3 DEF Fields, Slots
<1> QED BY <1>1, <1>2, <1>4

\* A rotation keeps the parts apart.
LEMMA TurnedParts ==
  ASSUME NEW k, NEW r, NEW e, NEW M, NEW P, Parted(k, r, e, M, P), r # NULL, NEW s \in Sides,
         k[r][s] # NULL, NEW m, Turned(k, r, s, m)
  PROVE  /\ Parted(m, k[r][s], e, M, P)
         /\ \A x \in Elements : x \notin M => m[x] = k[x]
<1> DEFINE o == Other(s)
<1>1. o \in Sides /\ o # s /\ Other(o) = s /\ \A t \in Sides : t = s \/ t = o
  BY SideFacts
<1>2. k \in Fields /\ e \in [Sides -> Elements \cup {NODE}] /\ P \in [Sides -> SUBSET Elements]
      /\ TreeOf(Own(k), r, M) /\ \A t \in Sides : HangsAt(k, e, M, P, t)
  BY DEF Parted
<1>3. M \subseteq Elements /\ M \subseteq Nat /\ r \in M /\ r \in Elements
  BY <1>2, TreeTypes
<1>4. PICK c : c = k[r][s]
  OBVIOUS
<1>5. c \in M /\ On(s, c, r) /\ c \in Elements /\ c # r /\ c # NULL
  <2>1. Own(k)[r][s] \in M \cup {NULL} /\ (Own(k)[r][s] # NULL => On(s, Own(k)[r][s], r))
    BY <1>2, <1>3, KidsInTree
  <2>2. c \in M /\ On(s, c, r)
    BY <1>2, <1>3, <1>4, <2>1, LinkTypes
  <2> QED BY <1>3, <1>4, <2>2, OnFacts
<1>6. /\ m \in Fields
      /\ m[r][s] = k[c][o] /\ m[c][o] = r
      /\ m[r][o] = k[r][o] /\ m[c][s] = k[c][s]
      /\ \A x \in Elements \cup {NODE} : x # r /\ x # c => m[x] = k[x]
  BY <1>2, <1>3, <1>4, <1>5, TurnedFields
<1> HIDE DEF o
\* The three trees below the two elements.
<1> DEFINE A == Beside(M, r, o)
<1> DEFINE C == Beside(M, r, s)
<1> DEFINE B == Beside(C, c, o)
<1> DEFINE F == Beside(C, c, s)
<1>7. TreeOf(Own(k), k[r][o], A)
  <2> HIDE DEF A
  <2>1. TreeOf(Own(k), k[r][o], Beside(M, r, o))
    BY <1>1, <1>2, <1>3, SideTree
  <2> QED BY <2>1 DEF A
<1>8. TreeOf(Own(k), c, C)
  <2> HIDE DEF C
  <2>1. TreeOf(Own(k), k[r][s], Beside(M, r, s))
    BY <1>2, <1>3, SideTree
  <2> QED BY <1>4, <2>1 DEF C
<1>9. C \subseteq M /\ c \in C /\ A \subseteq M /\ r \notin A /\ r \notin C
  BY <1>1, <1>3, <1>5, OnFacts DEF Beside
<1>10. TreeOf(Own(k), k[c][o], B) /\ TreeOf(Own(k), k[c][s], F)
  <2> HIDE DEF C
  <2>1. \A t \in Sides : TreeOf(Own(k), k[c][t], Beside(C, c, t))
    BY <1>2, <1>5, <1>8, SideTree
  <2> QED BY <1>1, <2>1
<1>11. B \subseteq C /\ F \subseteq C /\ c \notin B /\ c \notin F /\ c \notin A
  BY <1>1, <1>3, <1>5, <1>9, OnFacts DEF Beside, o
<1>12. M = {r} \cup C \cup A
  <2>1. Halved(M, r, s)
    BY <1>3, ThreeParts
  <2> QED BY <2>1 DEF Halved, o
<1>13. C = {c} \cup F \cup B
  <2>1. Halved(C, c, s)
    BY <1>3, <1>9, ThreeParts
  <2> QED BY <2>1 DEF Halved, o
<1>14. /\ \A y \in A : On(o, y, r)
       /\ \A y \in B : On(s, y, r) /\ On(o, y, c)
       /\ \A y \in F : On(s, y, c)
  BY DEF Beside
<1> HIDE DEF A, B, C, F
<1>15. Own(m) \in Links /\ \A x \in Elements : Own(m)[x] = m[x] /\ Own(k)[x] = k[x]
  BY <1>2, <1>6, LinkTypes
<1>16. TreeOf(Own(m), k[r][o], A) /\ TreeOf(Own(m), k[c][o], B) /\ TreeOf(Own(m), k[c][s], F)
  <2>1. \A x \in A \cup B \cup F : Own(m)[x] = Own(k)[x]
    <3>1. \A x \in A \cup B \cup F : x \in Elements /\ x # r /\ x # c
      BY <1>3, <1>9, <1>11
    <3> QED BY <1>6, <1>15, <3>1
  <2>2. TreeOf(Own(m), k[r][o], A)
    BY <1>7, <1>15, <2>1, FrameTree
  <2>3. TreeOf(Own(m), k[c][o], B)
    BY <1>10, <1>15, <2>1, FrameTree
  <2>4. TreeOf(Own(m), k[c][s], F)
    BY <1>10, <1>15, <2>1, FrameTree
  <2> QED BY <2>2, <2>3, <2>4
\* They are put together again.
<1>17. TreeOf(Own(m), r, {r} \cup B \cup A)
  <2>1. TreeOf(Own(m), Own(m)[r][s], B) /\ TreeOf(Own(m), Own(m)[r][Other(s)], A)
    BY <1>3, <1>6, <1>15, <1>16 DEF o
  <2>2. \A y \in A : On(Other(s), y, r)
    BY <1>14 DEF o
  <2> QED BY <1>3, <1>14, <2>1, <2>2, JoinAt
<1>18. TreeOf(Own(m), c, {c} \cup F \cup ({r} \cup B \cup A))
  <2>1. TreeOf(Own(m), Own(m)[c][s], F) /\ TreeOf(Own(m), Own(m)[c][Other(s)], {r} \cup B \cup A)
    BY <1>5, <1>6, <1>15, <1>16, <1>17 DEF o
  <2>2. On(o, r, c)
    BY <1>3, <1>5, OnFacts DEF o
  <2>3. \A y \in A : On(o, y, c)
    <3> SUFFICES ASSUME NEW y \in A PROVE On(o, y, c)
      OBVIOUS
    <3>1. On(o, y, r) /\ y \in Nat /\ r \in Nat /\ c \in Nat
      BY <1>3, <1>5, <1>9, <1>14
    <3> QED BY <1>1, <2>2, <3>1, OnTransitive
  <2>4. \A y \in {r} \cup B \cup A : On(Other(s), y, c)
    BY <1>14, <2>2, <2>3 DEF o
  <2> QED BY <1>5, <1>14, <2>1, <2>4, JoinAt
<1>19. {c} \cup F \cup ({r} \cup B \cup A) = M
  BY <1>12, <1>13
\* What hangs at the sides is not touched.
<1>20. ASSUME NEW t \in Sides PROVE HangsAt(m, e, M, P, t)
  <2>1. HangsAt(k, e, M, P, t)
    BY <1>2
  <2>2. P[t] \subseteq Elements /\ (\A y \in P[t] : y \notin M) /\ e[t] \notin M /\ e[t] \in Elements \cup {NODE}
    BY <1>2, PartsApart
  <2>3. Cut(m, e) \in Links /\ \A x \in P[t] : Cut(m, e)[x] = Cut(k, e)[x]
    <3>1. Cut(m, e) \in Links /\ Cut(k, e) \in Links
      BY <1>2, <1>6, LinkTypes
    <3>2. ASSUME NEW x \in P[t], NEW u \in Sides PROVE Cut(m, e)[x][u] = Cut(k, e)[x][u]
      <4>1. x \in Elements /\ m[x] = k[x]
        BY <1>3, <1>5, <1>6, <2>2
      <4>2. Cut(m, e)[x][u] = IF x = e[Other(u)] THEN NULL ELSE m[x][u]
        BY <1>6, <4>1, LinkTypes
      <4>3. Cut(k, e)[x][u] = IF x = e[Other(u)] THEN NULL ELSE k[x][u]
        BY <1>2, <4>1, LinkTypes
      <4> QED BY <4>1, <4>2, <4>3
    <3> QED BY <2>2, <3>1, <3>2, SameLinks
  <2>4. m[NODE] = k[NODE]
    BY <1>3, <1>5, <1>6, NodeIsNone
  <2>5. TreeOf(Cut(m, e), m[NODE][Other(t)], P[t])
    <3>1. TreeOf(Cut(k, e), k[NODE][Other(t)], P[t])
      BY <2>1 DEF HangsAt
    <3> QED BY <2>3, <2>4, <3>1, FrameTree
  <2>6. m[e[t]] = k[e[t]]
    BY <1>3, <1>5, <1>6, <2>2
  <2> QED BY <2>1, <2>5, <2>6 DEF HangsAt
<1>21. Parted(m, c, e, M, P)
  <2>1. TreeOf(Own(m), c, M)
    BY <1>18, <1>19
  <2> QED BY <1>2, <1>6, <1>20, <2>1 DEF Parted
<1>22. \A x \in Elements : x \notin M => m[x] = k[x]
  BY <1>3, <1>5, <1>6
<1> QED BY <1>4, <1>21, <1>22

-----------------------------------------------------------------------------
(***************************************************************************)
(* SPLAY_ASSEMBLE.                                                         *)
(***************************************************************************)
\* The links after it: what is below the root comes under the ends, and the parts
\* under the root.
Reassembled(k, r, e, m) ==
  /\ m \in Fields /\ m[NODE] = NoKids
  /\ \A x \in Elements, t \in Sides : x # r =>
       m[x][t] = IF x = e[Other(t)] THEN k[r][Other(t)] ELSE k[x][t]
  /\ \A t \in Sides : m[r][t] = IF e[t] = NODE THEN k[r][t] ELSE k[NODE][Other(t)]

\* What is at one side of the root afterwards.
LEMMA SideAssembled ==
  ASSUME NEW k, NEW r, NEW e, NEW M, NEW P, Parted(k, r, e, M, P), r # NULL,
         NEW m, Reassembled(k, r, e, m), NEW s \in Sides
  PROVE  /\ TreeOf(Own(m), m[r][s], P[s] \cup Beside(M, r, s))
         /\ \A y \in P[s] \cup Beside(M, r, s) : On(s, y, r)
<1> DEFINE o == Other(s)
<1> DEFINE B == Beside(M, r, s)
<1>1. o \in Sides /\ o # s /\ Other(o) = s /\ \A t \in Sides : t = s \/ t = o
  BY SideFacts
<1>2. k \in Fields /\ e \in [Sides -> Elements \cup {NODE}] /\ P \in [Sides -> SUBSET Elements]
      /\ TreeOf(Own(k), r, M) /\ HangsAt(k, e, M, P, s)
  BY DEF Parted
<1>3. /\ M \subseteq Elements /\ M \subseteq Nat /\ r \in M /\ r \in Elements /\ M # {}
      /\ P[s] \subseteq Elements /\ Elements \subseteq Nat
  BY <1>2, TreeTypes, NoNull
<1>4. \A t \in Sides : e[t] \in P[t] \cup {NODE} /\ e[t] \notin M
  BY PartsApart
<1>5. e[o] \notin P[s] /\ \A y \in P[s] : y \notin M
  <2>1. e[o] \notin P[Other(o)]
    BY <1>1, <1>3, PartsApart
  <2>2. \A y \in P[s] : y \notin M
    BY PartsApart
  <2> QED BY <1>1, <2>1, <2>2
<1>6. m \in Fields /\ Own(m) \in Links /\ \A x \in Elements : Own(m)[x] = m[x] /\ Own(k)[x] = k[x]
  <2>1. m \in Fields
    BY DEF Reassembled
  <2> QED BY <1>2, <2>1, LinkTypes
<1>7. \A y \in B : y \in M /\ y # r /\ On(s, y, r)
  BY <1>3, OnFacts DEF Beside
<1>8. TreeOf(Own(k), k[r][s], B)
  BY <1>2, <1>3, SideTree
<1> HIDE DEF o, B
<1>9. ASSUME NEW y \in P[s] \cup B PROVE On(s, y, r)
  BY <1>2, <1>3, <1>7 DEF HangsAt
<1>10. \A x \in B, t \in Sides : Own(m)[x][t] = k[x][t]
  <2> SUFFICES ASSUME NEW x \in B, NEW t \in Sides PROVE Own(m)[x][t] = k[x][t]
    OBVIOUS
  <2>1. x \in Elements /\ x # r /\ x # e[Other(t)]
    <3>1. Other(t) \in Sides
      BY SideFacts
    <3> QED BY <1>3, <1>4, <1>7, <3>1
  <2>2. m[x][t] = IF x = e[Other(t)] THEN k[r][Other(t)] ELSE k[x][t]
    BY <2>1 DEF Reassembled
  <2> QED BY <1>6, <2>1, <2>2
<1>11. TreeOf(Own(m), m[r][s], P[s] \cup B)
  <2>1. CASE P[s] = {}
    <3>1. e[s] = NODE
      BY <1>2, <2>1 DEF HangsAt
    <3>2. m[r][s] = k[r][s] /\ P[s] \cup B = B
      BY <2>1, <3>1 DEF Reassembled
    <3>3. \A x \in B : Own(m)[x] = Own(k)[x]
      <4>1. Own(k) \in Links /\ \A x \in B : x \in Elements
        BY <1>2, <1>3, <1>7, LinkTypes
      <4>2. \A x \in B, t \in Sides : Own(m)[x][t] = Own(k)[x][t]
        BY <1>6, <1>10, <4>1
      <4> QED BY <1>6, <4>1, <4>2, SameLinks
    <3> QED BY <1>6, <1>8, <3>2, <3>3, FrameTree
  <2>2. CASE P[s] # {}
    <3> DEFINE k0 == [Own(m) EXCEPT ![e[s]][o] = NULL]
    <3>1. e[s] \in P[s] /\ e[s] \in Elements /\ e[s] # NODE /\ e[s] # r /\ e[s] \in Nat
          /\ \A y \in P[s] : y # e[s] => On(s, y, e[s])
      BY <1>2, <1>3, <1>5, <2>2, NodeIsNone DEF HangsAt
    <3>2. m[r][s] = k[NODE][o]
      BY <3>1 DEF Reassembled, o
    <3>3. /\ k0 \in Links
          /\ \A x \in Elements, t \in Sides : k0[x][t] = IF x = e[s] /\ t = o THEN NULL ELSE Own(m)[x][t]
      BY <1>1, <1>6, <3>1 DEF Links, Slots
    <3>4. Own(m) = [k0 EXCEPT ![e[s]][o] = k[r][s]]
      <4>1. Own(m)[e[s]][o] = k[r][s]
        BY <1>1, <1>6, <3>1 DEF Reassembled
      <4> QED BY <1>1, <1>6, <3>1, <4>1 DEF Links
    <3> HIDE DEF k0
    <3>5. TreeOf(k0, k[NODE][o], P[s])
      <4>1. Cut(k, e) \in Links /\ TreeOf(Cut(k, e), k[NODE][o], P[s])
        BY <1>2, LinkTypes DEF HangsAt, o
      <4>2. ASSUME NEW x \in P[s], NEW t \in Sides PROVE k0[x][t] = Cut(k, e)[x][t]
        <5>1. x \in Elements /\ x # r /\ x # e[o]
          BY <1>3, <1>5
        <5>2. Own(m)[x][t] = IF x = e[Other(t)] THEN k[r][Other(t)] ELSE k[x][t]
          BY <1>6, <5>1 DEF Reassembled
        <5>3. Cut(k, e)[x][t] = IF x = e[Other(t)] THEN NULL ELSE k[x][t]
          BY <1>2, <5>1, LinkTypes
        <5>4. k0[x][t] = IF x = e[s] /\ t = o THEN NULL ELSE Own(m)[x][t]
          BY <3>3, <5>1
        <5>5. (t = o /\ Other(t) = s) \/ (t # o /\ Other(t) = o)
          BY DEF o, Other, Sides
        <5> QED BY <5>1, <5>2, <5>3, <5>4, <5>5
      <4>3. \A x \in P[s] : k0[x] = Cut(k, e)[x]
        BY <1>3, <3>3, <4>1, <4>2, SameLinks
      <4> QED BY <3>3, <4>1, <4>3, FrameTree
    <3>6. TreeOf(k0, k[r][s], B)
      <4>1. Own(k) \in Links /\ \A x \in B : x \in Elements /\ x # e[s]
        BY <1>2, <1>3, <1>4, <1>7, LinkTypes
      <4>2. \A x \in B, t \in Sides : k0[x][t] = Own(k)[x][t]
        BY <1>6, <1>10, <3>3, <4>1
      <4>3. \A x \in B : k0[x] = Own(k)[x]
        BY <3>3, <4>1, <4>2, SameLinks
      <4> QED BY <1>8, <3>3, <4>3, FrameTree
    <3>7. \A y \in B : On(o, y, e[s])
      <4>1. \A x \in M : On(s, e[s], x)
        BY <1>2, <3>1 DEF HangsAt
      <4> QED BY <1>3, <1>7, <3>1, <4>1, OnFacts DEF o
    <3>8. \A y \in P[s] : y # e[s] => On(Other(o), y, e[s])
      BY <1>1, <3>1
    <3>9. TreeOf(Own(m), k[NODE][o], P[s] \cup B)
      <4>1. PICK n : n = Own(m)
        OBVIOUS
      <4>2. n = [k0 EXCEPT ![e[s]][o] = k[r][s]]
        BY <3>4, <4>1
      <4>3. TreeOf(n, k[NODE][o], P[s] \cup B)
        BY <1>1, <3>1, <3>5, <3>6, <3>7, <3>8, <4>2, AttachTree
      <4> QED BY <4>1, <4>3
    <3> QED BY <3>2, <3>9
  <2> QED BY <2>1, <2>2
<1> QED BY <1>9, <1>11 DEF B

NoParts == [s \in Sides |-> {}]
NodeEnds == [s \in Sides |-> NODE]

\* A tree without parts at its sides.
LEMMA AloneParted ==
  ASSUME NEW k \in Fields, k[NODE] = NoKids, NEW r, NEW M, TreeOf(Own(k), r, M)
  PROVE  Parted(k, r, NodeEnds, M, NoParts) /\ Around(M, NoParts) = M
<1>1. NodeEnds \in [Sides -> Elements \cup {NODE}] /\ \A s \in Sides : NodeEnds[s] = NODE
  BY DEF NodeEnds
<1>2. NoParts \in [Sides -> SUBSET Elements] /\ \A s \in Sides : NoParts[s] = {}
  BY DEF NoParts
<1>3. ASSUME NEW s \in Sides PROVE HangsAt(k, NodeEnds, M, NoParts, s)
  <2>1. TreeOf(Cut(k, NodeEnds), NULL, {})
    BY LinkTypes, EmptyTree
  <2>2. k[NODE][Other(s)] = NULL
    BY SideFacts DEF NoKids
  <2> QED BY <1>1, <1>2, <2>1, <2>2 DEF HangsAt
<1>4. Around(M, NoParts) = M
  BY <1>2 DEF Around, Sides
<1> QED BY <1>1, <1>2, <1>3, <1>4 DEF Parted

\* SPLAY_ASSEMBLE makes one tree of the parts.
LEMMA AssembledTree ==
  ASSUME NEW k, NEW r, NEW e, NEW M, NEW P, Parted(k, r, e, M, P), r # NULL,
         NEW m, Reassembled(k, r, e, m)
  PROVE  /\ TreeOf(Own(m), r, Around(M, P))
         /\ \A x \in Elements : x \notin Around(M, P) => m[x] = k[x]
<1>1. k \in Fields /\ e \in [Sides -> Elements \cup {NODE}] /\ TreeOf(Own(k), r, M)
  BY DEF Parted
<1>2. M \subseteq Elements /\ M \subseteq Nat /\ r \in M /\ r \in Elements
  BY <1>1, TreeTypes
<1>3. m \in Fields /\ Own(m) \in Links /\ \A x \in Elements : Own(m)[x] = m[x] /\ Own(k)[x] = k[x]
  <2>1. m \in Fields
    BY DEF Reassembled
  <2> QED BY <1>1, <2>1, LinkTypes
<1> DEFINE A == P["left"] \cup Beside(M, r, "left")
<1> DEFINE B == P["right"] \cup Beside(M, r, "right")
<1>4. /\ TreeOf(Own(m), m[r]["left"], A) /\ \A y \in A : On("left", y, r)
      /\ TreeOf(Own(m), m[r]["right"], B) /\ \A y \in B : On("right", y, r)
  BY SideAssembled DEF Sides
<1>5. M = {r} \cup Beside(M, r, "left") \cup Beside(M, r, "right")
  <2>1. Halved(M, r, "left")
    BY <1>2, ThreeParts DEF Sides
  <2> QED BY <2>1 DEF Halved, Other
<1>6. {r} \cup A \cup B = Around(M, P)
  <2> HIDE DEF Beside
  <2> QED BY <1>5 DEF Around
<1> HIDE DEF A, B
<1>7. TreeOf(Own(m), r, {r} \cup A \cup B)
  BY <1>2, <1>3, <1>4, JoinTree DEF On
<1>8. ASSUME NEW x \in Elements, x \notin Around(M, P) PROVE m[x] = k[x]
  <2>1. \A t \in Sides : e[t] \in P[t] \cup {NODE} /\ P[t] \subseteq Around(M, P)
    BY PartsApart DEF Around, Sides
  <2>2. x # r /\ \A t \in Sides : Other(t) \in Sides /\ x # e[Other(t)]
    BY <1>2, <1>8, <2>1, SideFacts, NodeIsNone DEF Around
  <2>3. \A t \in Sides : m[x][t] = k[x][t]
    BY <2>2 DEF Reassembled
  <2>4. Own(m)[x] = Own(k)[x]
    BY <1>1, <1>3, <2>3, LinkTypes, SameLinks
  <2> QED BY <1>3, <2>4
<1> QED BY <1>6, <1>7, <1>8

-----------------------------------------------------------------------------
(***************************************************************************)
(* What is reached.                                                        *)
(***************************************************************************)
\* From the root of a tree exactly its elements are reached.
LEMMA TreeReached ==
  ASSUME NEW k, NEW r, NEW S, TreeOf(k, r, S)
  PROVE  Reachable({r}, k) = S
<1>1. PICK D : IsTree(Elements, r, k, D) /\ D[r] = S
  BY DEF TreeOf
<1>2. r \in D[r] \cup {NULL}
  BY <1>1 DEF IsTree, IsSubtrees
<1> QED BY <1>1, <1>2, SubtreeReached

\* The links with those of __node are links too.
LEMMA FieldsReach ==
  ASSUME NEW k \in Fields
  PROVE  /\ IsFiniteSet(Elements \cup {NODE}) /\ NULL \notin Elements \cup {NODE}
         /\ k \in [Elements \cup {NODE} -> [Sides -> Elements \cup {NODE} \cup {NULL}]]
<1>1. IsFiniteSet(Elements \cup {NODE})
  BY NoNull, FS_AddElement
<1>2. k \in [Elements \cup {NODE} -> [Sides -> Elements \cup {NODE} \cup {NULL}]]
  <2>1. \A x \in Elements \cup {NODE} : k[x] \in [Sides -> Elements \cup {NODE} \cup {NULL}]
    BY DEF Fields, Slots
  <2> QED BY <2>1 DEF Fields
<1> QED BY <1>1, <1>2, NoNull, NodeIsNone

\* The same with the links of __node.
LEMMA RootReached ==
  ASSUME NEW k \in Fields, NEW r, NEW S, TreeOf(Own(k), r, S)
  PROVE  Reachable({r}, k) = S
<1> DEFINE R == Reachable({r}, k)
<1>1. r \in Slots /\ S \subseteq Elements /\ (r # NULL => r \in S)
  BY TreeTypes
<1>2. /\ {r} \ {NULL} \subseteq R /\ Closed(R, k)
      /\ \A Z : {r} \ {NULL} \subseteq Z /\ Closed(Z, k) => R \subseteq Z
  <2>1. {r} \subseteq Elements \cup {NODE} \cup {NULL}
    BY <1>1 DEF Slots
  <2> QED BY <2>1, FieldsReach, ReachableIs
<1>3. \A x \in S, s \in Sides : k[x][s] = Own(k)[x][s]
  BY <1>1, LinkTypes
<1>4. Closed(S, k)
  BY <1>3, KidsInTree DEF Closed
<1> HIDE DEF R
<1>5. R \subseteq S
  BY <1>1, <1>2, <1>4
<1>6. S \subseteq R
  <2>1. r \in R \cup {NULL} /\ \A x \in S \cap R, s \in Sides : Own(k)[x][s] \in R \cup {NULL}
    BY <1>2, <1>3 DEF Closed
  <2> QED BY <2>1, DownTree
<1> QED BY <1>5, <1>6 DEF R

\* What waits below q while a removal goes on, or that q is in what is reached anyway.
Kept(k, q, T, A) == TreeOf(Own(k), q, T) \/ (T = {} /\ q \in A \cup {NULL})

\* The elements in the tree are those of the parts and those that wait.
LEMMA AllReached ==
  ASSUME NEW k, NEW r, NEW e, NEW M, NEW P, Parted(k, r, e, M, P), NEW q, NEW T, Kept(k, q, T, Around(M, P))
  PROVE  Reachable({r, q} \cup {k[NODE][s] : s \in Sides}, k) = Around(M, P) \cup T
<1> DEFINE A == Around(M, P)
           from == {r, q} \cup {k[NODE][s] : s \in Sides}
           R == Reachable(from, k)
<1>1. k \in Fields /\ e \in [Sides -> Elements \cup {NODE}] /\ P \in [Sides -> SUBSET Elements]
      /\ TreeOf(Own(k), r, M) /\ \A s \in Sides : HangsAt(k, e, M, P, s)
  BY DEF Parted
<1>2. r \in M \cup {NULL} /\ M \subseteq Elements
  BY <1>1, TreeTypes
<1>3. q \in A \cup T \cup {NULL} /\ T \subseteq Elements
  <2>1. CASE TreeOf(Own(k), q, T)
    BY <2>1, TreeTypes
  <2>2. CASE T = {} /\ q \in A \cup {NULL}
    BY <2>2
  <2> QED BY <2>1, <2>2 DEF Kept
<1>4. M \subseteq A /\ \A s \in Sides : P[s] \subseteq A
  BY DEF Around, Sides
<1>5. A \subseteq Elements
  BY <1>1, <1>2 DEF Around, Sides
<1>6. \A s \in Sides : k[NODE][s] \in P[Other(s)] \cup {NULL}
  <2> SUFFICES ASSUME NEW s \in Sides PROVE k[NODE][s] \in P[Other(s)] \cup {NULL}
    OBVIOUS
  <2>1. Other(s) \in Sides /\ Other(Other(s)) = s
    BY SideFacts
  <2>2. TreeOf(Cut(k, e), k[NODE][s], P[Other(s)])
    BY <1>1, <2>1 DEF HangsAt
  <2> QED BY <2>2, TreeTypes
<1> HIDE DEF A
<1>7. from \ {NULL} \subseteq A \cup T /\ from \subseteq Elements \cup {NODE} \cup {NULL}
  <2>1. \A s \in Sides : k[NODE][s] \in A \cup {NULL}
    BY <1>4, <1>6, SideFacts
  <2> QED BY <1>2, <1>3, <1>4, <1>5, <2>1
<1>8. /\ from \ {NULL} \subseteq R /\ Closed(R, k)
      /\ \A Z : from \ {NULL} \subseteq Z /\ Closed(Z, k) => R \subseteq Z
  <2> HIDE DEF from
  <2> QED BY <1>1, <1>7, FieldsReach, ReachableIs
<1>9. r \in R \cup {NULL} /\ q \in R \cup {NULL} /\ \A s \in Sides : k[NODE][s] \in R \cup {NULL}
  <2> HIDE DEF R
  <2> QED BY <1>8
<1> HIDE DEF from, R
\* Nothing else is reached.
<1>10. ASSUME NEW x \in A \cup T, NEW s \in Sides PROVE k[x][s] \in A \cup T \cup {NULL}
  <2>1. x \in Elements /\ Own(k)[x] = k[x]
    BY <1>1, <1>3, <1>5, LinkTypes
  <2>2. CASE x \in M
    BY <1>1, <1>4, <2>1, <2>2, KidsInTree
  <2>3. ASSUME NEW t \in Sides, x \in P[t] PROVE k[x][s] \in A \cup {NULL}
    <3>1. Cut(k, e)[x][s] \in P[t] \cup {NULL}
      BY <1>1, <2>3, KidsInTree DEF HangsAt
    <3>2. Cut(k, e)[x][s] = IF x = e[Other(s)] THEN NULL ELSE k[x][s]
      BY <1>1, <2>1, LinkTypes
    <3>3. CASE x = e[Other(s)]
      <4>1. Other(s) \in Sides /\ Other(Other(s)) = s /\ x # NODE
        BY <2>1, SideFacts, NodeIsNone
      <4> QED BY <1>1, <3>3, <4>1 DEF HangsAt, A
    <3> QED BY <1>4, <3>1, <3>2, <3>3
  <2>4. CASE x \in T
    <3>1. TreeOf(Own(k), q, T)
      BY <2>4 DEF Kept
    <3> QED BY <2>1, <2>4, <3>1, KidsInTree
  <2>5. x \in M \/ x \in T \/ \E t \in Sides : x \in P[t]
    BY DEF A, Around, Sides
  <2> QED BY <2>2, <2>3, <2>4, <2>5
<1>11. R \subseteq A \cup T
  BY <1>7, <1>8, <1>10 DEF Closed
\* All of it is.
<1>12. \A x \in R, s \in Sides : k[x][s] \in R \cup {NULL}
  BY <1>8 DEF Closed
<1>13. M \subseteq R
  <2>1. \A x \in M \cap R, s \in Sides : Own(k)[x][s] \in R \cup {NULL}
    <3>1. \A x \in Elements : Own(k)[x] = k[x]
      BY <1>1, LinkTypes
    <3> QED BY <1>2, <1>12, <3>1
  <2> QED BY <1>1, <1>9, <2>1, DownTree
<1>14. T \subseteq R
  <2>1. CASE TreeOf(Own(k), q, T)
    <3>1. \A x \in T \cap R, s \in Sides : Own(k)[x][s] \in R \cup {NULL}
      <4>1. \A x \in Elements : Own(k)[x] = k[x]
        BY <1>1, LinkTypes
      <4> QED BY <1>3, <1>12, <4>1
    <3> QED BY <1>9, <2>1, <3>1, DownTree
  <2> QED BY <2>1 DEF Kept
<1>15. ASSUME NEW s \in Sides PROVE P[s] \subseteq R
  <2>1. TreeOf(Cut(k, e), k[NODE][Other(s)], P[s]) /\ P[s] \subseteq Elements
    BY <1>1 DEF HangsAt
  <2>2. \A x \in P[s] \cap R, t \in Sides : Cut(k, e)[x][t] \in R \cup {NULL}
    BY <1>1, <1>12, <2>1, LinkTypes
  <2>3. k[NODE][Other(s)] \in R \cup {NULL}
    BY <1>9, SideFacts
  <2> QED BY <2>1, <2>2, <2>3, DownTree
<1>16. A \subseteq R
  BY <1>13, <1>15 DEF A, Around, Sides
<1>17. R = A \cup T
  BY <1>11, <1>14, <1>16
<1> QED BY <1>17 DEF R, from, A

-----------------------------------------------------------------------------
(***************************************************************************)
(* The invariant.                                                          *)
(***************************************************************************)
\* The elements hung at a side are on the way not taken from what is searched.
Beyond(P) == \A s \in Sides : \A y \in P[s] : Toward(y) = Other(s)

\* Between the root and what is searched there is nothing.
Closest(M) ==
  \A s \in Sides : Toward(root) = s => \A x \in M : On(s, x, root) => Toward(x) = Other(s)

\* SPLAY_NEXT is on its way down from the right child of elm: what it has not seen
\* of the larger elements is larger than those below where it is.
SeekIn(M) ==
  /\ op = "next" /\ elm = root /\ tmp # NULL
  /\ \E Z : /\ TreeOf(Own(kids), tmp, Z) /\ Z \subseteq M /\ \A y \in Z : elm < y
            /\ \A y \in M : elm < y => y \in Z \/ tmp < y

\* What is known at each place of the code.
Placed(M, P) ==
  /\ pc \in {"idle", "empty", "splay", "assemble", "splayed", "seek"}
  /\ pc \in {"splay", "assemble", "splayed"} => root # NULL
  /\ pc \notin {"splay", "assemble"} => P = NoParts
  /\ pc = "empty" => root = NULL
  /\ pc = "assemble" => Toward(root) = "here" \/ kids[root][Toward(root)] = NULL
  /\ pc = "splayed" => Closest(M)
  /\ pc = "seek" => SeekIn(M)

\* What is known of each call, with the elements A in the parts and T waiting.
Asked(A, T) ==
  /\ pc = "idle" => op = "none" /\ elm = NULL
  /\ pc # "idle" => \/ op \in {"insert", "remove", "find", "removed"} /\ elm \in Elements
                    \/ op = "next" /\ elm \in A
                    \/ op \in {"min", "max"} /\ elm = NULL
  /\ op # "removed" => T = {} /\ (pc # "seek" => tmp = NULL)
  /\ op = "removed" => /\ pc \in {"splay", "assemble", "splayed"} /\ result = elm
                       /\ TreeOf(Own(kids), tmp, T)
                       /\ (\A x \in A : x < elm) /\ \A y \in T : elm < y

\* The links of an element outside the tree.
Unused(k, S) == \A x \in Elements : x \notin S => k[x] = NoKids

State(M, P, T) ==
  /\ Parted(kids, root, ends, M, P)
  /\ Beyond(P)
  /\ Kept(kids, tmp, T, Around(M, P))
  /\ Unused(kids, Around(M, P) \cup T)
  /\ Placed(M, P)
  /\ Asked(Around(M, P), T)

\* Some parts, with the elements S in all of them.
Holds(S) == \E M, P, T : State(M, P, T) /\ S = Around(M, P) \cup T

IndInv == \E S : Holds(S)

-----------------------------------------------------------------------------
(* Toward *)

\* What Toward says.
LEMMA TowardIs ==
  ASSUME NEW x \in Elements, elm \in Slots
  PROVE  /\ Toward(x) \in Sides \cup {"here"}
         /\ Toward(x) = "here" <=> op \notin {"min", "max"} /\ x = elm
         /\ op = "min" => Toward(x) = "left"
         /\ op = "max" => Toward(x) = "right"
         /\ op \notin {"min", "max"} => \A s \in Sides : Toward(x) = s <=> On(s, elm, x)
<1>1. x \in Nat /\ elm \in Nat
  BY NoNull DEF Slots, NULL
<1>2. CASE op = "min"
  BY <1>2 DEF Toward, Sides
<1>3. CASE op = "max"
  BY <1>3 DEF Toward, Sides
<1>4. CASE op \notin {"min", "max"}
  <2>1. Toward(x) = IF elm = x THEN "here" ELSE IF elm < x THEN "left" ELSE "right"
    BY <1>4 DEF Toward
  <2> QED BY <1>1, <1>4, <2>1 DEF Sides, On
<1> QED BY <1>2, <1>3, <1>4

\* What is searched from an element is searched in the same direction from all
\* that are beyond that one.
LEMMA TowardBeyond ==
  ASSUME NEW x \in Elements, NEW y \in Elements, elm \in Slots, NEW s \in Sides
  PROVE  /\ Toward(x) = s /\ On(Other(s), y, x) => Toward(y) = s
         /\ Toward(x) = "here" /\ On(s, y, x) => Toward(y) = Other(s)
<1>1. x \in Nat /\ y \in Nat /\ elm \in Nat /\ Other(s) \in Sides
  BY NoNull, SideFacts DEF Slots, NULL
<1>2. CASE op \in {"min", "max"}
  <2>1. Toward(x) = Toward(y) /\ Toward(x) # "here"
    BY <1>2, TowardIs
  <2> QED BY <2>1
<1>3. CASE op \notin {"min", "max"}
  <2>1. ASSUME Toward(x) = s, On(Other(s), y, x) PROVE Toward(y) = s
    <3>1. On(s, elm, x)
      BY <1>3, <2>1, TowardIs
    <3>2. On(s, x, y)
      BY <1>1, <2>1, OnFacts
    <3>3. On(s, elm, y)
      BY <1>1, <3>1, <3>2, OnTransitive
    <3> QED BY <1>3, <3>3, TowardIs
  <2>2. ASSUME Toward(x) = "here", On(s, y, x) PROVE Toward(y) = Other(s)
    <3>1. x = elm
      BY <2>2, TowardIs
    <3>2. On(Other(s), elm, y)
      BY <1>1, <2>2, <3>1, OnFacts
    <3> QED BY <1>1, <1>3, <3>2, TowardIs
  <2> QED BY <2>1, <2>2
<1> QED BY <1>2, <1>3

\* Toward depends on the call only.
LEMMA TowardStays ==
  ASSUME op' = op, elm' = elm
  PROVE  (\A x : Toward(x)' = Toward(x)) /\ Toward(root)' = Toward(root')
  BY DEF Toward

\* The types in a state.
LEMMA StateTypes ==
  ASSUME NEW M, NEW P, NEW T, State(M, P, T)
  PROVE  /\ kids \in Fields /\ ends \in [Sides -> Elements \cup {NODE}] /\ P \in [Sides -> SUBSET Elements]
         /\ root \in Slots /\ M \subseteq Elements /\ M \subseteq Nat /\ TreeOf(Own(kids), root, M)
         /\ (root # NULL => root \in M) /\ (root = NULL <=> M = {})
         /\ Around(M, P) \subseteq Elements /\ M \subseteq Around(M, P) /\ elm \in Slots
         /\ \A s \in Sides : P[s] \subseteq Around(M, P)
<1>1. /\ kids \in Fields /\ ends \in [Sides -> Elements \cup {NODE}] /\ P \in [Sides -> SUBSET Elements]
      /\ TreeOf(Own(kids), root, M)
  BY DEF State, Parted
<1>2. root \in Slots /\ M \subseteq Elements /\ M \subseteq Nat /\ (root # NULL => root \in M) /\ (root = NULL <=> M = {})
  BY <1>1, TreeTypes
<1>3. Around(M, P) \subseteq Elements /\ M \subseteq Around(M, P) /\ \A s \in Sides : P[s] \subseteq Around(M, P)
  BY <1>1, <1>2 DEF Around, Sides
<1>4. elm \in Slots
  BY <1>3 DEF State, Asked, Slots
<1> QED BY <1>1, <1>2, <1>3, <1>4

\* Where nothing is apart there is one tree.
LEMMA OneTree ==
  ASSUME NEW M, NEW P, NEW T, State(M, P, T), pc \notin {"splay", "assemble"}
  PROVE  /\ P = NoParts /\ Around(M, P) = M /\ ends = NodeEnds /\ kids[NODE] = NoKids
<1>1. P = NoParts
  BY DEF State, Placed
<1>2. \A s \in Sides : P[s] = {} /\ Other(s) \in Sides /\ Other(Other(s)) = s
  BY <1>1, SideFacts DEF NoParts
<1>3. Around(M, P) = M
  BY <1>2 DEF Around, Sides
<1>4. \A s \in Sides : ends[s] = NODE /\ kids[NODE][Other(s)] = NULL
  <2> SUFFICES ASSUME NEW s \in Sides PROVE ends[s] = NODE /\ kids[NODE][Other(s)] = NULL
    OBVIOUS
  <2>1. HangsAt(kids, ends, M, P, s)
    BY DEF State, Parted
  <2>2. TreeOf(Cut(kids, ends), kids[NODE][Other(s)], {})
    BY <1>2, <2>1 DEF HangsAt
  <2> QED BY <1>2, <2>1, <2>2, TreeTypes DEF HangsAt
<1>5. ends = NodeEnds
  BY <1>4, StateTypes DEF NodeEnds
<1>6. kids[NODE] = NoKids
  <2>1. \A s \in Sides : kids[NODE][s] = NULL
    BY <1>2, <1>4
  <2>2. kids[NODE] \in [Sides -> Slots]
    BY StateTypes DEF Fields
  <2> QED BY <2>1, <2>2 DEF NoKids
<1> QED BY <1>1, <1>3, <1>5, <1>6

\* What is reached from the root, __node and __tmp.
LEMMA InTreeIs ==
  ASSUME NEW S, Holds(S)
  PROVE  InTree = S
<1>1. PICK M, P, T : State(M, P, T) /\ S = Around(M, P) \cup T
  BY DEF Holds
<1> QED BY <1>1, AllReached DEF InTree, State

\* And after a step.
LEMMA InTreeNext ==
  ASSUME NEW S, Holds(S)'
  PROVE  InTree' = S
<1>1. PICK M, P, T : State(M, P, T)' /\ S = Around(M, P) \cup T
  BY DEF Holds
<1>2. Parted(kids', root', ends', M, P) /\ Kept(kids', tmp', T, Around(M, P))
  BY <1>1 DEF State
<1>3. InTree' = Reachable({root', tmp'} \cup {kids'[NODE][s] : s \in Sides}, kids')
  BY DEF InTree
<1> QED BY <1>1, <1>2, <1>3, AllReached

\* How a step that ends in one tree is shown to keep the invariant.
Whole(k, r, M) == k \in Fields /\ k[NODE] = NoKids /\ TreeOf(Own(k), r, M)

\* Such a step, when the call returns with it.
LEMMA ReturnHolds ==
  ASSUME NEW M, Whole(kids', root', M), ends' = NodeEnds, Unused(kids', M),
         pc' = "idle", op' = "none", elm' = NULL, tmp' = NULL
  PROVE  Holds(M)'
<1>1. Parted(kids', root', ends', M, NoParts) /\ Around(M, NoParts) = M
  BY AloneParted DEF Whole
<1>2. Beyond(NoParts)'
  BY DEF Beyond, NoParts
<1>3. Kept(kids', tmp', {}, M)
  BY DEF Kept
<1>4. Placed(M, NoParts)' /\ Asked(M, {})'
  BY DEF Placed, Asked
<1>5. State(M, NoParts, {})'
  BY <1>1, <1>2, <1>3, <1>4 DEF State
<1> QED BY <1>1, <1>5 DEF Holds

-----------------------------------------------------------------------------
(***************************************************************************)
(* The steps of SPLAY keep the invariant and the elements.                 *)
(***************************************************************************)
\* Elements only move from part to part.
Moved(M, P, k, A) ==
  /\ Parted(k, root', ends', M, P) /\ Around(M, P) = A
  /\ \A x \in Elements : x \notin A => k[x] = kids[x]

\* A step of SPLAY that only moves elements keeps what waits and what was asked.
LEMMA MovedHolds ==
  ASSUME NEW M, NEW P, NEW T, State(M, P, T), pc \in {"splay", "assemble"},
         NEW N, NEW Q, Moved(N, Q, kids', Around(M, P)),
         op' = op, elm' = elm, tmp' = tmp, result' = result,
         \A s \in Sides : \A y \in Q[s] : Toward(y) = Other(s),
         pc' \in {"splay", "assemble", "splayed"}, Placed(N, Q)'
  PROVE  Holds(Around(M, P) \cup T)'
<1> DEFINE A == Around(M, P)
<1>1. Parted(kids', root', ends', N, Q) /\ Around(N, Q) = A
      /\ \A x \in Elements : x \notin A => kids'[x] = kids[x]
  BY DEF Moved
<1>2. kids \in Fields /\ A \subseteq Elements /\ kids' \in Fields
  BY <1>1, StateTypes DEF Parted
<1>3. Beyond(Q)'
  BY TowardStays DEF Beyond
<1> HIDE DEF A
<1>4. Asked(A, T) /\ Kept(kids, tmp, T, A) /\ Unused(kids, A \cup T) /\ pc # "idle"
  BY DEF State, A
<1>5. op = "removed" => TreeOf(Own(kids'), tmp, T)
  <2> SUFFICES ASSUME op = "removed" PROVE TreeOf(Own(kids'), tmp, T)
    OBVIOUS
  <2>1. TreeOf(Own(kids), tmp, T) /\ (\A x \in A : x < elm) /\ \A y \in T : elm < y
    BY <1>4 DEF Asked
  <2>2. T \subseteq Elements /\ elm \in Nat /\ \A y \in T : y \in Nat
    BY <1>4, <2>1, TreeTypes, NoNull DEF Asked
  <2>3. \A y \in T : y \notin A
    <3> SUFFICES ASSUME NEW y \in T, y \in A PROVE FALSE
      OBVIOUS
    <3>1. y < elm /\ elm < y /\ y \in Nat
      BY <2>1, <2>2
    <3> QED BY <2>2, <3>1
  <2>4. \A y \in T : Own(kids')[y] = Own(kids)[y]
    BY <1>1, <1>2, <2>2, <2>3, LinkTypes
  <2> QED BY <1>2, <2>1, <2>4, LinkTypes, FrameTree
<1>6. Asked(A, T)'
  BY <1>4, <1>5 DEF Asked
<1>7. Kept(kids', tmp', T, A)
  <2>1. CASE op = "removed"
    BY <1>5, <2>1 DEF Kept
  <2>2. CASE op # "removed"
    <3>1. T = {} /\ tmp = NULL
      BY <1>4, <2>2 DEF Asked
    <3> QED BY <3>1 DEF Kept
  <2> QED BY <2>1, <2>2
<1>8. Unused(kids', A \cup T)
  BY <1>1, <1>4 DEF Unused
<1>9. State(N, Q, T)'
  <2>1. (A \cup T)' = A \cup T /\ Around(N, Q)' = A
    BY <1>1
  <2> QED BY <1>1, <1>3, <1>6, <1>7, <1>8 DEF State
<1> QED BY <1>1, <1>9 DEF Holds, A

\* A step down adds to a part only what is beyond the root.
LEMMA JoinedBeyond ==
  ASSUME NEW M, NEW P, NEW T, State(M, P, T), NEW r \in M, NEW s \in Sides, Toward(r) = s,
         NEW t \in Sides, NEW y \in Joined(P, M, r, s)[t]
  PROVE  Toward(y) = Other(t)
<1>1. P \in [Sides -> SUBSET Elements] /\ M \subseteq Elements /\ M \subseteq Nat /\ elm \in Slots
  BY StateTypes
<1>2. Other(s) \in Sides /\ Other(Other(s)) = s /\ (t = s \/ t = Other(s)) /\ s # Other(s)
  BY SideFacts
<1>3. CASE y \in P[t]
  BY <1>3 DEF State, Beyond
<1>4. CASE y \notin P[t]
  <2>1. t = Other(s) /\ y \in M \ Beside(M, r, s)
    BY <1>1, <1>2, <1>4 DEF Joined
  <2>2. y = r \/ On(Other(s), y, r)
    <3>1. Halved(M, r, s)
      BY <1>1, ThreeParts
    <3> QED BY <2>1, <3>1 DEF Halved, Beside
  <2>3. r \in Elements /\ y \in Elements
    BY <1>1, <2>1
  <2>4. Toward(y) = s
    BY <1>1, <2>2, <2>3, TowardBeyond
  <2> QED BY <1>2, <2>1, <2>4
<1> QED BY <1>3, <1>4

\* A pass that stops changes no link.
LEMMA StopHolds ==
  ASSUME NEW S, Holds(S), Stop
  PROVE  Holds(S)'
<1>1. PICK M, P, T : State(M, P, T) /\ S = Around(M, P) \cup T
  BY DEF Holds
<1>2. /\ pc = "splay" /\ pc' = "assemble"
      /\ UNCHANGED <<root, kids, ends, op, elm, tmp, result>>
      /\ Toward(root) # "here" => kids[root][Toward(root)] = NULL
  BY DEF Stop
<1>3. Moved(M, P, kids', Around(M, P))
  BY <1>1, <1>2 DEF Moved, State
<1>4. \A s \in Sides : \A y \in P[s] : Toward(y) = Other(s)
  BY <1>1 DEF State, Beyond
<1>5. Placed(M, P)'
  <2>1. Toward(root)' = Toward(root)
    BY <1>2, TowardStays
  <2>2. root # NULL
    BY <1>1, <1>2 DEF State, Placed
  <2> QED BY <1>2, <2>1, <2>2 DEF Placed
<1> QED BY <1>1, <1>2, <1>3, <1>4, <1>5, MovedHolds

\* A pass one step down moves the root, and what is beyond it, to the other side.
LEMMA StepDownHolds ==
  ASSUME NEW S, Holds(S), StepDown
  PROVE  Holds(S)'
<1>1. PICK M, P, T : State(M, P, T) /\ S = Around(M, P) \cup T
  BY DEF Holds
<1>2. PICK s : s = Toward(root)
  OBVIOUS
<1>3. /\ pc = "splay" /\ pc' = pc /\ UNCHANGED <<op, elm, tmp, result>>
      /\ s # "here" /\ kids[root][s] # NULL /\ root' = kids[root][s]
      /\ Linked(kids, ends, root, s, kids', ends')
  BY <1>2 DEF StepDown, LinkDown, Link, Linked
<1>4. root # NULL /\ root \in M /\ root \in Elements /\ s \in Sides
  <2>1. root # NULL
    BY <1>1, <1>3 DEF State, Placed
  <2>2. root \in M /\ root \in Elements /\ elm \in Slots
    BY <1>1, <2>1, StateTypes
  <2> QED BY <1>2, <1>3, <2>1, <2>2, TowardIs
<1> PICK r : r = root
  OBVIOUS
<1> DEFINE N == Beside(M, r, s)
           Q == Joined(P, M, r, s)
<1>5. Moved(N, Q, kids', Around(M, P))
  BY <1>1, <1>3, <1>4, LinkedParts DEF Moved, State
<1>6. \A t \in Sides : \A y \in Q[t] : Toward(y) = Other(t)
  BY <1>1, <1>2, <1>4, JoinedBeyond
<1> HIDE DEF N, Q
<1>7. Placed(N, Q)'
  BY <1>3 DEF Placed
<1>8. /\ pc \in {"splay", "assemble"} /\ pc' \in {"splay", "assemble", "splayed"}
      /\ op' = op /\ elm' = elm /\ tmp' = tmp /\ result' = result
  BY <1>3
<1> QED BY <1>1, <1>5, <1>6, <1>7, <1>8, MovedHolds

\* So does one that rotates first, unless the way ends at the child.
LEMMA RotateDownHolds ==
  ASSUME NEW S, Holds(S), RotateDown
  PROVE  Holds(S)'
<1>1. PICK M, P, T : State(M, P, T) /\ S = Around(M, P) \cup T
  BY DEF Holds
<1>2. PICK s : s = Toward(root)
  OBVIOUS
<1>3. PICK c : c = kids[root][s]
  OBVIOUS
<1>4. PICK k : k = RotatedKids(s)
  OBVIOUS
<1>5. /\ pc = "splay" /\ UNCHANGED <<op, elm, tmp, result>>
      /\ s # "here" /\ c # NULL /\ Toward(c) = s
      /\ \/ /\ kids[c][s] = NULL /\ root' = c /\ kids' = k
            /\ pc' = "assemble" /\ ends' = ends
         \/ /\ kids[c][s] # NULL /\ root' = k[c][s] /\ pc' = pc
            /\ Linked(k, ends, c, s, kids', ends')
  BY <1>2, <1>3, <1>4 DEF RotateDown, EndsThere, LinkDown, Link, Linked
<1>6. root # NULL /\ root \in M /\ root \in Elements /\ s \in Sides /\ M \subseteq Elements /\ M \subseteq Nat
      /\ kids \in Fields /\ elm \in Slots
  <2>1. root # NULL
    BY <1>1, <1>5 DEF State, Placed
  <2>2. root \in M /\ root \in Elements /\ elm \in Slots /\ kids \in Fields /\ M \subseteq Elements /\ M \subseteq Nat
    BY <1>1, <2>1, StateTypes
  <2> QED BY <1>2, <1>5, <2>1, <2>2, TowardIs
<1>7. c \in M /\ c \in Elements /\ c # root
  <2>1. TreeOf(Own(kids), root, M)
    BY <1>1, StateTypes
  <2>2. Own(kids)[root][s] \in M \cup {NULL} /\ (Own(kids)[root][s] # NULL => On(s, Own(kids)[root][s], root))
    BY <1>6, <2>1, KidsInTree
  <2>3. Own(kids)[root] = kids[root]
    BY <1>6, LinkTypes
  <2>4. c \in M /\ On(s, c, root)
    BY <1>3, <1>5, <2>2, <2>3
  <2> QED BY <1>6, <2>4, OnFacts
<1>8. Turned(kids, root, s, k)
  BY <1>4 DEF Turned, RotatedKids
<1>9. Parted(k, c, ends, M, P) /\ \A x \in Elements : x \notin M => k[x] = kids[x]
  <2>1. Parted(kids, root, ends, M, P)
    BY <1>1 DEF State
  <2>2. Parted(k, kids[root][s], ends, M, P) /\ \A x \in Elements : x \notin M => k[x] = kids[x]
    BY <1>3, <1>5, <1>6, <1>8, <2>1, TurnedParts
  <2> QED BY <1>3, <2>2
<1>10. k[c][s] = kids[c][s]
  BY <1>3, <1>6, <1>7, <1>8, TurnedFields
<1>11. M \subseteq Around(M, P)
  BY DEF Around
<1>12. CASE kids[c][s] = NULL
  <2>1. root' = c /\ kids' = k /\ pc' = "assemble" /\ ends' = ends
    BY <1>5, <1>12
  <2>2. Moved(M, P, kids', Around(M, P))
    BY <1>9, <1>11, <2>1 DEF Moved
  <2>3. \A t \in Sides : \A y \in P[t] : Toward(y) = Other(t)
    BY <1>1 DEF State, Beyond
  <2>4. Placed(M, P)'
    <3>1. Toward(root)' = s
      BY <1>5, <2>1, TowardStays
    <3>2. kids'[root'][s] = NULL
      BY <1>10, <1>12, <2>1
    <3>3. root' # NULL
      BY <1>5, <2>1
    <3> QED BY <2>1, <3>1, <3>2, <3>3 DEF Placed
  <2>5. /\ pc \in {"splay", "assemble"} /\ pc' \in {"splay", "assemble", "splayed"}
        /\ op' = op /\ elm' = elm /\ tmp' = tmp /\ result' = result
    BY <1>5, <2>1
  <2> QED BY <1>1, <2>2, <2>3, <2>4, <2>5, MovedHolds
<1>13. CASE kids[c][s] # NULL
  <2> DEFINE N == Beside(M, c, s)
             Q == Joined(P, M, c, s)
  <2>1. root' = k[c][s] /\ pc' = pc /\ Linked(k, ends, c, s, kids', ends') /\ k[c][s] # NULL
    BY <1>5, <1>10, <1>13
  <2>2. /\ Parted(kids', k[c][s], ends', N, Q) /\ Around(N, Q) = Around(M, P)
        /\ \A x \in Elements : x \notin Around(M, P) => kids'[x] = k[x]
    BY <1>5, <1>6, <1>9, <2>1, LinkedParts
  <2>3. Moved(N, Q, kids', Around(M, P))
    BY <1>9, <1>11, <2>1, <2>2 DEF Moved
  <2>4. \A t \in Sides : \A y \in Q[t] : Toward(y) = Other(t)
    BY <1>1, <1>5, <1>6, <1>7, JoinedBeyond
  <2> HIDE DEF N, Q
  <2>5. Placed(N, Q)'
    BY <1>5, <2>1 DEF Placed
  <2>6. /\ pc \in {"splay", "assemble"} /\ pc' \in {"splay", "assemble", "splayed"}
        /\ op' = op /\ elm' = elm /\ tmp' = tmp /\ result' = result
    BY <1>5, <2>1
  <2> QED BY <1>1, <2>3, <2>4, <2>5, <2>6, MovedHolds
<1> QED BY <1>12, <1>13

\* SPLAY_ASSEMBLE writes what Reassembled says.
LEMMA AssembledIs ==
  ASSUME NEW M, NEW P, NEW T, State(M, P, T), root # NULL
  PROVE  Reassembled(kids, root, ends, Assembled)
<1>1. /\ kids \in Fields /\ ends \in [Sides -> Elements \cup {NODE}] /\ root \in M /\ root \in Elements
      /\ Parted(kids, root, ends, M, P)
  <2>1. kids \in Fields /\ ends \in [Sides -> Elements \cup {NODE}] /\ root \in M /\ root \in Elements
    BY StateTypes
  <2> QED BY <2>1 DEF State
<1>2. ends["left"] # root /\ ends["right"] # root /\ root # NODE
  BY <1>1, PartsApart, NodeIsNone DEF Sides
<1>3. ends["left"] \in Elements \cup {NODE} /\ ends["right"] \in Elements \cup {NODE}
      /\ kids[root]["left"] \in Slots /\ kids[root]["right"] \in Slots
  BY <1>1 DEF Fields, Sides
<1> DEFINE half == [kids EXCEPT ![ends["left"]]["right"] = kids[root]["left"]]
           hung == [half EXCEPT ![ends["right"]]["left"] = kids[root]["right"]]
           top == [hung EXCEPT ![root] = [s \in Sides |-> hung[NODE][Other(s)]]]
           all == [top EXCEPT ![NODE] = NoKids]
<1>4. Assembled = all
  BY DEF Assembled
<1>5. /\ half \in Fields
      /\ \A x \in Elements \cup {NODE} : /\ half[x]["left"] = kids[x]["left"]
                                         /\ half[x]["right"] = IF x = ends["left"] THEN kids[root]["left"] ELSE kids[x]["right"]
  BY <1>1, <1>3 DEF Fields, Sides
<1> HIDE DEF half
<1>6. /\ hung \in Fields
      /\ \A x \in Elements \cup {NODE} : /\ hung[x]["right"] = half[x]["right"]
                                         /\ hung[x]["left"] = IF x = ends["right"] THEN kids[root]["right"] ELSE half[x]["left"]
  BY <1>3, <1>5 DEF Fields, Sides
<1> HIDE DEF hung
<1>7. top \in Fields /\ (\A x \in Elements \cup {NODE} : x # root => top[x] = hung[x])
      /\ \A t \in Sides : top[root][t] = hung[NODE][Other(t)]
  <2>1. [s \in Sides |-> hung[NODE][Other(s)]] \in [Sides -> Slots]
    BY <1>6, SideFacts DEF Fields
  <2> QED BY <1>1, <1>6, <2>1 DEF Fields
<1> HIDE DEF top
<1>8. all \in Fields /\ all[NODE] = NoKids /\ \A x \in Elements : all[x] = top[x]
  <2>1. NoKids \in [Sides -> Slots]
    BY DEF NoKids, Slots
  <2> QED BY <1>7, <2>1, NodeIsNone DEF Fields
<1> HIDE DEF all
<1>9. ASSUME NEW x \in Elements, NEW t \in Sides, x # root
      PROVE  all[x][t] = IF x = ends[Other(t)] THEN kids[root][Other(t)] ELSE kids[x][t]
  <2>1. all[x][t] = hung[x][t]
    BY <1>7, <1>8, <1>9
  <2> QED BY <1>5, <1>6, <2>1 DEF Sides, Other
<1>10. ASSUME NEW t \in Sides
       PROVE  all[root][t] = IF ends[t] = NODE THEN kids[root][t] ELSE kids[NODE][Other(t)]
  <2>1. all[root][t] = hung[NODE][Other(t)]
    BY <1>1, <1>7, <1>8
  <2> QED BY <1>5, <1>6, <2>1 DEF Sides, Other
<1>11. Reassembled(kids, root, ends, all)
  BY <1>8, <1>9, <1>10 DEF Reassembled
<1> QED BY <1>4, <1>11

\* What SPLAY brings to the root is next to what is searched.
LEMMA AssembledClosest ==
  ASSUME NEW M, NEW P, NEW T, State(M, P, T), pc = "assemble",
         NEW s \in Sides, Toward(root) = s, NEW x \in Around(M, P), On(s, x, root)
  PROVE  Toward(x) = Other(s)
<1>1. root # NULL /\ kids[root][s] = NULL
  <2>1. s # "here"
    BY DEF Sides
  <2> QED BY <2>1 DEF State, Placed
<1>2. root \in M /\ M \subseteq Nat /\ M \subseteq Elements /\ kids \in Fields /\ TreeOf(Own(kids), root, M)
      /\ P \in [Sides -> SUBSET Elements]
  BY <1>1, StateTypes
<1>3. x \notin M
  <2>1. TreeOf(Own(kids), Own(kids)[root][s], {y \in M : On(s, y, root)})
    BY <1>1, <1>2, KidTree
  <2>2. Own(kids)[root][s] = NULL
    BY <1>1, <1>2, LinkTypes
  <2>3. {y \in M : On(s, y, root)} = {}
    BY <2>1, <2>2, TreeTypes
  <2> QED BY <2>3
<1>4. PICK t \in Sides : x \in P[t]
  BY <1>3 DEF Around, Sides
<1>5. On(t, x, root) /\ x \in Elements /\ x \in Nat /\ root \in Nat
  <2>1. HangsAt(kids, ends, M, P, t)
    BY DEF State, Parted
  <2> QED BY <1>2, <1>4, <2>1, NoNull DEF HangsAt
<1>6. t = s
  BY <1>5, OnFacts
<1> QED BY <1>4, <1>6 DEF State, Beyond

\* SPLAY_ASSEMBLE makes one tree of the parts, with the closest element at its root.
LEMMA AssembleHolds ==
  ASSUME NEW S, Holds(S), Assemble
  PROVE  Holds(S)'
<1>1. PICK M, P, T : State(M, P, T) /\ S = Around(M, P) \cup T
  BY DEF Holds
<1> DEFINE A == Around(M, P)
<1>2. /\ pc = "assemble" /\ pc' = "splayed" /\ kids' = Assembled /\ ends' = NodeEnds
      /\ UNCHANGED <<root, op, elm, tmp, result>>
  BY DEF Assemble, NodeEnds
<1>3. root # NULL
  BY <1>1, <1>2 DEF State, Placed
<1>4. Reassembled(kids, root, ends, kids') /\ Parted(kids, root, ends, M, P)
  <2>1. Reassembled(kids, root, ends, Assembled)
    BY <1>1, <1>3, AssembledIs
  <2> QED BY <1>1, <1>2, <2>1 DEF State
<1>5. TreeOf(Own(kids'), root, A) /\ \A x \in Elements : x \notin A => kids'[x] = kids[x]
  BY <1>3, <1>4, AssembledTree
<1> HIDE DEF A
<1>6. Parted(kids', root, NodeEnds, A, NoParts) /\ Around(A, NoParts) = A
  <2>1. kids' \in Fields /\ kids'[NODE] = NoKids
    BY <1>4 DEF Reassembled
  <2> QED BY <1>5, <2>1, AloneParted
<1>7. Moved(A, NoParts, kids', A)
  BY <1>2, <1>5, <1>6 DEF Moved
<1>8. \A s \in Sides : \A y \in NoParts[s] : Toward(y) = Other(s)
  BY DEF NoParts
<1>9. Placed(A, NoParts)'
  <2>1. Closest(A)'
    <3>1. ASSUME NEW s \in Sides, Toward(root)' = s, NEW x \in A, On(s, x, root')
          PROVE  Toward(x)' = Other(s)
      <4>1. Toward(root) = s /\ On(s, x, root)
        BY <1>2, <3>1, TowardStays
      <4>2. Toward(x) = Other(s)
        BY <1>1, <1>2, <4>1, AssembledClosest DEF A
      <4> QED BY <1>2, <4>2, TowardStays
    <3> QED BY <3>1 DEF Closest
  <2> QED BY <1>2, <1>3, <2>1 DEF Placed
<1>10. /\ pc \in {"splay", "assemble"} /\ pc' \in {"splay", "assemble", "splayed"}
       /\ op' = op /\ elm' = elm /\ tmp' = tmp /\ result' = result
  BY <1>2
<1> QED BY <1>1, <1>7, <1>8, <1>9, <1>10, MovedHolds DEF A

-----------------------------------------------------------------------------
(***************************************************************************)
(* What is done with the root keeps the invariant.                         *)
(***************************************************************************)
\* Outside SPLAY, and but for the second half of a removal, there is one tree.
LEMMA OneTreeHolds ==
  ASSUME NEW S, Holds(S), pc \notin {"splay", "assemble"}, op # "removed"
  PROVE  /\ State(S, NoParts, {}) /\ Whole(kids, root, S) /\ ends = NodeEnds /\ Unused(kids, S)
         /\ S \subseteq Elements /\ S \subseteq Nat /\ root \in Slots /\ elm \in Slots
         /\ (root # NULL => root \in S) /\ (root = NULL <=> S = {})
<1>1. PICK M, P, T : State(M, P, T) /\ S = Around(M, P) \cup T
  BY DEF Holds
<1>2. P = NoParts /\ Around(M, P) = M /\ ends = NodeEnds /\ kids[NODE] = NoKids
  BY <1>1, OneTree
<1>3. T = {}
  BY <1>1 DEF State, Asked
<1>4. S = M
  BY <1>1, <1>2, <1>3
<1>5. State(S, NoParts, {})
  BY <1>1, <1>2, <1>3, <1>4
<1>6. Unused(kids, S)
  BY <1>1, <1>2, <1>3, <1>4 DEF State
<1> QED BY <1>2, <1>5, <1>6, StateTypes DEF Whole

\* An element that was searched is in the tree iff it is at the root.
LEMMA ElmAtRoot ==
  ASSUME NEW S, Holds(S), pc = "splayed", op \in {"insert", "remove", "find", "next"}
  PROVE  /\ root \in S /\ elm \in Elements
         /\ (Toward(root) = "here" <=> root = elm) /\ (root = elm <=> elm \in S)
<1>1. /\ State(S, NoParts, {}) /\ S \subseteq Elements /\ S \subseteq Nat /\ elm \in Slots
      /\ root \in S
  <2>1. State(S, NoParts, {})
    BY OneTreeHolds
  <2>2. root # NULL
    BY <2>1 DEF State, Placed
  <2> QED BY <2>1, <2>2, OneTreeHolds
<1>2. elm \in Elements
  <2>1. Around(S, NoParts) \subseteq Elements
    BY <1>1, StateTypes
  <2> QED BY <1>1, <2>1 DEF State, Asked
<1>3. root \in Elements
  BY <1>1
<1>4. Toward(root) = "here" <=> root = elm
  BY <1>1, <1>3, TowardIs
<1>5. elm \in S => root = elm
  <2> SUFFICES ASSUME elm \in S, root # elm PROVE FALSE
    OBVIOUS
  <2>1. PICK s \in Sides : Toward(root) = s
    BY <1>1, <1>3, <1>4, TowardIs
  <2>2. On(s, elm, root)
    BY <1>1, <1>3, <2>1, TowardIs
  <2>3. Toward(elm) = Other(s)
    BY <1>1, <2>1, <2>2 DEF State, Placed, Closest
  <2>4. Toward(elm) = "here"
    BY <1>1, <1>2, TowardIs
  <2> QED BY <2>3, <2>4, SideFacts DEF Sides
<1> QED BY <1>1, <1>2, <1>4, <1>5

\* A call that ends without a change.
LEMMA QuietReturn ==
  ASSUME NEW S, Holds(S), pc \notin {"splay", "assemble"}, op # "removed",
         UNCHANGED <<root, kids, ends>>, NEW found, Return(found)
  PROVE  Holds(S)'
<1>1. Whole(kids, root, S) /\ ends = NodeEnds /\ Unused(kids, S)
  BY OneTreeHolds
<1>2. Whole(kids', root', S) /\ ends' = NodeEnds /\ Unused(kids', S)
  BY <1>1
<1> QED BY <1>2, ReturnHolds DEF Return

\* A search leaves the tree alone once it is done.
LEMMA FindEndHolds ==
  ASSUME NEW S, Holds(S), FindEnd
  PROVE  Holds(S)'
BY QuietReturn DEF FindEnd

\* So does a removal of what is not in the tree.
LEMMA RemoveAbsentHolds ==
  ASSUME NEW S, Holds(S), RemoveAbsent
  PROVE  Holds(S)' /\ elm \notin S
<1>1. elm \notin S
  BY ElmAtRoot DEF RemoveAbsent
<1>2. Holds(S)'
  BY QuietReturn DEF RemoveAbsent
<1> QED BY <1>1, <1>2

\* SPLAY_INSERT: the new element between the root and what is beyond it.
Inserted(k, r, x, s, m) == m = [k EXCEPT ![x][s] = k[r][s], ![x][Other(s)] = r, ![r][s] = NULL]

\* After it there is one tree, with the new element in it.
LEMMA InsertedTree ==
  ASSUME NEW k, NEW r, NEW M, Whole(k, r, M), r # NULL, NEW x \in Elements, x \notin M,
         NEW s \in Sides, On(s, x, r), \A y \in M : On(s, y, r) => On(s, y, x), NEW m,
         Inserted(k, r, x, s, m)
  PROVE  /\ Whole(m, x, M \cup {x})
         /\ \A y \in Elements : y \notin M \cup {x} => m[y] = k[y]
<1> DEFINE o == Other(s)
           A == Beside(M, r, o)
           B == Beside(M, r, s)
<1>1. o \in Sides /\ o # s /\ \A t \in Sides : t = s \/ t = o
  BY SideFacts
<1>2. /\ k \in Fields /\ k[NODE] = NoKids /\ TreeOf(Own(k), r, M) /\ M \subseteq Elements /\ M \subseteq Nat
      /\ r \in M /\ r \in Elements /\ r # x /\ x # NODE /\ r # NODE /\ x \in Nat
  <2>1. k \in Fields /\ k[NODE] = NoKids /\ TreeOf(Own(k), r, M)
    BY DEF Whole
  <2>2. M \subseteq Elements /\ M \subseteq Nat /\ r \in M
    BY <2>1, TreeTypes
  <2> QED BY <2>1, <2>2, NoNull, NodeIsNone
<1>3. /\ m \in Fields /\ m[NODE] = NoKids
      /\ m[x][s] = k[r][s] /\ m[x][o] = r /\ m[r][s] = NULL /\ m[r][o] = k[r][o]
      /\ \A y \in Elements : y # x /\ y # r => m[y] = k[y]
  <2> DEFINE a == [k EXCEPT ![x][s] = k[r][s]]
             b == [a EXCEPT ![x][o] = r]
  <2>0. m = [b EXCEPT ![r][s] = NULL]
    BY DEF Inserted
  <2> HIDE DEF o
  <2>1. a \in Fields /\ a[x][s] = k[r][s] /\ \A y \in Elements \cup {NODE} : y # x => a[y] = k[y]
    BY <1>2 DEF Fields, Slots
  <2> HIDE DEF a
  <2>2. b \in Fields /\ b[x][o] = r /\ b[x][s] = a[x][s] /\ \A y \in Elements \cup {NODE} : y # x => b[y] = a[y]
    BY <1>1, <1>2, <2>1 DEF Fields, Slots
  <2> HIDE DEF b
  <2>3. m \in Fields
    <3>1. b \in [Elements \cup {NODE} -> [Sides -> Slots]] /\ b[r] \in [Sides -> Slots] /\ NULL \in Slots
      BY <1>2, <2>2 DEF Fields, Slots
    <3>2. m = [b EXCEPT ![r] = [b[r] EXCEPT ![s] = NULL]] /\ [b[r] EXCEPT ![s] = NULL] \in [Sides -> Slots]
      BY <2>0, <3>1
    <3> QED BY <1>2, <3>1, <3>2 DEF Fields
  <2>4. m[r][s] = NULL /\ m[r][o] = b[r][o]
    <3>1. b \in [Elements \cup {NODE} -> [Sides -> Slots]] /\ b[r] \in [Sides -> Slots] /\ r \in Elements \cup {NODE}
      BY <1>2, <2>2 DEF Fields
    <3>2. m[r] = [b[r] EXCEPT ![s] = NULL]
      BY <2>0, <3>1
    <3> QED BY <1>1, <3>1, <3>2
  <2>5. \A y \in Elements \cup {NODE} : y # r => m[y] = b[y]
    BY <2>0, <2>2 DEF Fields
  <2> QED BY <1>2, <2>1, <2>2, <2>3, <2>4, <2>5
<1> HIDE DEF o
<1>4. TreeOf(Own(k), k[r][o], A) /\ TreeOf(Own(k), k[r][s], B)
  <2>1. \A t \in Sides : TreeOf(Own(k), Own(k)[r][t], {y \in M : On(t, y, r)})
    BY <1>2, KidTree
  <2> QED BY <1>1, <1>2, <2>1, LinkTypes DEF Beside
<1>5. /\ \A y \in A : y \in M /\ On(o, y, r) /\ y # r
      /\ \A y \in B : y \in M /\ On(s, y, r) /\ y # r /\ On(s, y, x)
  BY <1>1, <1>2, OnFacts DEF Beside
<1>6. M = {r} \cup B \cup A
  <2>1. Halved(M, r, s)
    BY <1>2, ThreeParts
  <2> QED BY <2>1 DEF Halved, o
<1> HIDE DEF A, B
<1>7. Own(m) \in Links /\ \A y \in Elements : Own(m)[y] = m[y] /\ Own(k)[y] = k[y]
  BY <1>2, <1>3, LinkTypes
<1>8. TreeOf(Own(m), k[r][o], A) /\ TreeOf(Own(m), k[r][s], B)
  <2>1. \A y \in M : y # r => Own(m)[y] = Own(k)[y]
    BY <1>2, <1>3, <1>7
  <2>2. TreeOf(Own(m), k[r][o], A)
    <3>1. \A y \in A : Own(m)[y] = Own(k)[y]
      BY <1>5, <2>1
    <3> QED BY <1>4, <1>7, <3>1, FrameTree
  <2>3. TreeOf(Own(m), k[r][s], B)
    <3>1. \A y \in B : Own(m)[y] = Own(k)[y]
      BY <1>5, <2>1
    <3> QED BY <1>4, <1>7, <3>1, FrameTree
  <2> QED BY <2>2, <2>3
<1>9. TreeOf(Own(m), r, {r} \cup {} \cup A)
  <2>1. TreeOf(Own(m), Own(m)[r][s], {}) /\ TreeOf(Own(m), Own(m)[r][Other(s)], A)
    BY <1>2, <1>3, <1>7, <1>8, EmptyTree DEF o
  <2>2. (\A y \in {} : On(s, y, r)) /\ \A y \in A : On(Other(s), y, r)
    BY <1>5 DEF o
  <2> QED BY <1>2, <2>1, <2>2, JoinAt
<1>10. TreeOf(Own(m), x, {x} \cup B \cup ({r} \cup {} \cup A))
  <2>1. TreeOf(Own(m), Own(m)[x][s], B) /\ TreeOf(Own(m), Own(m)[x][Other(s)], {r} \cup {} \cup A)
    BY <1>3, <1>7, <1>8, <1>9 DEF o
  <2>2. \A y \in {r} \cup {} \cup A : On(Other(s), y, x)
    <3>1. On(o, r, x)
      BY <1>2, OnFacts DEF o
    <3>2. \A y \in A : On(o, y, x)
      <4> SUFFICES ASSUME NEW y \in A PROVE On(o, y, x)
        OBVIOUS
      <4>1. On(o, y, r) /\ y \in Nat /\ r \in Nat
        BY <1>2, <1>5
      <4> QED BY <1>1, <1>2, <3>1, <4>1, OnTransitive
    <3> QED BY <3>1, <3>2 DEF o
  <2>3. \A y \in B : On(s, y, x)
    BY <1>5
  <2> QED BY <2>1, <2>2, <2>3, JoinAt
<1>11. {x} \cup B \cup ({r} \cup {} \cup A) = M \cup {x}
  BY <1>6
<1>12. Whole(m, x, M \cup {x})
  BY <1>3, <1>10, <1>11 DEF Whole
<1> QED BY <1>2, <1>3, <1>12

\* The insertion adds the element, unless it is there.
LEMMA InsertEndHolds ==
  ASSUME NEW S, Holds(S), InsertEnd, NEW x, x = elm
  PROVE  /\ Holds(S \cup {x})'
         /\ result' = IF x \in S THEN x ELSE NULL
<1>1. /\ root \in S /\ x \in Elements
      /\ (Toward(root) = "here" <=> root = x) /\ (root = x <=> x \in S)
  BY ElmAtRoot DEF InsertEnd
<1>2. /\ State(S, NoParts, {}) /\ Whole(kids, root, S) /\ ends = NodeEnds /\ Unused(kids, S)
      /\ S \subseteq Elements /\ S \subseteq Nat /\ elm \in Slots /\ root # NULL
  <2>1. pc \notin {"splay", "assemble"} /\ op # "removed"
    BY DEF InsertEnd
  <2> QED BY <1>1, <2>1, OneTreeHolds, NoNull
<1>3. CASE Toward(root) = "here"
  <2>1. Return(root) /\ UNCHANGED <<root, kids, ends>>
    BY <1>3 DEF InsertEnd
  <2>2. Holds(S)'
    <3>1. pc \notin {"splay", "assemble"} /\ op # "removed"
      BY DEF InsertEnd
    <3> QED BY <2>1, <3>1, QuietReturn
  <2>3. S \cup {x} = S
    BY <1>1, <1>3
  <2> QED BY <1>1, <1>3, <2>1, <2>2, <2>3 DEF Return
<1>4. CASE Toward(root) # "here"
  <2>1. PICK s : s = Toward(root)
    OBVIOUS
  <2>2. s \in Sides /\ op = "insert" /\ pc = "splayed"
    BY <1>1, <1>2, <1>4, <2>1, TowardIs DEF InsertEnd
  <2>3. /\ kids' = [kids EXCEPT ![x][s] = kids[root][s], ![x][Other(s)] = root, ![root][s] = NULL]
        /\ root' = x /\ Return(NULL) /\ ends' = NodeEnds
    BY <1>2, <1>4, <2>1 DEF InsertEnd
  <2>4. x \notin S /\ On(s, x, root)
    BY <1>1, <1>2, <1>4, <2>1, <2>2, TowardIs
  <2>5. ASSUME NEW y \in S, On(s, y, root) PROVE On(s, y, x)
    <3>1. Toward(y) = Other(s)
      BY <1>2, <2>1, <2>2, <2>5 DEF State, Placed, Closest
    <3>2. On(Other(s), x, y)
      BY <1>2, <2>2, <3>1, TowardIs, SideFacts
    <3>3. x \in Nat /\ y \in Nat
      BY <1>1, <1>2, NoNull
    <3> QED BY <2>2, <3>2, <3>3, OnFacts
  <2>6. PICK k, r : k = kids /\ r = root
    OBVIOUS
  <2>7. /\ Whole(kids', x, S \cup {x})
        /\ \A y \in Elements : y \notin S \cup {x} => kids'[y] = kids[y]
    <3>1. Inserted(k, r, x, s, kids')
      BY <2>3, <2>6 DEF Inserted
    <3>2. Whole(k, r, S) /\ r # NULL /\ On(s, x, r) /\ \A y \in S : On(s, y, r) => On(s, y, x)
      BY <1>2, <2>4, <2>5, <2>6
    <3> QED BY <1>1, <2>2, <2>4, <2>6, <3>1, <3>2, InsertedTree
  <2>8. Unused(kids', S \cup {x})
    BY <1>2, <2>7 DEF Unused
  <2>9. Holds(S \cup {x})'
    BY <2>3, <2>7, <2>8, ReturnHolds DEF Return
  <2> QED BY <2>3, <2>4, <2>9 DEF Return
<1> QED BY <1>3, <1>4

-----------------------------------------------------------------------------
\* An element taken out of the root leaves what was at its sides.
Unrooted(k, r, m) == m = [k EXCEPT ![r] = NoKids]

\* The two trees that are left, and the element is out of both.
LEMMA UnrootedTrees ==
  ASSUME NEW k, NEW r, NEW M, Whole(k, r, M), r # NULL, NEW m, Unrooted(k, r, m)
  PROVE  /\ m \in Fields /\ m[NODE] = NoKids /\ m[r] = NoKids
         /\ \A y \in Elements : y # r => m[y] = k[y]
         /\ \A s \in Sides : TreeOf(Own(m), k[r][s], Beside(M, r, s))
         /\ M \ {r} = Beside(M, r, "left") \cup Beside(M, r, "right")
<1>1. /\ k \in Fields /\ k[NODE] = NoKids /\ TreeOf(Own(k), r, M) /\ M \subseteq Elements /\ M \subseteq Nat
      /\ r \in M /\ r # NODE
  <2>1. k \in Fields /\ k[NODE] = NoKids /\ TreeOf(Own(k), r, M)
    BY DEF Whole
  <2> QED BY <2>1, TreeTypes, NodeIsNone
<1>2. NoKids \in [Sides -> Slots]
  BY DEF NoKids, Slots
<1>3. /\ m \in Fields /\ m[NODE] = NoKids /\ m[r] = NoKids
      /\ \A y \in Elements : y # r => m[y] = k[y]
  BY <1>1, <1>2 DEF Fields, Unrooted
<1>4. r \in Nat /\ ~On("left", r, r) /\ ~On("right", r, r)
  BY <1>1 DEF On
<1>5. ASSUME NEW s \in Sides PROVE TreeOf(Own(m), k[r][s], Beside(M, r, s))
  <2>1. TreeOf(Own(k), Own(k)[r][s], Beside(M, r, s))
    <3>1. TreeOf(Own(k), Own(k)[r][s], {y \in M : On(s, y, r)})
      BY <1>1, KidTree
    <3> QED BY <3>1 DEF Beside
  <2>2. TreeOf(Own(k), k[r][s], Beside(M, r, s))
    BY <1>1, <2>1, LinkTypes
  <2>3. \A y \in Beside(M, r, s) : y \in Elements /\ y # r
    BY <1>1, <1>4 DEF Beside, Sides
  <2>4. \A y \in Beside(M, r, s) : Own(m)[y] = Own(k)[y]
    <3>1. \A y \in Elements : Own(m)[y] = m[y] /\ Own(k)[y] = k[y]
      BY <1>1, <1>3, LinkTypes
    <3>2. \A y \in Beside(M, r, s) : m[y] = k[y]
      BY <1>3, <2>3
    <3> QED BY <2>3, <3>1, <3>2
  <2> QED BY <1>3, <2>2, <2>4, FrameTree, LinkTypes
<1>6. M \ {r} = Beside(M, r, "left") \cup Beside(M, r, "right")
  <2>1. Halved(M, r, "left") /\ Other("left") = "right"
    BY <1>1, ThreeParts DEF Sides, Other
  <2>2. r \notin Beside(M, r, "left") /\ r \notin Beside(M, r, "right")
    BY <1>4 DEF Beside
  <2> QED BY <2>1, <2>2 DEF Halved
<1> QED BY <1>3, <1>5, <1>6

\* SPLAY_REMOVE, of an element without smaller ones.
LEMMA RemoveRootHolds ==
  ASSUME NEW S, Holds(S), RemoveRoot, NEW x, x = elm
  PROVE  Holds(S \ {x})' /\ x \in S /\ result' = x
<1>1. root \in S /\ root = x /\ x \in S
  BY ElmAtRoot DEF RemoveRoot
<1>2. Whole(kids, root, S) /\ ends = NodeEnds /\ Unused(kids, S) /\ root # NULL
  <2>1. pc \notin {"splay", "assemble"} /\ op # "removed"
    BY DEF RemoveRoot
  <2> QED BY <1>1, <2>1, OneTreeHolds, NoNull
<1>3. /\ Unrooted(kids, root, kids') /\ root' = kids[root]["right"] /\ kids[root]["left"] = NULL
      /\ ends' = NodeEnds /\ Return(elm)
  BY <1>1, <1>2 DEF RemoveRoot, Unlinked, Unrooted
<1>4. PICK k, r : k = kids /\ r = root
  OBVIOUS
<1>5. /\ kids' \in Fields /\ kids'[NODE] = NoKids /\ kids'[r] = NoKids
      /\ \A y \in Elements : y # r => kids'[y] = k[y]
      /\ \A s \in Sides : TreeOf(Own(kids'), k[r][s], Beside(S, r, s))
      /\ S \ {r} = Beside(S, r, "left") \cup Beside(S, r, "right")
  BY <1>2, <1>3, <1>4, UnrootedTrees
<1>6. "left" \in Sides /\ "right" \in Sides
  BY DEF Sides
<1>7. Beside(S, r, "left") = {}
  <2>1. TreeOf(Own(kids'), NULL, Beside(S, r, "left"))
    BY <1>3, <1>4, <1>5, <1>6
  <2> QED BY <2>1, TreeTypes
<1>8. TreeOf(Own(kids'), root', S \ {x})
  <2>1. TreeOf(Own(kids'), root', Beside(S, r, "right"))
    BY <1>3, <1>4, <1>5, <1>6
  <2>2. S \ {x} = Beside(S, r, "right")
    BY <1>1, <1>4, <1>5, <1>7
  <2> QED BY <2>1, <2>2
<1>9. Unused(kids', S \ {x})
  BY <1>1, <1>2, <1>4, <1>5 DEF Unused
<1>10. Holds(S \ {x})'
  <2>1. Whole(kids', root', S \ {x})
    BY <1>5, <1>8 DEF Whole
  <2> QED BY <1>3, <1>9, <2>1, ReturnHolds DEF Return
<1> QED BY <1>1, <1>3, <1>10 DEF Return

\* And of one with smaller elements: these are searched for their largest while the
\* larger ones wait.
LEMMA RemoveAgainHolds ==
  ASSUME NEW S, Holds(S), RemoveAgain, NEW x, x = elm
  PROVE  Holds(S \ {x})' /\ x \in S /\ result' = x
<1>1. root \in S /\ root = x /\ x \in S /\ x \in Elements
  BY ElmAtRoot DEF RemoveAgain
<1>2. /\ Whole(kids, root, S) /\ ends = NodeEnds /\ Unused(kids, S) /\ root # NULL
      /\ S \subseteq Elements /\ S \subseteq Nat
  <2>1. pc \notin {"splay", "assemble"} /\ op # "removed"
    BY DEF RemoveAgain
  <2> QED BY <1>1, <2>1, OneTreeHolds, NoNull
<1>3. /\ Unrooted(kids, root, kids') /\ kids[root]["left"] # NULL
      /\ root' = kids[root]["left"] /\ tmp' = kids[root]["right"]
      /\ pc' = "splay" /\ op' = "removed" /\ result' = x /\ elm' = x /\ ends' = NodeEnds
  BY <1>1, <1>2 DEF RemoveAgain, Unlinked, Unrooted
<1>4. PICK k, r : k = kids /\ r = root
  OBVIOUS
<1>5. /\ kids' \in Fields /\ kids'[NODE] = NoKids /\ kids'[r] = NoKids
      /\ \A y \in Elements : y # r => kids'[y] = k[y]
      /\ \A s \in Sides : TreeOf(Own(kids'), k[r][s], Beside(S, r, s))
      /\ S \ {r} = Beside(S, r, "left") \cup Beside(S, r, "right")
  BY <1>2, <1>3, <1>4, UnrootedTrees
<1>6. "left" \in Sides /\ "right" \in Sides
  BY DEF Sides
<1>7. PICK M, T : M = Beside(S, r, "left") /\ T = Beside(S, r, "right")
  OBVIOUS
<1>8. TreeOf(Own(kids'), root', M) /\ TreeOf(Own(kids'), tmp', T)
  BY <1>3, <1>4, <1>5, <1>6, <1>7
<1>9. Parted(kids', root', ends', M, NoParts) /\ Around(M, NoParts) = M
  BY <1>3, <1>5, <1>8, AloneParted
<1>10. Beyond(NoParts)'
  BY DEF Beyond, NoParts
<1>11. Kept(kids', tmp', T, M)
  BY <1>8 DEF Kept
<1>12. M \cup T = S \ {x}
  BY <1>1, <1>4, <1>5, <1>7
<1>13. Unused(kids', M \cup T)
  BY <1>1, <1>2, <1>4, <1>5, <1>12 DEF Unused
<1>14. Placed(M, NoParts)'
  BY <1>3 DEF Placed
<1>15. Asked(M, T)'
  <2>1. (\A y \in M : y < x) /\ \A y \in T : x < y
    BY <1>1, <1>4, <1>7 DEF Beside, On
  <2> QED BY <1>1, <1>3, <1>8, <2>1 DEF Asked
<1>16. State(M, NoParts, T)'
  BY <1>9, <1>10, <1>11, <1>13, <1>14, <1>15 DEF State
<1>17. Holds(S \ {x})'
  BY <1>9, <1>12, <1>16 DEF Holds
<1> QED BY <1>1, <1>3, <1>17

\* The largest of the smaller elements has nothing at its right, where the larger
\* ones go.
LEMMA RemoveEndHolds ==
  ASSUME NEW S, Holds(S), RemoveEnd
  PROVE  Holds(S)' /\ result' = result
<1>1. PICK M, P, T : State(M, P, T) /\ S = Around(M, P) \cup T
  BY DEF Holds
<1>2. /\ pc = "splayed" /\ op = "removed" /\ kids' = [kids EXCEPT ![root]["right"] = tmp]
      /\ root' = root /\ ends' = ends /\ Return(elm)
  BY DEF RemoveEnd
<1>3. P = NoParts /\ Around(M, P) = M /\ ends = NodeEnds /\ kids[NODE] = NoKids
  BY <1>1, <1>2, OneTree
<1>4. /\ result = elm /\ TreeOf(Own(kids), tmp, T) /\ (\A y \in M : y < elm) /\ (\A y \in T : elm < y)
      /\ elm \in Elements /\ Closest(M) /\ root # NULL /\ Unused(kids, M \cup T)
  BY <1>1, <1>2, <1>3 DEF State, Asked, Placed
<1>5. /\ kids \in Fields /\ M \subseteq Elements /\ M \subseteq Nat /\ TreeOf(Own(kids), root, M)
      /\ root \in M /\ elm \in Nat /\ T \subseteq Elements /\ T \subseteq Nat /\ tmp \in Slots
      /\ root \in Elements /\ root # NODE /\ elm \in Slots
  BY <1>1, <1>4, StateTypes, TreeTypes, NoNull, NodeIsNone
<1>6. "left" \in Sides /\ "right" \in Sides /\ Other("right") = "left"
  BY DEF Sides, Other
<1>7. Beside(M, root, "right") = {}
  <2> SUFFICES ASSUME NEW y \in M, On("right", y, root) PROVE FALSE
    BY DEF Beside
  <2>1. y < elm /\ root < elm /\ y \in Nat /\ root \in Nat /\ y \in Elements
    BY <1>4, <1>5
  <2>2. On("right", elm, root) /\ On("right", elm, y) /\ op \notin {"min", "max"}
    BY <1>2, <2>1 DEF On
  <2>3. Toward(root) = "right" /\ Toward(y) = "right"
    BY <1>5, <1>6, <2>1, <2>2, TowardIs
  <2>4. Toward(y) = "left"
    BY <1>4, <1>6, <2>3 DEF Closest
  <2> QED BY <2>3, <2>4
<1>8. PICK A : A = Beside(M, root, "left")
  OBVIOUS
<1>9. M = {root} \cup A /\ \A y \in A : y \in M /\ y < root
  <2>1. Halved(M, root, "right")
    BY <1>5, <1>6, ThreeParts
  <2>2. \A y \in A : y \in M /\ y < root
    BY <1>8 DEF Beside, On
  <2> QED BY <1>6, <1>7, <1>8, <2>1, <2>2 DEF Halved
<1>10. PICK m, r : m = kids' /\ r = root
  OBVIOUS
<1>11. /\ m \in Fields /\ m[NODE] = NoKids /\ m[r]["left"] = kids[r]["left"] /\ m[r]["right"] = tmp
       /\ \A y \in Elements : y # r => m[y] = kids[y]
  <2>1. kids \in [Elements \cup {NODE} -> [Sides -> Slots]] /\ kids[r] \in [Sides -> Slots] /\ r \in Elements
    BY <1>5, <1>10 DEF Fields
  <2>2. m = [kids EXCEPT ![r] = [kids[r] EXCEPT !["right"] = tmp]]
    BY <1>2, <1>10
  <2>3. [kids[r] EXCEPT !["right"] = tmp] \in [Sides -> Slots]
    BY <1>5, <2>1
  <2>4. m[r] = [kids[r] EXCEPT !["right"] = tmp] /\ m \in Fields
    BY <2>1, <2>2, <2>3 DEF Fields
  <2>5. m[NODE] = NoKids /\ \A y \in Elements : y # r => m[y] = kids[y]
    BY <1>3, <1>5, <1>10, <2>1, <2>2
  <2> QED BY <1>6, <2>1, <2>4, <2>5
<1>12. Own(m) \in Links /\ \A y \in Elements : Own(m)[y] = m[y] /\ Own(kids)[y] = kids[y]
  BY <1>5, <1>11, LinkTypes
<1>13. TreeOf(Own(m), Own(m)[r]["left"], A)
  <2>1. TreeOf(Own(kids), Own(kids)[r]["left"], A)
    <3>1. TreeOf(Own(kids), Own(kids)[r]["left"], {y \in M : On("left", y, r)})
      BY <1>4, <1>5, <1>6, <1>10, KidTree
    <3> QED BY <1>8, <1>10, <3>1 DEF Beside
  <2>2. \A y \in A : y \in Elements /\ y # r
    BY <1>5, <1>9, <1>10
  <2>3. \A y \in A : Own(m)[y] = Own(kids)[y]
    BY <1>11, <1>12, <2>2
  <2>4. Own(m)[r]["left"] = Own(kids)[r]["left"]
    BY <1>5, <1>10, <1>11, <1>12
  <2> QED BY <1>12, <2>1, <2>3, <2>4, FrameTree
<1>14. TreeOf(Own(m), Own(m)[r]["right"], T)
  <2>1. \A y \in T : y \in Elements /\ y # r
    <3> SUFFICES ASSUME NEW y \in T PROVE y \in Elements /\ y # r
      OBVIOUS
    <3>1. elm < y /\ r < elm /\ y \in Nat /\ r \in Nat
      BY <1>4, <1>5, <1>10
    <3> QED BY <1>5, <3>1
  <2>2. \A y \in T : Own(m)[y] = Own(kids)[y]
    BY <1>11, <1>12, <2>1
  <2>3. Own(m)[r]["right"] = tmp
    BY <1>5, <1>10, <1>11, <1>12
  <2> QED BY <1>4, <1>12, <2>2, <2>3, FrameTree
<1>15. TreeOf(Own(m), r, {r} \cup T \cup A)
  <2>1. \A y \in T : On("right", y, r)
    <3> SUFFICES ASSUME NEW y \in T PROVE r < y
      BY DEF On
    <3>1. elm < y /\ r < elm /\ y \in Nat /\ r \in Nat
      BY <1>4, <1>5, <1>10
    <3> QED BY <1>5, <3>1
  <2>2. \A y \in A : On("left", y, r)
    BY <1>9, <1>10 DEF On
  <2>3. r \in Elements
    BY <1>5, <1>10
  <2> QED BY <1>6, <1>13, <1>14, <2>1, <2>2, <2>3, JoinAt
<1>16. {r} \cup T \cup A = S
  BY <1>1, <1>3, <1>9, <1>10
<1>17. Whole(kids', root', S)
  BY <1>2, <1>10, <1>11, <1>15, <1>16 DEF Whole
<1>18. Unused(kids', S)
  <2>1. S = M \cup T
    BY <1>1, <1>3
  <2> QED BY <1>4, <1>5, <1>10, <1>11, <2>1 DEF Unused
<1>19. Holds(S)'
  BY <1>2, <1>3, <1>17, <1>18, ReturnHolds DEF Return
<1> QED BY <1>2, <1>4, <1>19 DEF Return

-----------------------------------------------------------------------------
\* SPLAY_FIND, SPLAY_MIN and SPLAY_MAX: what they return.
LEMMA FindEndAnswers ==
  ASSUME NEW S, Holds(S), FindEnd, NEW x, x = elm
  PROVE  /\ op = "find" => result' = IF x \in S THEN x ELSE NULL
         /\ op = "min" => result' \in S /\ \A y \in S : result' <= y
         /\ op = "max" => result' \in S /\ \A y \in S : y <= result'
<1>1. /\ State(S, NoParts, {}) /\ S \subseteq Elements /\ S \subseteq Nat /\ elm \in Slots
      /\ root \in S /\ root \in Elements
  <2>1. pc \notin {"splay", "assemble"} /\ op # "removed"
    BY DEF FindEnd
  <2>2. State(S, NoParts, {})
    BY <2>1, OneTreeHolds
  <2>3. root # NULL
    BY <2>2 DEF FindEnd, State, Placed
  <2> QED BY <2>1, <2>2, <2>3, OneTreeHolds
<1>2. op = "find" => result' = IF x \in S THEN x ELSE NULL
  <2> SUFFICES ASSUME op = "find" PROVE result' = IF x \in S THEN x ELSE NULL
    OBVIOUS
  <2>1. (Toward(root) = "here" <=> root = elm) /\ (root = elm <=> elm \in S)
    BY ElmAtRoot DEF FindEnd
  <2>2. result' = IF Toward(root) = "here" THEN root ELSE NULL
    BY DEF FindEnd, Return
  <2> QED BY <2>1, <2>2
<1>3. ASSUME op \in {"min", "max"} PROVE result' = root
  BY <1>3 DEF FindEnd, Return
<1>4. ASSUME NEW s \in Sides, op = (IF s = "left" THEN "min" ELSE "max"), NEW y \in S, On(s, y, root)
      PROVE  FALSE
  <2>1. y \in Elements
    BY <1>1
  <2>2. Toward(root) = s /\ Toward(y) = s
    BY <1>1, <1>4, <2>1, TowardIs DEF Sides
  <2>3. Toward(y) = Other(s)
    BY <1>1, <1>4, <2>2 DEF FindEnd, State, Placed, Closest
  <2> QED BY <2>2, <2>3, SideFacts
<1>5. \A y \in S : y \in Nat /\ root \in Nat
  BY <1>1
<1>6. op = "min" => \A y \in S : root <= y
  <2> SUFFICES ASSUME op = "min", NEW y \in S PROVE root <= y
    OBVIOUS
  <2>1. ~On("left", y, root)
    BY <1>4 DEF Sides
  <2> QED BY <1>5, <2>1 DEF On
<1>7. op = "max" => \A y \in S : y <= root
  <2> SUFFICES ASSUME op = "max", NEW y \in S PROVE y <= root
    OBVIOUS
  <2>1. ~On("right", y, root)
    BY <1>4 DEF Sides
  <2> QED BY <1>5, <2>1 DEF On
<1> QED BY <1>1, <1>2, <1>3, <1>6, <1>7

\* SPLAY_NEXT: what it returns, of the elements S after x.
Follows(S, x, found) ==
  \/ found = NULL /\ \A y \in S : ~(x < y)
  \/ found \in S /\ x < found /\ \A y \in S : x < y => found <= y

\* SPLAY_NEXT either returns or goes on to the right child.
LEMMA NextEndHolds ==
  ASSUME NEW S, Holds(S), NextEnd, NEW x, x = elm
  PROVE  /\ Holds(S)'
         /\ \/ pc' = "idle" /\ Follows(S, x, result')
            \/ pc' = "seek" /\ UNCHANGED <<op, elm, result>>
<1>1. root \in S /\ root = elm /\ elm \in Elements /\ elm \in S
  <2>1. root \in S /\ elm \in Elements /\ (root = elm <=> elm \in S)
    BY ElmAtRoot DEF NextEnd
  <2>2. State(S, NoParts, {})
    BY OneTreeHolds DEF NextEnd
  <2>3. Around(S, NoParts) = S
    BY <2>2, OneTree DEF NextEnd
  <2>4. elm \in S
    BY <2>2, <2>3 DEF NextEnd, State, Asked
  <2> QED BY <2>1, <2>4
<1>2. /\ State(S, NoParts, {}) /\ Whole(kids, root, S) /\ ends = NodeEnds /\ Unused(kids, S)
      /\ S \subseteq Elements /\ S \subseteq Nat /\ root # NULL /\ elm \in Nat
  <2>1. pc \notin {"splay", "assemble"} /\ op # "removed"
    BY DEF NextEnd
  <2> QED BY <1>1, <2>1, OneTreeHolds, NoNull
<1>3. TreeOf(Own(kids), kids[elm]["right"], Beside(S, elm, "right")) /\ "right" \in Sides
  <2>1. "right" \in Sides
    BY DEF Sides
  <2>2. TreeOf(Own(kids), Own(kids)[root]["right"], {y \in S : On("right", y, root)})
    BY <1>2, <2>1, KidTree DEF Whole
  <2>3. Own(kids)[root] = kids[elm]
    BY <1>1, <1>2, LinkTypes DEF Whole
  <2> QED BY <1>1, <2>1, <2>2, <2>3 DEF Beside
<1>4. CASE kids[elm]["right"] = NULL
  <2>1. Return(NULL) /\ UNCHANGED <<root, kids, ends>>
    BY <1>4 DEF NextEnd
  <2>2. Holds(S)'
    BY <2>1, QuietReturn DEF NextEnd
  <2>3. Beside(S, elm, "right") = {}
    BY <1>3, <1>4, TreeTypes
  <2>4. \A y \in S : ~(x < y)
    BY <2>3 DEF Beside, On
  <2>5. pc' = "idle" /\ result' = NULL
    BY <2>1 DEF Return
  <2>6. Follows(S, x, result')
    BY <2>4, <2>5 DEF Follows
  <2> QED BY <2>2, <2>5, <2>6
<1>5. CASE kids[elm]["right"] # NULL
  <2>1. /\ op = "next" /\ pc' = "seek" /\ tmp' = kids[elm]["right"] /\ UNCHANGED <<op, elm, result>>
        /\ root' = root /\ kids' = kids /\ ends' = ends
    BY <1>5 DEF NextEnd
  <2>2. PICK Z : Z = Beside(S, elm, "right")
    OBVIOUS
  <2>3. Z \subseteq S /\ (\A y \in Z : elm < y) /\ \A y \in S : elm < y => y \in Z
    BY <2>2 DEF Beside, On
  <2>4. TreeOf(Own(kids), tmp', Z) /\ tmp' # NULL
    BY <1>3, <1>5, <2>1, <2>2
  <2>5. SeekIn(S)'
    BY <1>1, <2>1, <2>3, <2>4 DEF SeekIn
  <2>6. Placed(S, NoParts)'
    BY <2>1, <2>5 DEF Placed
  <2>7. tmp' \in S
    BY <2>3, <2>4, TreeTypes
  <2>8. Around(S, NoParts) = S /\ Parted(kids', root', ends', S, NoParts)
    BY <1>2, <2>1, AloneParted DEF Whole
  <2>9. Kept(kids', tmp', {}, S) /\ Unused(kids', S)
    BY <1>2, <2>1, <2>7 DEF Kept
  <2>10. Asked(S, {})'
    BY <1>1, <2>1 DEF Asked
  <2>11. Beyond(NoParts)'
    BY DEF Beyond, NoParts
  <2>12. State(S, NoParts, {})'
    BY <2>6, <2>8, <2>9, <2>10, <2>11 DEF State
  <2> QED BY <2>1, <2>8, <2>12 DEF Holds
<1> QED BY <1>4, <1>5

\* On the way down to the next element what is after elm stays below or after it.
LEMMA SeekHolds ==
  ASSUME NEW S, Holds(S), Seek, NEW x, x = elm
  PROVE  /\ Holds(S)'
         /\ \/ pc' = "idle" /\ Follows(S, x, result')
            \/ pc' = "seek" /\ UNCHANGED <<op, elm, result>>
<1>1. PICK M, P, T : State(M, P, T) /\ S = Around(M, P) \cup T
  BY DEF Holds
<1>2. pc = "seek" /\ root' = root /\ kids' = kids /\ ends' = ends
  BY DEF Seek
<1>3. SeekIn(M)
  BY <1>1, <1>2 DEF State, Placed
<1>4. op = "next" /\ elm = root /\ tmp # NULL
  BY <1>3 DEF SeekIn
<1>5. PICK Z : /\ TreeOf(Own(kids), tmp, Z) /\ Z \subseteq M /\ \A y \in Z : elm < y
               /\ \A y \in M : elm < y => y \in Z \/ tmp < y
  BY <1>3 DEF SeekIn
<1>6. /\ State(S, NoParts, {}) /\ Whole(kids, root, S) /\ ends = NodeEnds /\ Unused(kids, S)
      /\ S \subseteq Elements /\ S \subseteq Nat
  BY <1>2, <1>4, OneTreeHolds
<1>7. S = M
  <2>1. Around(M, P) = M
    BY <1>1, <1>2, OneTree
  <2>2. T = {}
    BY <1>1, <1>4 DEF State, Asked
  <2> QED BY <1>1, <2>1, <2>2
<1>8. tmp \in Z /\ tmp \in S /\ elm < tmp /\ tmp \in Elements
  BY <1>4, <1>5, <1>6, <1>7, TreeTypes
<1>9. PICK c : c = kids[tmp]["left"]
  OBVIOUS
<1>10. PICK Y : Y = {y \in Z : On("left", y, tmp)}
  OBVIOUS
<1>11. TreeOf(Own(kids), c, Y)
  <2>1. TreeOf(Own(kids), Own(kids)[tmp]["left"], {y \in Z : On("left", y, tmp)})
    BY <1>4, <1>5, KidTree DEF Sides
  <2> QED BY <1>6, <1>8, <1>9, <1>10, <2>1, LinkTypes DEF Whole
<1>12. Y \subseteq S /\ Y \subseteq Z /\ (\A y \in Y : elm < y /\ y < tmp) /\ \A y \in Z : y \in Y \/ tmp <= y
  <2>1. \A y \in Z : y \in Nat /\ tmp \in Nat
    BY <1>5, <1>6, <1>7, <1>8
  <2> QED BY <1>5, <1>7, <1>10, <2>1 DEF On
<1>13. CASE c = NULL
  <2>1. Return(tmp) /\ UNCHANGED <<root, kids, ends>>
    BY <1>9, <1>13 DEF Seek
  <2>2. Holds(S)'
    BY <1>2, <1>4, <2>1, QuietReturn
  <2>3. Y = {}
    BY <1>11, <1>13, TreeTypes
  <2>4. ASSUME NEW y \in S, elm < y PROVE tmp <= y
    <3>1. y \in Nat /\ tmp \in Nat /\ (y \in Z \/ tmp < y)
      BY <1>5, <1>6, <1>7, <1>8, <2>4
    <3> QED BY <1>12, <2>3, <3>1
  <2>5. pc' = "idle" /\ result' = tmp
    BY <2>1 DEF Return
  <2>6. Follows(S, x, result')
    BY <1>8, <2>4, <2>5 DEF Follows
  <2> QED BY <2>2, <2>5, <2>6
<1>14. CASE c # NULL
  <2>1. tmp' = c /\ UNCHANGED <<pc, op, elm, result>>
    BY <1>9, <1>14 DEF Seek
  <2>2. c \in Y /\ c \in S /\ c \in Nat
    BY <1>6, <1>11, <1>12, <1>14, TreeTypes
  <2>3. \A y \in S : elm < y => y \in Y \/ c < y
    <3> SUFFICES ASSUME NEW y \in S, elm < y, y \notin Y PROVE c < y
      OBVIOUS
    <3>1. y \in Nat /\ tmp \in Nat /\ c < tmp /\ (y \in Z \/ tmp < y)
      BY <1>5, <1>6, <1>7, <1>8, <1>12, <2>2
    <3>2. tmp <= y
      BY <1>12, <3>1
    <3> QED BY <2>2, <3>1, <3>2
  <2>4. SeekIn(S)'
    BY <1>2, <1>4, <1>11, <1>12, <1>14, <2>1, <2>3 DEF SeekIn
  <2>5. Placed(S, NoParts)'
    BY <1>2, <2>1, <2>4 DEF Placed
  <2>6. Around(S, NoParts) = S /\ Parted(kids', root', ends', S, NoParts)
    BY <1>2, <1>6, AloneParted DEF Whole
  <2>7. Kept(kids', tmp', {}, S) /\ Unused(kids', S)
    BY <1>2, <1>6, <2>1, <2>2 DEF Kept
  <2>8. Asked(S, {})'
    <3>1. Asked(S, {})
      BY <1>6, <2>6 DEF State
    <3> QED BY <1>2, <1>4, <2>1, <3>1 DEF Asked
  <2>9. Beyond(NoParts)'
    BY DEF Beyond, NoParts
  <2>10. State(S, NoParts, {})'
    BY <2>5, <2>6, <2>7, <2>8, <2>9 DEF State
  <2> QED BY <1>2, <2>1, <2>6, <2>10 DEF Holds
<1> QED BY <1>13, <1>14

-----------------------------------------------------------------------------
\* Nothing is in the tree, and what is inserted is all of it.
LEMMA EmptyHolds ==
  ASSUME NEW S, Holds(S), Empty, NEW x, x = elm
  PROVE  /\ S = {} /\ result' = NULL
         /\ op = "insert" => Holds({x})'
         /\ op # "insert" => Holds({})'
<1>1. PICK M, P, T : State(M, P, T) /\ S = Around(M, P) \cup T
  BY DEF Holds
<1>2. /\ pc = "empty" /\ root' = (IF op = "insert" THEN elm ELSE NULL) /\ Return(NULL)
      /\ kids' = kids /\ ends' = ends
  BY DEF Empty
<1>3. root = NULL /\ op # "removed" /\ (op = "insert" => elm \in Elements)
  <2>1. root = NULL /\ Asked(Around(M, P), T)
    BY <1>1, <1>2 DEF State, Placed
  <2> QED BY <1>2, <2>1 DEF Asked
<1>4. /\ S = {} /\ Whole(kids, root, {}) /\ ends = NodeEnds /\ Unused(kids, {})
  BY <1>2, <1>3, OneTreeHolds
<1>5. CASE op = "insert"
  <2>1. PICK k : k = kids
    OBVIOUS
  <2>2. x \in Elements /\ k \in Fields /\ k[NODE] = NoKids /\ k[x] = NoKids
    BY <1>3, <1>4, <1>5, <2>1 DEF Whole, Unused
  <2>3. Own(k) \in Links /\ \A s \in Sides : Own(k)[x][s] = NULL
    BY <2>2, LinkTypes DEF NoKids
  <2>4. TreeOf(Own(k), x, {x} \cup {} \cup {})
    <3>1. TreeOf(Own(k), Own(k)[x]["left"], {}) /\ TreeOf(Own(k), Own(k)[x][Other("left")], {})
      BY <2>3, EmptyTree, SideFacts DEF Sides
    <3>2. \A s \in Sides : \A y \in {} : On(s, y, x)
      OBVIOUS
    <3>3. "left" \in Sides /\ Other("left") \in Sides
      BY DEF Sides, Other
    <3> QED BY <2>2, <3>1, <3>2, <3>3, JoinAt
  <2>5. {x} \cup {} \cup {} = {x}
    OBVIOUS
  <2>6. Whole(kids', root', {x}) /\ Unused(kids', {x}) /\ ends' = NodeEnds
    BY <1>2, <1>4, <1>5, <2>1, <2>2, <2>4, <2>5 DEF Whole, Unused
  <2>7. Holds({x})'
    BY <1>2, <2>6, ReturnHolds DEF Return
  <2> QED BY <1>2, <1>4, <1>5, <2>7 DEF Return
<1>6. CASE op # "insert"
  <2>1. Whole(kids', root', {}) /\ Unused(kids', {}) /\ ends' = NodeEnds
    BY <1>2, <1>3, <1>4, <1>6
  <2>2. Holds({})'
    BY <1>2, <2>1, ReturnHolds DEF Return
  <2> QED BY <1>2, <1>4, <1>6, <2>2 DEF Return
<1> QED BY <1>5, <1>6

\* A call begins with one tree.
LEMMA CallHolds ==
  ASSUME NEW S, Holds(S), Call
  PROVE  /\ Holds(S)' /\ pc = "idle" /\ pc' # "idle" /\ result' = NULL
         /\ \/ op' \in {"insert", "remove", "find", "next"} /\ elm' \in Elements
            \/ op' \in {"min", "max"} /\ elm' = NULL
<1>1. PICK M, P, T : State(M, P, T) /\ S = Around(M, P) \cup T
  BY DEF Holds
<1>2. /\ pc = "idle" /\ pc' = (IF root = NULL THEN "empty" ELSE "splay") /\ result' = NULL
      /\ root' = root /\ kids' = kids /\ ends' = ends /\ tmp' = tmp
      /\ \/ op' \in {"insert", "remove", "find"} /\ elm' \in Elements
         \/ op' = "next" /\ elm' \in S
         \/ op' \in {"min", "max"} /\ elm' = NULL
  <2>1. InTree = S
    BY InTreeIs
  <2> QED BY <2>1 DEF Call, Called
<1>3. op # "removed" /\ tmp = NULL
  BY <1>1, <1>2 DEF State, Asked
<1>4. /\ Whole(kids, root, S) /\ ends = NodeEnds /\ Unused(kids, S) /\ S \subseteq Elements
  BY <1>2, <1>3, OneTreeHolds
<1>5. Around(S, NoParts) = S /\ Parted(kids', root', ends', S, NoParts)
  BY <1>2, <1>4, AloneParted DEF Whole
<1>6. Placed(S, NoParts)'
  BY <1>2 DEF Placed
<1>7. Asked(S, {})'
  BY <1>2, <1>3 DEF Asked
<1>8. Beyond(NoParts)'
  BY DEF Beyond, NoParts
<1>9. Kept(kids', tmp', {}, S) /\ Unused(kids', S)
  BY <1>2, <1>3, <1>4 DEF Kept
<1>10. State(S, NoParts, {})'
  BY <1>5, <1>6, <1>7, <1>8, <1>9 DEF State
<1> QED BY <1>2, <1>4, <1>5, <1>10 DEF Holds

\* No element is in the tree at first.
LEMMA InitHolds ==
  ASSUME Init
  PROVE  Holds({})
<1>1. /\ kids = [x \in Elements \cup {NODE} |-> NoKids] /\ root = NULL /\ ends = NodeEnds
      /\ pc = "idle" /\ op = "none" /\ elm = NULL /\ tmp = NULL
  BY DEF Init, NodeEnds
<1>2. NoKids \in [Sides -> Slots]
  BY DEF NoKids, Slots
<1>3. kids \in Fields /\ kids[NODE] = NoKids /\ Unused(kids, {})
  BY <1>1, <1>2 DEF Fields, Unused
<1>4. TreeOf(Own(kids), root, {})
  BY <1>1, <1>3, LinkTypes, EmptyTree
<1>5. Around({}, NoParts) = {} /\ Parted(kids, root, ends, {}, NoParts)
  BY <1>1, <1>3, <1>4, AloneParted
<1>6. Placed({}, NoParts) /\ Asked({}, {}) /\ Kept(kids, tmp, {}, {})
  BY <1>1 DEF Placed, Asked, Kept
<1>7. Beyond(NoParts)
  BY DEF Beyond, NoParts
<1>8. State({}, NoParts, {})
  BY <1>3, <1>5, <1>6, <1>7 DEF State
<1> QED BY <1>5, <1>8 DEF Holds

-----------------------------------------------------------------------------
(***************************************************************************)
(* The invariant holds, and the properties follow.                         *)
(***************************************************************************)
\* Every step keeps what is known of the tree.
LEMMA NextHolds ==
  ASSUME NEW S, Holds(S), Next
  PROVE  \E R : Holds(R)'
<1> PICK x : x = elm
  OBVIOUS
<1>1. CASE Call
  BY <1>1, CallHolds
<1>2. CASE Empty
  BY <1>2, EmptyHolds
<1>3. CASE Stop
  BY <1>3, StopHolds
<1>4. CASE StepDown
  BY <1>4, StepDownHolds
<1>5. CASE RotateDown
  BY <1>5, RotateDownHolds
<1>6. CASE Assemble
  BY <1>6, AssembleHolds
<1>7. CASE FindEnd
  BY <1>7, FindEndHolds
<1>8. CASE InsertEnd
  BY <1>8, InsertEndHolds
<1>9. CASE RemoveAbsent
  BY <1>9, RemoveAbsentHolds
<1>10. CASE RemoveRoot
  BY <1>10, RemoveRootHolds
<1>11. CASE RemoveAgain
  BY <1>11, RemoveAgainHolds
<1>12. CASE RemoveEnd
  BY <1>12, RemoveEndHolds
<1>13. CASE NextEnd
  BY <1>13, NextEndHolds
<1>14. CASE Seek
  BY <1>14, SeekHolds
<1> QED BY <1>1, <1>2, <1>3, <1>4, <1>5, <1>6, <1>7, <1>8, <1>9, <1>10, <1>11, <1>12, <1>13, <1>14
        DEF Next, Step

\* A step in which nothing happens.
LEMMA StutterHolds ==
  ASSUME NEW S, Holds(S), UNCHANGED vars
  PROVE  Holds(S)'
<1>1. PICK M, P, T : State(M, P, T) /\ S = Around(M, P) \cup T
  BY DEF Holds
<1>2. /\ root' = root /\ kids' = kids /\ ends' = ends /\ pc' = pc /\ op' = op /\ elm' = elm
      /\ tmp' = tmp /\ result' = result
  BY DEF vars
<1>3. Parted(kids', root', ends', M, P) /\ Kept(kids', tmp', T, Around(M, P)) /\ Unused(kids', Around(M, P) \cup T)
  BY <1>1, <1>2 DEF State
<1>4. Beyond(P)'
  BY <1>1, <1>2, TowardStays DEF State, Beyond
<1>5. Placed(M, P)'
  <2>1. Placed(M, P)
    BY <1>1 DEF State
  <2>2. Toward(root)' = Toward(root)
    BY <1>2, TowardStays
  <2>3. Closest(M) => Closest(M)'
    BY <1>2, TowardStays DEF Closest
  <2>4. SeekIn(M) => SeekIn(M)'
    BY <1>2 DEF SeekIn
  <2> QED BY <1>2, <2>1, <2>2, <2>3, <2>4 DEF Placed
<1>6. Asked(Around(M, P), T)'
  BY <1>1, <1>2 DEF State, Asked
<1>7. State(M, P, T)'
  BY <1>3, <1>4, <1>5, <1>6 DEF State
<1> QED BY <1>1, <1>7 DEF Holds

\* In every state the tree is whole, or taken apart on the way down so that it can
\* be put together again.
THEOREM InvariantHolds == Spec => []IndInv
<1>1. Init => IndInv
  BY InitHolds DEF IndInv
<1>2. IndInv /\ [Next]_vars => IndInv'
  <2> SUFFICES ASSUME IndInv, [Next]_vars PROVE IndInv'
    OBVIOUS
  <2>1. PICK S : Holds(S)
    BY DEF IndInv
  <2>2. CASE Next
    <3>1. \E R : Holds(R)'
      BY <2>1, <2>2, NextHolds
    <3> QED BY <3>1 DEF IndInv
  <2>3. CASE UNCHANGED vars
    <3>1. Holds(S)'
      BY <2>1, <2>3, StutterHolds
    <3> QED BY <3>1 DEF IndInv
  <2> QED BY <2>2, <2>3
<1> QED BY <1>1, <1>2, PTL DEF Spec

\* The smallest and the largest of a set of numbers.
LEMMA Extremes ==
  ASSUME NEW Z, Z \subseteq Nat, NEW m \in Z
  PROVE  /\ (\A y \in Z : m <= y) => Min(Z) = m
         /\ (\A y \in Z : y <= m) => Max(Z) = m
<1>1. ASSUME \A y \in Z : m <= y PROVE Min(Z) = m
  <2>1. Min(Z) = CHOOSE x \in Z : \A y \in Z : x <= y
    BY DEF Min
  <2>2. \A z \in Z : (\A y \in Z : z <= y) => z = m
    BY <1>1
  <2> QED BY <1>1, <2>1, <2>2
<1>2. ASSUME \A y \in Z : y <= m PROVE Max(Z) = m
  <2>1. Max(Z) = CHOOSE x \in Z : \A y \in Z : x >= y
    BY DEF Max
  <2>2. \A z \in Z : (\A y \in Z : z >= y) => z = m
    BY <1>2
  <2> QED BY <1>2, <2>1, <2>2
<1> QED BY <1>1, <1>2

\* On the way down the two parts are to the two sides of what is still below the
\* root, and __left and __right are their innermost elements.
THEOREM ApartCorrect == Spec => []Apart
<1>1. IndInv => Apart
  <2> SUFFICES ASSUME IndInv, pc \in {"splay", "assemble"}, NEW s \in Sides
               PROVE  /\ \A x \in Reachable({root}, kids), y \in Hung(s) : IF s = "left" THEN y < x ELSE x < y
                      /\ IF Hung(s) = {} THEN ends[s] = NODE
                         ELSE ends[s] = IF s = "left" THEN Max(Hung(s)) ELSE Min(Hung(s))
    BY DEF Apart
  <2>1. PICK M, P, T : State(M, P, T)
    BY DEF IndInv, Holds
  <2>2. /\ kids \in Fields /\ TreeOf(Own(kids), root, M) /\ HangsAt(kids, ends, M, P, s)
        /\ P[s] \subseteq Elements /\ P[s] \subseteq Nat
    BY <2>1, StateTypes, NoNull DEF State, Parted
  <2>3. Reachable({root}, kids) = M
    BY <2>2, RootReached
  <2>4. Hung(s) = P[s]
    <3>1. Reachable({kids[NODE][Other(s)]}, Cut(kids, ends)) = P[s]
      BY <2>2, TreeReached DEF HangsAt
    <3> QED BY <3>1 DEF Hung, Cut
  <2>5. \A x \in M, y \in P[s] : IF s = "left" THEN y < x ELSE x < y
    BY <2>2 DEF HangsAt, On
  <2>6. P[s] = {} => ends[s] = NODE
    BY <2>2 DEF HangsAt
  <2>7. ASSUME P[s] # {} PROVE ends[s] = IF s = "left" THEN Max(P[s]) ELSE Min(P[s])
    <3>1. ends[s] \in P[s] /\ \A y \in P[s] : y # ends[s] => On(s, y, ends[s])
      BY <2>2, <2>7 DEF HangsAt
    <3>2. ends[s] \in Nat /\ \A y \in P[s] : y \in Nat
      BY <2>2, <3>1
    <3>3. CASE s = "left"
      <4>1. \A y \in P[s] : y <= ends[s]
        BY <3>1, <3>2, <3>3 DEF On
      <4> QED BY <2>2, <3>1, <3>3, <4>1, Extremes
    <3>4. CASE s = "right"
      <4>1. \A y \in P[s] : ends[s] <= y
        BY <3>1, <3>2, <3>4 DEF On
      <4> QED BY <2>2, <3>1, <3>4, <4>1, Extremes
    <3> QED BY <3>3, <3>4 DEF Sides
  <2> QED BY <2>3, <2>4, <2>5, <2>6, <2>7
<1> QED BY <1>1, InvariantHolds, PTL

\* SPLAY brings to the root what is searched or what is next to it, and the smallest
\* or the largest element.
THEOREM ClosestAtRootCorrect == Spec => []ClosestAtRoot
<1>1. IndInv => ClosestAtRoot
  <2> SUFFICES ASSUME IndInv, pc = "splayed"
               PROVE  CASE op = "min" -> \A x \in InTree : root <= x
                        [] op = "max" -> \A x \in InTree : x <= root
                        [] op = "removed" -> \A x \in Reachable({root}, kids) : x <= root
                        [] OTHER -> ~ \E x \in InTree : (root < x /\ x <= elm) \/ (elm <= x /\ x < root)
    BY DEF ClosestAtRoot
  <2>1. PICK S : Holds(S)
    BY DEF IndInv
  <2>2. PICK M, P, T : State(M, P, T) /\ S = Around(M, P) \cup T
    BY <2>1 DEF Holds
  <2>3. /\ kids \in Fields /\ TreeOf(Own(kids), root, M) /\ M \subseteq Elements /\ M \subseteq Nat
        /\ root \in M /\ root \in Elements /\ elm \in Slots /\ elm \in Nat /\ Closest(M)
        /\ Around(M, P) = M
    <3>1. root # NULL /\ Closest(M)
      BY <2>2 DEF State, Placed
    <3>2. elm \in Slots /\ Slots \subseteq Nat
      BY <2>2, StateTypes, NoNull DEF Slots, NULL
    <3> QED BY <2>2, <3>1, <3>2, StateTypes, OneTree
  <2>4. Reachable({root}, kids) = M
    BY <2>3, RootReached
  <2>5. op # "removed" => InTree = M
    <3> SUFFICES ASSUME op # "removed" PROVE InTree = M
      OBVIOUS
    <3>1. T = {}
      BY <2>2 DEF State, Asked
    <3> QED BY <2>1, <2>2, <2>3, <3>1, InTreeIs
  <2>6. \A s \in Sides, x \in M : Toward(root) = s /\ On(s, x, root) => Toward(x) = Other(s)
    BY <2>3 DEF Closest
  <2>7. \A x \in M : x \in Nat /\ root \in Nat /\ x \in Elements
    BY <2>3
  <2>8. "left" \in Sides /\ "right" \in Sides /\ Other("left") = "right" /\ Other("right") = "left"
    BY DEF Sides, Other
  <2>9. ASSUME op = "min", NEW x \in M PROVE root <= x
    <3>1. Toward(root) = "left" /\ Toward(x) = "left"
      BY <2>3, <2>7, <2>9, TowardIs
    <3>2. ~On("left", x, root)
      BY <2>6, <2>8, <3>1
    <3> QED BY <2>7, <3>2 DEF On
  <2>10. ASSUME op = "max", NEW x \in M PROVE x <= root
    <3>1. Toward(root) = "right" /\ Toward(x) = "right"
      BY <2>3, <2>7, <2>10, TowardIs
    <3>2. ~On("right", x, root)
      BY <2>6, <2>8, <3>1
    <3> QED BY <2>7, <3>2 DEF On
  <2>11. ASSUME op = "removed", NEW x \in M PROVE x <= root
    <3>1. x < elm /\ root < elm
      BY <2>2, <2>3, <2>11 DEF State, Asked
    <3>2. On("right", elm, root) /\ On("right", elm, x)
      BY <3>1 DEF On
    <3>3. Toward(root) = "right" /\ Toward(x) = "right"
      BY <2>3, <2>7, <2>8, <2>11, <3>2, TowardIs
    <3>4. ~On("right", x, root)
      BY <2>6, <2>8, <3>3
    <3> QED BY <2>7, <3>4 DEF On
  <2>12. ASSUME op \notin {"min", "max", "removed"}, NEW x \in M,
                (root < x /\ x <= elm) \/ (elm <= x /\ x < root)
         PROVE  FALSE
    <3>0. \A s \in Sides : /\ Toward(root) = s <=> On(s, elm, root)
                           /\ Toward(x) = s <=> On(s, elm, x)
      BY <2>3, <2>7, <2>12, TowardIs
    <3>1. CASE root < x /\ x <= elm
      <4>1. On("right", elm, root) /\ On("right", x, root) /\ ~On("left", elm, x)
        BY <2>3, <2>7, <3>1 DEF On
      <4> QED BY <2>6, <2>8, <3>0, <4>1
    <3>2. CASE elm <= x /\ x < root
      <4>1. On("left", elm, root) /\ On("left", x, root) /\ ~On("right", elm, x)
        BY <2>3, <2>7, <3>2 DEF On
      <4> QED BY <2>6, <2>8, <3>0, <4>1
    <3> QED BY <2>12, <3>1, <3>2
  <2>13. CASE op = "min"
    BY <2>5, <2>9, <2>13
  <2>14. CASE op = "max"
    BY <2>5, <2>10, <2>14
  <2>15. CASE op = "removed"
    BY <2>4, <2>11, <2>15
  <2>16. CASE op \notin {"min", "max", "removed"}
    BY <2>5, <2>12, <2>16
  <2> QED BY <2>13, <2>14, <2>15, <2>16
<1> QED BY <1>1, InvariantHolds, PTL

-----------------------------------------------------------------------------
(***************************************************************************)
(* The ordered set.                                                        *)
(***************************************************************************)
Request == CASE pc = "idle" -> <<"idle", NULL>>
             [] op = "removed" -> <<"answered", NULL>>
             [] OTHER -> <<op, elm>>

\* The request, by the place of the code.
LEMMA RequestIs ==
  /\ pc = "idle" /\ op = "none" => Request = Set!Idle
  /\ pc # "idle" /\ op = "removed" => Request = Set!Answered
  /\ pc # "idle" /\ op # "removed" => Request = <<op, elm>>
  BY DEF Request, Set!Idle, Set!Answered, Set!NULL, NULL

\* And after a step.
LEMMA RequestNext ==
  /\ pc' = "idle" /\ op' = "none" => Request' = Set!Idle
  /\ pc' # "idle" /\ op' = "removed" => Request' = Set!Answered
  /\ pc' # "idle" /\ op' # "removed" => Request' = <<op', elm'>>
  BY DEF Request, Set!Idle, Set!Answered, Set!NULL, NULL

\* What can be asked.
LEMMA RequestsAre ==
  /\ \A o \in {"insert", "remove", "find", "next"}, x \in Elements : <<o, x>> \in Set!Requests
  /\ \A o \in {"min", "max"} : <<o, NULL>> \in Set!Requests
  BY DEF Set!Requests, Set!Keyed, Set!NULL, NULL

\* A call asks.
LEMMA AskStep ==
  ASSUME pc = "idle", op = "none", pc' # "idle", op' # "removed", <<op', elm'>> \in Set!Requests,
         result' = NULL, InTree' = InTree
  PROVE  Set!Next
<1>1. Request = Set!Idle /\ Request' = <<op', elm'>>
  BY RequestIs, RequestNext
<1>2. Set!Ask
  BY <1>1 DEF Set!Ask, Request, Set!NULL, NULL
<1> QED BY <1>2 DEF Set!Next

\* An answer, and the change to the set with it.
LEMMA RespondStep ==
  ASSUME pc # "idle", op # "removed", <<op, elm>> \in Set!Requests,
         (pc' = "idle" /\ op' = "none") \/ (pc' # "idle" /\ op' = "removed"),
         result' = Set!Answer(op, elm),
         InTree' = CASE op = "insert" -> InTree \cup {elm}
                     [] op = "remove" -> InTree \ {elm}
                     [] OTHER -> InTree
  PROVE  Set!Next
<1>1. Request = <<op, elm>> /\ Request' \in {Set!Answered, Set!Idle}
  BY RequestIs, RequestNext
<1>2. Set!Respond(op, elm)
  BY <1>1 DEF Set!Respond, Request
<1>3. \E r \in Set!Requests : Set!Respond(r[1], r[2])
  <2>1. <<op, elm>>[1] = op /\ <<op, elm>>[2] = elm
    OBVIOUS
  <2> QED BY <1>2, <2>1
<1> QED BY <1>3 DEF Set!Next

\* The call returns from the second half of a removal.
LEMMA ReturnStep ==
  ASSUME pc # "idle", op = "removed", pc' = "idle", op' = "none", result' = result, InTree' = InTree
  PROVE  Set!Next
<1>1. Request = Set!Answered /\ Request' = Set!Idle
  BY RequestIs, RequestNext
<1>2. Set!Return
  BY <1>1 DEF Set!Return, Request
<1> QED BY <1>2 DEF Set!Next

\* A step the caller does not see.
LEMMA SameStep ==
  ASSUME result' = result, InTree' = InTree, pc = "idle" <=> pc' = "idle", op' = op, elm' = elm
  PROVE  UNCHANGED Set!vars
<1>1. Request' = Request
  BY DEF Request
<1> QED BY <1>1 DEF Set!vars, Request

\* What was asked can be asked.
LEMMA Requested ==
  ASSUME NEW S, Holds(S), pc # "idle", op # "removed"
  PROVE  <<op, elm>> \in Set!Requests
<1>1. PICK M, P, T : State(M, P, T)
  BY DEF Holds
<1>2. \/ op \in {"insert", "remove", "find", "next"} /\ elm \in Elements
      \/ op \in {"min", "max"} /\ elm = NULL
  BY <1>1, StateTypes DEF State, Asked
<1> QED BY <1>2, RequestsAre

\* The least and the greatest element of a set.
LEMMA LeastIs ==
  ASSUME NEW Z, Z \subseteq Nat
  PROVE  /\ Z = {} => Set!Least(Z) = NULL /\ Set!Greatest(Z) = NULL
         /\ \A m \in Z : (\A y \in Z : m <= y) => Set!Least(Z) = m
         /\ \A m \in Z : (\A y \in Z : y <= m) => Set!Greatest(Z) = m
<1>1. Z = {} => Set!Least(Z) = NULL /\ Set!Greatest(Z) = NULL
  BY DEF Set!Least, Set!Greatest, Set!NULL, NULL
<1>2. ASSUME NEW m \in Z, \A y \in Z : m <= y PROVE Set!Least(Z) = m
  <2>1. Set!Least(Z) = CHOOSE x \in Z : \A y \in Z : x <= y
    BY <1>2 DEF Set!Least, Set!Min
  <2>2. \A z \in Z : (\A y \in Z : z <= y) => z = m
    BY <1>2
  <2> QED BY <1>2, <2>1, <2>2
<1>3. ASSUME NEW m \in Z, \A y \in Z : y <= m PROVE Set!Greatest(Z) = m
  <2>1. Set!Greatest(Z) = CHOOSE x \in Z : \A y \in Z : x >= y
    BY <1>3 DEF Set!Greatest, Set!Max
  <2>2. \A z \in Z : (\A y \in Z : z >= y) => z = m
    BY <1>3
  <2> QED BY <1>3, <2>1, <2>2
<1> QED BY <1>1, <1>2, <1>3

\* What is searched is in the set or not.
LEMMA FindEndAnswered ==
  ASSUME NEW S, Holds(S), FindEnd
  PROVE  Set!Next
<1>1. Holds(S)' /\ InTree = S /\ InTree' = S
  BY FindEndHolds, InTreeIs, InTreeNext
<1>2. pc = "splayed" /\ op \in {"find", "min", "max"} /\ pc' = "idle" /\ op' = "none"
  BY DEF FindEnd, Return
<1>3. S \subseteq Nat
  BY <1>2, OneTreeHolds
<1>4. result' = Set!Answer(op, elm)
  <2>1. PICK x : x = elm
    OBVIOUS
  <2>2. CASE op = "find"
    <3>1. result' = IF x \in S THEN x ELSE NULL
      BY <2>1, <2>2, FindEndAnswers
    <3> QED BY <1>1, <2>1, <2>2, <3>1 DEF Set!Answer, Set!NULL, NULL
  <2>3. CASE op = "min"
    <3>1. result' \in S /\ \A y \in S : result' <= y
      BY <2>1, <2>3, FindEndAnswers
    <3>2. Set!Least(S) = result'
      BY <1>3, <3>1, LeastIs
    <3> QED BY <1>1, <2>3, <3>2 DEF Set!Answer
  <2>4. CASE op = "max"
    <3>1. result' \in S /\ \A y \in S : y <= result'
      BY <2>1, <2>4, FindEndAnswers
    <3>2. Set!Greatest(S) = result'
      BY <1>3, <3>1, LeastIs
    <3> QED BY <1>1, <2>4, <3>2 DEF Set!Answer
  <2> QED BY <1>2, <2>2, <2>3, <2>4
<1>5. <<op, elm>> \in Set!Requests
  BY <1>2, Requested
<1>6. InTree' = CASE op = "insert" -> InTree \cup {elm}
                  [] op = "remove" -> InTree \ {elm}
                  [] OTHER -> InTree
  BY <1>1, <1>2
<1> QED BY <1>2, <1>4, <1>5, <1>6, RespondStep

\* The element after another.
LEMMA Answered ==
  ASSUME NEW S, S \subseteq Nat, InTree = S, op = "next", NEW x, x = elm, NEW found, Follows(S, x, found)
  PROVE  Set!Answer(op, elm) = found
<1> DEFINE Z == {y \in InTree : y > elm}
<1>1. Z \subseteq Nat
  OBVIOUS
<1>2. CASE found = NULL /\ \A y \in S : ~(x < y)
  <2>1. Z = {}
    BY <1>2
  <2> HIDE DEF Z
  <2>2. Set!Least(Z) = NULL
    BY <1>1, <2>1, LeastIs
  <2> QED BY <1>2, <2>2 DEF Set!Answer, Z
<1>3. CASE found \in S /\ x < found /\ \A y \in S : x < y => found <= y
  <2>1. found \in Z /\ \A y \in Z : found <= y
    BY <1>3
  <2> HIDE DEF Z
  <2>2. Set!Least(Z) = found
    BY <1>1, <2>1, LeastIs
  <2> QED BY <2>2 DEF Set!Answer, Z
<1> QED BY <1>2, <1>3 DEF Follows

\* SPLAY_NEXT answers at its end, or goes on unseen.
LEMMA NextAnswered ==
  ASSUME NEW S, Holds(S), NextEnd \/ Seek
  PROVE  Set!Next \/ UNCHANGED Set!vars
<1> PICK x : x = elm
  OBVIOUS
<1>1. /\ Holds(S)'
      /\ \/ pc' = "idle" /\ Follows(S, x, result')
         \/ pc' = "seek" /\ UNCHANGED <<op, elm, result>>
  BY NextEndHolds, SeekHolds
<1>2. InTree = S /\ InTree' = S
  BY <1>1, InTreeIs, InTreeNext
<1>3. op = "next" /\ pc \in {"splayed", "seek"}
  <2>1. CASE NextEnd
    BY <2>1 DEF NextEnd
  <2>2. CASE Seek
    <3>1. PICK M, P, T : State(M, P, T)
      BY DEF Holds
    <3> QED BY <2>2, <3>1 DEF Seek, State, Placed, SeekIn
  <2> QED BY <2>1, <2>2
<1>4. CASE pc' = "idle" /\ Follows(S, x, result')
  <2>1. S \subseteq Nat
    BY <1>3, OneTreeHolds
  <2>2. result' = Set!Answer(op, elm)
    BY <1>2, <1>3, <1>4, <2>1, Answered
  <2>3. <<op, elm>> \in Set!Requests
    BY <1>3, Requested
  <2>4. InTree' = CASE op = "insert" -> InTree \cup {elm}
                    [] op = "remove" -> InTree \ {elm}
                    [] OTHER -> InTree
    BY <1>2, <1>3
  <2>5. op' = "none"
    BY <1>4 DEF NextEnd, Seek, Return
  <2> QED BY <1>3, <1>4, <2>2, <2>3, <2>4, <2>5, RespondStep
<1>5. CASE pc' = "seek" /\ UNCHANGED <<op, elm, result>>
  BY <1>2, <1>3, <1>5, SameStep
<1> QED BY <1>1, <1>4, <1>5

\* The changes to the set.
LEMMA ChangeAnswered ==
  ASSUME NEW S, Holds(S), InsertEnd \/ RemoveAbsent \/ RemoveRoot \/ RemoveAgain
  PROVE  Set!Next
<1>1. PICK x : x = elm
  OBVIOUS
<1>2. InTree = S
  BY InTreeIs
<1>3. CASE InsertEnd
  <2>1. Holds(S \cup {x})' /\ result' = IF x \in S THEN x ELSE NULL
    BY <1>1, <1>3, InsertEndHolds
  <2>2. InTree' = S \cup {x}
    BY <2>1, InTreeNext
  <2>3. op = "insert" /\ pc = "splayed" /\ pc' = "idle" /\ op' = "none"
    BY <1>3 DEF InsertEnd, Return
  <2>4. result' = Set!Answer(op, elm)
    BY <1>1, <1>2, <2>1, <2>3 DEF Set!Answer, Set!NULL, NULL
  <2>5. <<op, elm>> \in Set!Requests
    BY <2>3, Requested
  <2>6. InTree' = CASE op = "insert" -> InTree \cup {elm}
                    [] op = "remove" -> InTree \ {elm}
                    [] OTHER -> InTree
    BY <1>1, <1>2, <2>2, <2>3
  <2> QED BY <2>3, <2>4, <2>5, <2>6, RespondStep
<1>4. CASE RemoveAbsent \/ RemoveRoot \/ RemoveAgain
  <2>1. /\ op = "remove" /\ pc = "splayed"
        /\ (pc' = "idle" /\ op' = "none") \/ (pc' # "idle" /\ op' = "removed")
    BY <1>4 DEF RemoveAbsent, RemoveRoot, RemoveAgain, Return
  <2>2. /\ InTree' = S \ {x}
        /\ result' = IF x \in S THEN x ELSE NULL
    <3>1. CASE RemoveAbsent
      <4>1. Holds(S)' /\ x \notin S /\ result' = NULL
        BY <1>1, <3>1, RemoveAbsentHolds DEF RemoveAbsent, Return
      <4>2. S \ {x} = S
        BY <4>1
      <4> QED BY <4>1, <4>2, InTreeNext
    <3>2. CASE RemoveRoot \/ RemoveAgain
      <4>1. Holds(S \ {x})' /\ x \in S /\ result' = x
        BY <1>1, <3>2, RemoveRootHolds, RemoveAgainHolds
      <4> QED BY <4>1, InTreeNext
    <3> QED BY <1>4, <3>1, <3>2
  <2>3. result' = Set!Answer(op, elm)
    BY <1>1, <1>2, <2>1, <2>2 DEF Set!Answer, Set!NULL, NULL
  <2>4. <<op, elm>> \in Set!Requests
    BY <2>1, Requested
  <2>5. InTree' = CASE op = "insert" -> InTree \cup {elm}
                    [] op = "remove" -> InTree \ {elm}
                    [] OTHER -> InTree
    BY <1>1, <1>2, <2>1, <2>2
  <2> QED BY <2>1, <2>3, <2>4, <2>5, RespondStep
<1> QED BY <1>3, <1>4

\* The answers when nothing is in the tree.
LEMMA EmptyAnswered ==
  ASSUME NEW S, Holds(S), Empty
  PROVE  Set!Next
<1>1. PICK x : x = elm
  OBVIOUS
<1>2. S = {} /\ result' = NULL /\ (op = "insert" => Holds({x})') /\ (op # "insert" => Holds({})')
  BY <1>1, EmptyHolds
<1>3. InTree = {}
  BY <1>2, InTreeIs
<1>4. InTree' = IF op = "insert" THEN {x} ELSE {}
  BY <1>2, InTreeNext
<1>5. pc = "empty" /\ pc' = "idle" /\ op' = "none" /\ op # "removed"
  <2>1. PICK M, P, T : State(M, P, T)
    BY DEF Holds
  <2> QED BY <2>1 DEF Empty, Return, State, Asked
<1>6. <<op, elm>> \in Set!Requests
  BY <1>5, Requested
<1>7. op \in {"insert", "remove", "find", "next", "min", "max"}
  <2>1. PICK M, P, T : State(M, P, T)
    BY DEF Holds
  <2> QED BY <1>5, <2>1 DEF State, Asked
<1>8. result' = Set!Answer(op, elm)
  <2>1. {y \in InTree : y > elm} = {}
    BY <1>3
  <2>2. Set!Least({}) = NULL /\ Set!Greatest({}) = NULL
    BY LeastIs
  <2>3. CASE op \in {"insert", "remove", "find"}
    BY <1>2, <1>3, <2>3 DEF Set!Answer, Set!NULL, NULL
  <2>4. CASE op = "next"
    BY <1>2, <2>1, <2>2, <2>4 DEF Set!Answer
  <2>5. CASE op = "min" \/ op = "max"
    BY <1>2, <1>3, <2>2, <2>5 DEF Set!Answer
  <2> QED BY <1>7, <2>3, <2>4, <2>5
<1>9. InTree' = CASE op = "insert" -> InTree \cup {elm}
                  [] op = "remove" -> InTree \ {elm}
                  [] OTHER -> InTree
  <2>1. CASE op = "insert"
    BY <1>1, <1>3, <1>4, <2>1
  <2>2. CASE op # "insert"
    BY <1>3, <1>4, <2>2
  <2> QED BY <2>1, <2>2
<1> QED BY <1>5, <1>6, <1>8, <1>9, RespondStep

\* The splay tree is the ordered set its callers see, although every search takes it
\* apart: every step is a call, an answer that is the right one at that point, or
\* invisible.
THEOREM ImplementsCorrect == Spec => Implements
<1>1. Init => Set!Init
  <2> SUFFICES ASSUME Init PROVE Set!Init
    OBVIOUS
  <2>1. InTree = {}
    BY InitHolds, InTreeIs
  <2>2. Request = Set!Idle /\ result = NULL
    BY RequestIs DEF Init
  <2> QED BY <2>1, <2>2 DEF Set!Init, Request, Set!NULL, NULL
<1>2. IndInv /\ [Next]_vars => [Set!Next]_Set!vars
  <2> SUFFICES ASSUME IndInv, [Next]_vars PROVE Set!Next \/ UNCHANGED Set!vars
    OBVIOUS
  <2>1. PICK S : Holds(S)
    BY DEF IndInv
  <2>2. InTree = S
    BY <2>1, InTreeIs
  <2>3. CASE Call
    <3>1. /\ Holds(S)' /\ pc = "idle" /\ pc' # "idle" /\ result' = NULL
          /\ \/ op' \in {"insert", "remove", "find", "next"} /\ elm' \in Elements
             \/ op' \in {"min", "max"} /\ elm' = NULL
      BY <2>1, <2>3, CallHolds
    <3>2. InTree' = InTree
      BY <2>2, <3>1, InTreeNext
    <3>3. <<op', elm'>> \in Set!Requests /\ op' # "removed"
      BY <3>1, RequestsAre
    <3>4. op = "none"
      BY <2>1, <3>1 DEF Holds, State, Asked
    <3> QED BY <3>1, <3>2, <3>3, <3>4, AskStep
  <2>4. CASE Empty
    BY <2>1, <2>4, EmptyAnswered
  <2>5. CASE Stop \/ StepDown \/ RotateDown \/ Assemble
    <3>1. Holds(S)'
      BY <2>1, <2>5, StopHolds, StepDownHolds, RotateDownHolds, AssembleHolds
    <3>2. InTree' = InTree
      BY <2>2, <3>1, InTreeNext
    <3>3. result' = result /\ op' = op /\ elm' = elm /\ pc # "idle" /\ pc' # "idle"
      BY <2>5 DEF Stop, StepDown, LinkDown, RotateDown, Assemble
    <3> QED BY <3>2, <3>3, SameStep
  <2>6. CASE FindEnd
    BY <2>1, <2>6, FindEndAnswered
  <2>7. CASE InsertEnd \/ RemoveAbsent \/ RemoveRoot \/ RemoveAgain
    BY <2>1, <2>7, ChangeAnswered
  <2>8. CASE RemoveEnd
    <3>1. Holds(S)' /\ result' = result
      BY <2>1, <2>8, RemoveEndHolds
    <3>2. InTree' = InTree
      BY <2>2, <3>1, InTreeNext
    <3>3. pc = "splayed" /\ op = "removed" /\ pc' = "idle" /\ op' = "none"
      BY <2>8 DEF RemoveEnd, Return
    <3> QED BY <3>1, <3>2, <3>3, ReturnStep
  <2>9. CASE NextEnd \/ Seek
    BY <2>1, <2>9, NextAnswered
  <2>10. CASE UNCHANGED vars
    <3>1. Holds(S)'
      BY <2>1, <2>10, StutterHolds
    <3>2. InTree' = InTree
      BY <2>2, <3>1, InTreeNext
    <3>3. result' = result /\ op' = op /\ elm' = elm /\ pc' = pc
      BY <2>10 DEF vars
    <3> QED BY <3>2, <3>3, SameStep
  <2> QED BY <2>3, <2>4, <2>5, <2>6, <2>7, <2>8, <2>9, <2>10 DEF Next, Step
<1> QED BY <1>1, <1>2, InvariantHolds, PTL DEF Spec, Implements, Set!Spec

=============================================================================
