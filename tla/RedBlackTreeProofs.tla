------------------------- MODULE RedBlackTreeProofs -------------------------
(***************************************************************************)
(* Proofs that the red-black tree of tree.h is one, for any finite set of  *)
(* elements: that its links stay a search tree, that the colors keep it    *)
(* balanced, and that its callers see an ordered set.  The code names no   *)
(* subtrees and no counts; the invariant says that there are some.         *)
(***************************************************************************)
EXTENDS RedBlackTree, BinaryTreeProofs

-----------------------------------------------------------------------------
(***************************************************************************)
(* What the helpers of the code write to the tree, field by field.         *)
(***************************************************************************)
\* The types of the fields.
Slots == Elements \cup {NULL}
Colors == {"red", "black"}
Entry == [child : [Sides -> Slots], parent : Slots, color : Colors]
Pointers == [root : Slots, node : [Elements -> Entry]]
Color(t, x) == t.node[x].color

\* NULL is not an element.
LEMMA NoNull == NULL \notin Elements /\ Elements \subseteq Nat /\ IsFiniteSet(Elements)
  BY ElementsAssumption

\* What is read from a field has its type.
LEMMA FieldTypes ==
  ASSUME NEW t \in Pointers, NEW x \in Elements
  PROVE  /\ Parent(t, x) \in Slots /\ Color(t, x) \in Colors /\ t.root \in Slots
         /\ \A s \in Sides : Child(t, x, s) \in Slots
         /\ IsRed(t, x) <=> Color(t, x) = "red"
  BY NoNull DEF Pointers, Entry, Parent, Color, Child, IsRed

\* Only one element's entry has changed.
Changed(t, u, x, E) ==
  /\ u \in Pointers /\ u.root = t.root /\ u.node[x] = E
  /\ \A z \in Elements : z # x => u.node[z] = t.node[z]

\* An assignment to one entry changes only that one.
LEMMA ChangeOne ==
  ASSUME NEW t \in Pointers, NEW x \in Elements, NEW E \in Entry
  PROVE  Changed(t, [t EXCEPT !.node = [t.node EXCEPT ![x] = E]], x, E)
<1> DEFINE N == [t.node EXCEPT ![x] = E]
<1>1. N \in [Elements -> Entry] /\ N[x] = E /\ \A z \in Elements : z # x => N[z] = t.node[z]
  BY DEF Pointers
<1> HIDE DEF N
<1> DEFINE u == [t EXCEPT !.node = N]
<1>2. u \in Pointers /\ u.root = t.root /\ u.node = N
  BY <1>1 DEF Pointers
<1> HIDE DEF u
<1>3. Changed(t, u, x, E)
  BY <1>1, <1>2 DEF Changed
<1> QED BY <1>3 DEF u, N

\* The color of x is all that differs.
ColorSet(t, u, x, color) ==
  /\ u \in Pointers /\ u.root = t.root
  /\ \A z \in Elements : /\ Parent(u, z) = Parent(t, z)
                         /\ Color(u, z) = IF z = x THEN color ELSE Color(t, z)
                         /\ \A r \in Sides : Child(u, z, r) = Child(t, z, r)

\* SetColor colors an element; written to NULL it does nothing.
LEMMA SetColorIs ==
  ASSUME NEW t \in Pointers, NEW x \in Slots, NEW color \in Colors
  PROVE  ColorSet(t, SetColor(t, x, color), x, color)
<1> DEFINE u == SetColor(t, x, color)
<1>1. CASE x = NULL
  <2>1. u = t
    BY <1>1 DEF SetColor
  <2> QED BY <1>1, <2>1, NoNull DEF ColorSet
<1>2. CASE x \in Elements
  <2> DEFINE E == [t.node[x] EXCEPT !.color = color]
  <2>1. E \in Entry /\ E.color = color /\ E.parent = t.node[x].parent /\ E.child = t.node[x].child
    BY <1>2 DEF Pointers, Entry
  <2>2. u = [t EXCEPT !.node = [t.node EXCEPT ![x] = E]]
    BY <1>2, NoNull DEF SetColor
  <2> HIDE DEF u, E
  <2>3. Changed(t, u, x, E)
    BY <1>2, <2>1, <2>2, ChangeOne
  <2>4. ColorSet(t, u, x, color)
    BY <1>2, <2>1, <2>3 DEF Changed, ColorSet, Parent, Color, Child
  <2> QED BY <2>4 DEF u
<1> QED BY <1>1, <1>2 DEF Slots

\* The parent of x is all that differs.
ParentSet(t, u, x, p) ==
  /\ u \in Pointers /\ u.root = t.root
  /\ \A z \in Elements : /\ Parent(u, z) = IF z = x THEN p ELSE Parent(t, z)
                         /\ Color(u, z) = Color(t, z)
                         /\ \A r \in Sides : Child(u, z, r) = Child(t, z, r)

\* SetParent links an element to its parent; written to NULL it does nothing.
LEMMA SetParentIs ==
  ASSUME NEW t \in Pointers, NEW x \in Slots, NEW p \in Slots
  PROVE  ParentSet(t, SetParent(t, x, p), x, p)
<1> DEFINE u == SetParent(t, x, p)
<1>1. CASE x = NULL
  <2>1. u = t
    BY <1>1 DEF SetParent
  <2> QED BY <1>1, <2>1, NoNull DEF ParentSet
<1>2. CASE x \in Elements
  <2> DEFINE E == [t.node[x] EXCEPT !.parent = p]
  <2>1. E \in Entry /\ E.color = t.node[x].color /\ E.parent = p /\ E.child = t.node[x].child
    BY <1>2 DEF Pointers, Entry
  <2>2. u = [t EXCEPT !.node = [t.node EXCEPT ![x] = E]]
    BY <1>2, NoNull DEF SetParent
  <2> HIDE DEF u, E
  <2>3. Changed(t, u, x, E)
    BY <1>2, <2>1, <2>2, ChangeOne
  <2>4. ParentSet(t, u, x, p)
    BY <1>2, <2>1, <2>3 DEF Changed, ParentSet, Parent, Color, Child
  <2> QED BY <2>4 DEF u
<1> QED BY <1>1, <1>2 DEF Slots

\* One child of x is all that differs.
ChildSet(t, u, x, s, y) ==
  /\ u \in Pointers /\ u.root = t.root
  /\ \A z \in Elements : /\ Parent(u, z) = Parent(t, z) /\ Color(u, z) = Color(t, z)
                         /\ \A r \in Sides : Child(u, z, r) = IF z = x /\ r = s THEN y ELSE Child(t, z, r)

\* An assignment to RB_LEFT or RB_RIGHT.
LEMMA SetChildIs ==
  ASSUME NEW t \in Pointers, NEW x \in Elements, NEW s \in Sides, NEW y \in Slots
  PROVE  ChildSet(t, [t EXCEPT !.node[x].child[s] = y], x, s, y)
<1> DEFINE u == [t EXCEPT !.node[x].child[s] = y]
           C == [t.node[x].child EXCEPT ![s] = y]
           E == [t.node[x] EXCEPT !.child = C]
<1>1. C \in [Sides -> Slots] /\ C[s] = y /\ \A r \in Sides : r # s => C[r] = t.node[x].child[r]
  BY DEF Pointers, Entry
<1>2. u = [t EXCEPT !.node = [t.node EXCEPT ![x] = E]]
  OBVIOUS
<1> HIDE DEF u, C
<1>3. E \in Entry /\ E.color = t.node[x].color /\ E.parent = t.node[x].parent /\ E.child = C
  BY <1>1 DEF Pointers, Entry
<1> HIDE DEF E
<1>4. Changed(t, u, x, E)
  BY <1>2, <1>3, ChangeOne
<1>5. ChildSet(t, u, x, s, y)
  BY <1>1, <1>3, <1>4 DEF Changed, ChildSet, Parent, Color, Child
<1> QED BY <1>5 DEF u

\* y is where x hung from its parent, or the root.
Replaced(t, u, x, y) ==
  /\ u \in Pointers
  /\ u.root = IF Parent(t, x) = NULL THEN y ELSE t.root
  /\ \A z \in Elements :
       /\ Parent(u, z) = Parent(t, z) /\ Color(u, z) = Color(t, z)
       /\ \A r \in Sides : Child(u, z, r) =
            IF z = Parent(t, x) /\ r = SideOf(t, x, z) THEN y ELSE Child(t, z, r)

\* Replace changes that one link down.
LEMMA ReplaceIs ==
  ASSUME NEW t \in Pointers, NEW x \in Elements, NEW y \in Slots
  PROVE  Replaced(t, Replace(t, x, y), x, y)
<1>1. CASE Parent(t, x) = NULL
  <2> DEFINE u == [t EXCEPT !.root = y]
  <2>1. Replace(t, x, y) = u
    BY <1>1 DEF Replace
  <2>2. u \in Pointers /\ u.root = y /\ u.node = t.node
    BY DEF Pointers
  <2>3. \A z \in Elements : z # Parent(t, x)
    BY <1>1, NoNull
  <2> HIDE DEF u
  <2>4. Replaced(t, u, x, y)
    BY <1>1, <2>2, <2>3 DEF Replaced, Parent, Color, Child
  <2> QED BY <2>1, <2>4
<1>2. CASE Parent(t, x) # NULL
  <2> DEFINE p == Parent(t, x)
             s == SideOf(t, x, p)
             u == [t EXCEPT !.node[p].child[s] = y]
  <2>1. p \in Elements
    BY <1>2, FieldTypes DEF Slots
  <2>2. Replace(t, x, y) = u
    BY <1>2 DEF Replace
  <2>3. s \in Sides
    BY DEF SideOf, Sides
  <2>4. ChildSet(t, u, p, s, y)
    <3> HIDE DEF p, s
    <3> QED BY <2>1, <2>3, SetChildIs
  <2> HIDE DEF u
  <2>5. Replaced(t, u, x, y)
    BY <1>2, <2>4 DEF ChildSet, Replaced
  <2> QED BY <2>2, <2>5
<1> QED BY <1>1, <1>2

\* The element x goes down to side s, y comes up, and what was between the two
\* goes over from y to x.
RotatedTo(t, u, x, s, y) ==
  /\ u \in Pointers
  /\ u.root = IF Parent(t, x) = NULL THEN y ELSE t.root
  /\ \A z \in Elements :
       /\ Color(u, z) = Color(t, z)
       /\ Parent(u, z) = IF z = x THEN y ELSE IF z = y THEN Parent(t, x)
                         ELSE IF z = Child(t, y, s) THEN x ELSE Parent(t, z)
       /\ \A r \in Sides : Child(u, z, r) =
            IF z = x THEN IF r = s THEN Child(t, x, s) ELSE Child(t, y, s)
            ELSE IF z = y THEN IF r = s THEN x ELSE Child(t, y, r)
            ELSE IF z = Parent(t, x) /\ r = SideOf(t, x, z) THEN y ELSE Child(t, z, r)

\* Rotate, RB_ROTATE_LEFT or RIGHT, writes these fields.
LEMMA RotateIs ==
  ASSUME NEW t \in Pointers, NEW x \in Elements, NEW s \in Sides, NEW y \in Elements,
         y = Child(t, x, Other(s)), y # x, Child(t, y, s) \notin {x, y}, Parent(t, x) \notin {x, y}
  PROVE  RotatedTo(t, Rotate(t, x, s), x, s, y)
<1> DEFINE inner == Child(t, y, s)
           p == Parent(t, x)
           o == Other(s)
           t1 == SetParent(t, inner, x)
           t2 == Replace(t1, x, y)
           t3 == SetParent(t2, y, p)
           t4 == [t3 EXCEPT !.node[x].child[o] = inner]
           t5 == SetParent(t4, x, y)
           t6 == [t5 EXCEPT !.node[y].child[s] = x]
<1>0. inner \in Slots /\ p \in Slots /\ o \in Sides /\ x \in Slots /\ y \in Slots
      /\ o # s /\ \A r \in Sides : r = s \/ r = o
  BY FieldTypes DEF Other, Sides, Slots
<1>1. Rotate(t, x, s) = t6
  <2>1. t5 = [t4 EXCEPT !.node[x].parent = y]
    BY NoNull DEF SetParent
  <2>2. Rotate(t, x, s) = Lowered(t3, x, y, s, inner)
    BY DEF Rotate
  <2>3. Lowered(t3, x, y, s, inner) = t6
    <3> HIDE DEF inner, p, o
    <3>1. Lowered(t3, x, y, s, inner)
          = [[[t3 EXCEPT !.node[x].child[o] = inner] EXCEPT !.node[x].parent = y] EXCEPT !.node[y].child[s] = x]
      <4> HIDE DEF t3
      <4> QED BY DEF Lowered, o
    <3> HIDE DEF t3
    <3> QED BY <2>1, <3>1
  <2> QED BY <2>2, <2>3
<1> HIDE DEF inner, p, o
<1>2. ParentSet(t, t1, inner, x)
  BY <1>0, SetParentIs
<1>3. t1 \in Pointers
  BY <1>2 DEF ParentSet
<1> HIDE DEF t1
<1>4. Replaced(t1, t2, x, y)
  BY <1>0, <1>3, ReplaceIs
<1>5. t2 \in Pointers
  BY <1>4 DEF Replaced
<1> HIDE DEF t2
<1>6. ParentSet(t2, t3, y, p)
  BY <1>0, <1>5, SetParentIs
<1>7. t3 \in Pointers
  BY <1>6 DEF ParentSet
<1> HIDE DEF t3
<1>8. ChildSet(t3, t4, x, o, inner)
  BY <1>0, <1>7, SetChildIs
<1>9. t4 \in Pointers
  BY <1>8 DEF ChildSet
<1> HIDE DEF t4
<1>10. ParentSet(t4, t5, x, y)
  BY <1>0, <1>9, SetParentIs
<1>11. t5 \in Pointers
  BY <1>10 DEF ParentSet
<1> HIDE DEF t5
<1>12. ChildSet(t5, t6, y, s, x)
  BY <1>0, <1>11, SetChildIs
<1> HIDE DEF t6
<1>13. inner # x /\ inner # y /\ p # x /\ p # y /\ Child(t, x, o) = y
  BY DEF inner, p, o
<1>14. t6 \in Pointers /\ t6.root = IF p = NULL THEN y ELSE t.root
  <2>1. Parent(t1, x) = p
    BY <1>2, <1>13 DEF ParentSet, p
  <2> QED BY <1>2, <1>4, <1>6, <1>8, <1>10, <1>12, <2>1 DEF ParentSet, ChildSet, Replaced
<1>15. ASSUME NEW z \in Elements
       PROVE  /\ Color(t6, z) = Color(t, z)
              /\ Parent(t6, z) = IF z = x THEN y ELSE IF z = y THEN p
                                 ELSE IF z = inner THEN x ELSE Parent(t, z)
  BY <1>2, <1>4, <1>6, <1>8, <1>10, <1>12 DEF ParentSet, ChildSet, Replaced
<1>16. ASSUME NEW z \in Elements, NEW r \in Sides
       PROVE  Child(t6, z, r) =
                IF z = x THEN IF r = s THEN Child(t, x, s) ELSE inner
                ELSE IF z = y THEN IF r = s THEN x ELSE Child(t, y, r)
                ELSE IF z = p /\ r = SideOf(t, x, z) THEN y ELSE Child(t, z, r)
  <2>1. Parent(t1, x) = p /\ SideOf(t1, x, z) = SideOf(t, x, z)
    BY <1>2, <1>13 DEF ParentSet, p, SideOf, Sides
  <2>2. Child(t2, z, r) = IF z = p /\ r = SideOf(t, x, z) THEN y ELSE Child(t, z, r)
    BY <1>2, <1>4, <2>1 DEF ParentSet, Replaced
  <2>3. Child(t4, z, r) = IF z = x /\ r = o THEN inner ELSE Child(t2, z, r)
    BY <1>6, <1>8 DEF ParentSet, ChildSet
  <2>4. Child(t6, z, r) = IF z = y /\ r = s THEN x ELSE Child(t4, z, r)
    BY <1>10, <1>12 DEF ParentSet, ChildSet
  <2> QED BY <1>0, <1>13, <2>2, <2>3, <2>4
<1>17. RotatedTo(t, t6, x, s, y)
  BY <1>14, <1>15, <1>16 DEF RotatedTo, inner, p
<1> QED BY <1>1, <1>17

-----------------------------------------------------------------------------
(***************************************************************************)
(* The shape of the tree, in the middle of a repair too.                   *)
(***************************************************************************)
\* The links down, as BinaryTree knows them.
KidsOf(t) == [x \in Elements |-> t.node[x].child]

\* What a link of an element of the tree says: subtrees are nested and in order,
\* and the parent points back.
NodeIn(t, D, x) ==
  /\ x \in D[x] /\ D[x] \subseteq D[t.root]
  /\ \A s \in Sides : Child(t, x, s) # NULL => Child(t, x, s) \in D[Child(t, x, s)] /\ Parent(t, Child(t, x, s)) = x
  /\ \A s \in Sides : \A y \in D[Child(t, x, s)] : y \in D[x] /\ On(s, y, x)
  /\ \A y \in D[x] : y # x => y \in D[Child(t, x, SideTo(y, x))]
  /\ x # t.root => Parent(t, x) \in D[t.root] /\ x = Child(t, Parent(t, x), SideTo(x, Parent(t, x)))

\* The links make a search tree in which D[x] are the elements in the subtree of
\* x; what is outside the tree has no subtree.
Shape(t, D) ==
  /\ t \in Pointers /\ D \in [Slots -> SUBSET Elements] /\ D[NULL] = {}
  /\ t.root # NULL => t.root \in D[t.root] /\ Parent(t, t.root) = NULL
  /\ \A x \in Elements \ D[t.root] : D[x] = {}
  /\ \A x \in D[t.root] : NodeIn(t, D, x)

\* The types of a tree and its subtrees.
LEMMA ShapeTypes ==
  ASSUME NEW t, NEW D, Shape(t, D)
  PROVE  /\ t \in Pointers /\ t.root \in Slots /\ D[t.root] \subseteq Elements
         /\ D \in [Slots -> SUBSET Elements]
         /\ Elements \subseteq Nat \ {NULL} /\ D[NULL] = {}
         /\ t.root # NULL => t.root \in D[t.root] /\ t.root \in Elements
<1>1. t.root \in Slots
  BY DEF Shape, Pointers
<1>2. D[t.root] \subseteq Elements
  BY <1>1 DEF Shape
<1> QED BY <1>1, <1>2, NoNull DEF Shape

\* It is a tree in the sense of BinaryTreeProofs.
LEMMA ShapeIsTree ==
  ASSUME NEW t, NEW D, Shape(t, D)
  PROVE  IsTree(Elements, t.root, KidsOf(t), D)
<1>1. /\ t \in Pointers /\ t.root \in Slots /\ D[t.root] \subseteq Elements
      /\ D \in [Slots -> SUBSET Elements] /\ D[NULL] = {}
  BY ShapeTypes
<1>2. KidsOf(t) \in [Elements -> [Sides -> Slots]]
  BY <1>1 DEF Pointers, Entry, KidsOf
<1>3. \A x \in Elements, s \in Sides : KidsOf(t)[x][s] = Child(t, x, s)
  BY DEF KidsOf, Child
<1>4. IsSubtrees(Elements, t.root, KidsOf(t), D)
  <2>1. \A x \in D[t.root], s \in Sides :
          /\ KidsOf(t)[x][s] # NULL => KidsOf(t)[x][s] \in D[KidsOf(t)[x][s]]
          /\ \A y \in D[KidsOf(t)[x][s]] : y \in D[x] /\ On(s, y, x)
    BY <1>1, <1>3 DEF Shape, NodeIn
  <2>2. \A x \in D[t.root] : \A y \in D[x] : y # x => y \in D[KidsOf(t)[x][SideTo(y, x)]]
    <3> SUFFICES ASSUME NEW x \in D[t.root], NEW y \in D[x], y # x
                 PROVE  y \in D[KidsOf(t)[x][SideTo(y, x)]]
      OBVIOUS
    <3>1. SideTo(y, x) \in Sides /\ x \in Elements
      BY <1>1 DEF SideTo, Sides
    <3>2. KidsOf(t)[x][SideTo(y, x)] = Child(t, x, SideTo(y, x))
      BY <1>3, <3>1
    <3> QED BY <3>2 DEF Shape, NodeIn
  <2>3. \A x \in D[t.root] : x \in D[x] /\ D[x] \subseteq D[t.root]
    BY DEF Shape, NodeIn
  <2>4. t.root # NULL => t.root \in D[t.root]
    BY DEF Shape
  <2> HIDE DEF KidsOf
  <2> QED BY <1>1, <2>1, <2>2, <2>3, <2>4 DEF IsSubtrees, Slots
<1> HIDE DEF KidsOf
<1> QED BY <1>1, <1>2, <1>4, ElementsAssumption, NoNull DEF IsTree, Slots

\* What is known of the child of an element at a side.
LEMMA ChildFacts ==
  ASSUME NEW t, NEW D, Shape(t, D), NEW x \in D[t.root], NEW s \in Sides, NEW c, c = Child(t, x, s)
  PROVE  /\ x \in Elements /\ x \in Nat /\ x # NULL /\ x \in D[x] /\ D[x] \subseteq D[t.root]
         /\ c \in Slots /\ c # x /\ D[c] \subseteq D[x] /\ x \notin D[c]
         /\ \A y \in D[c] : On(s, y, x)
         /\ c = NULL => D[c] = {}
         /\ c # NULL => /\ c \in Elements /\ c \in D[t.root] /\ c \in D[c] /\ c \in D[x] /\ On(s, c, x)
                        /\ Parent(t, c) = x /\ c # t.root
                        /\ SideTo(c, x) = s /\ SideOf(t, c, x) = s /\ Child(t, x, Other(s)) # c
<1>1. /\ t \in Pointers /\ t.root \in Slots /\ D[t.root] \subseteq Elements
      /\ D \in [Slots -> SUBSET Elements] /\ D[NULL] = {} /\ Elements \subseteq Nat \ {NULL}
  BY ShapeTypes
<1>2. x \in Elements /\ x \in Nat /\ x # NULL /\ c \in Slots
  BY <1>1, FieldTypes
<1>3. NodeIn(t, D, x)
  BY DEF Shape
<1>4. x \in D[x] /\ D[x] \subseteq D[t.root]
  BY <1>3 DEF NodeIn
<1>5. \A y \in D[c] : y \in D[x] /\ On(s, y, x)
  BY <1>3 DEF NodeIn
<1>6. x \notin D[c]
  <2>1. ~On(s, x, x)
    BY <1>2, OnFacts
  <2> QED BY <1>5, <2>1
<1>7. ASSUME c # NULL
      PROVE  /\ c \in Elements /\ c \in D[t.root] /\ c \in D[c] /\ c \in D[x] /\ On(s, c, x)
             /\ Parent(t, c) = x /\ c # t.root
             /\ SideTo(c, x) = s /\ SideOf(t, c, x) = s /\ Child(t, x, Other(s)) # c
  <2>1. c \in D[c] /\ Parent(t, c) = x
    BY <1>3, <1>7 DEF NodeIn
  <2>2. c \in D[x] /\ On(s, c, x) /\ c \in D[t.root] /\ c \in Elements /\ c \in Nat
    BY <1>1, <1>2, <1>4, <1>5, <1>7, <2>1 DEF Slots
  <2>3. c # t.root
    BY <1>2, <1>7, <2>1 DEF Shape
  <2>4. SideTo(c, x) = s
    BY <1>2, <2>2, OnFacts
  <2>5. \A r \in Sides : Child(t, x, r) = c => r = s
    <3> SUFFICES ASSUME NEW r \in Sides, Child(t, x, r) = c PROVE r = s
      OBVIOUS
    <3>1. On(r, c, x)
      BY <1>3, <2>1 DEF NodeIn
    <3> QED BY <1>2, <2>2, <2>4, <3>1, OnFacts
  <2>6. SideOf(t, c, x) = s /\ Child(t, x, Other(s)) # c
    BY <2>5 DEF SideOf, Sides, Other
  <2> QED BY <2>1, <2>2, <2>3, <2>4, <2>6
<1>8. c # x
  <2>1. CASE c = NULL
    BY <1>2, <2>1
  <2>2. CASE c # NULL
    BY <1>6, <1>7, <2>2
  <2> QED BY <2>1, <2>2
<1>9. c = NULL => D[c] = {}
  BY <1>1
<1>10. D[c] \subseteq D[x]
  BY <1>5
<1>11. \A y \in D[c] : On(s, y, x)
  BY <1>5
<1> QED BY <1>2, <1>4, <1>6, <1>7, <1>8, <1>9, <1>10, <1>11

\* An element that is not the root is a child of its parent.
LEMMA ParentFacts ==
  ASSUME NEW t, NEW D, Shape(t, D), NEW x \in D[t.root], NEW p, p = Parent(t, x)
  PROVE  /\ p = NULL <=> x = t.root
         /\ p # NULL => /\ p \in D[t.root] /\ p \in Elements /\ p # x /\ x \in D[p] /\ p \notin D[x]
                        /\ SideOf(t, x, p) \in Sides /\ x = Child(t, p, SideOf(t, x, p))
                        /\ SideOf(t, x, p) = SideTo(x, p)
                        /\ On(SideTo(x, p), x, p)
<1>1. x \in Elements /\ x # NULL
  BY ShapeTypes
<1>2. x = t.root => p = NULL
  BY <1>1 DEF Shape
<1>3. ASSUME x # t.root
      PROVE  /\ p \in D[t.root] /\ p \in Elements /\ p # NULL /\ p # x /\ x \in D[p] /\ p \notin D[x]
             /\ SideOf(t, x, p) \in Sides /\ x = Child(t, p, SideOf(t, x, p))
             /\ SideOf(t, x, p) = SideTo(x, p)
             /\ On(SideTo(x, p), x, p)
  <2> DEFINE s == SideTo(x, p)
  <2>1. p \in D[t.root] /\ x = Child(t, p, s)
    BY <1>3 DEF Shape, NodeIn
  <2>2. s \in Sides
    BY DEF SideTo, Sides
  <2> HIDE DEF s
  <2>3. /\ p \in Elements /\ p # NULL /\ p # x /\ x \in D[p] /\ p \notin D[x]
        /\ SideOf(t, x, p) = s /\ On(s, x, p)
    BY <1>1, <2>1, <2>2, ChildFacts
  <2> QED BY <2>1, <2>2, <2>3 DEF s
<1> QED BY <1>2, <1>3

\* The subtrees after a rotation.
Turned(t, D, x, s, y) ==
  [D EXCEPT ![y] = D[x], ![x] = {x} \cup D[Child(t, x, s)] \cup D[Child(t, y, s)]]

\* A rotation leaves a search tree of the same elements.
LEMMA RotateShape ==
  ASSUME NEW t, NEW D, Shape(t, D), NEW x \in D[t.root], NEW s \in Sides,
         NEW y, y = Child(t, x, Other(s)), y # NULL,
         NEW u, u = Rotate(t, x, s)
  PROVE  /\ RotatedTo(t, u, x, s, y) /\ Shape(u, Turned(t, D, x, s, y))
         /\ Turned(t, D, x, s, y)[u.root] = D[t.root] /\ u.root # NULL
         /\ x \in Elements /\ y \in Elements /\ y \in D[t.root]
<1> DEFINE F == Turned(t, D, x, s, y)
           P == D[t.root]
           o == Other(s)
           inner == Child(t, y, s)
           outer == Child(t, x, s)
           far == Child(t, y, o)
           p == Parent(t, x)
<1>1. /\ t \in Pointers /\ t.root \in Slots /\ P \subseteq Elements
      /\ D \in [Slots -> SUBSET Elements] /\ D[NULL] = {} /\ Elements \subseteq Nat \ {NULL}
  BY ShapeTypes
<1>2. o \in Sides /\ o # s /\ Other(o) = s /\ \A r \in Sides : r = s \/ r = o
  BY SideFacts
<1>3. /\ x \in Elements /\ x \in Nat /\ x \in D[x] /\ D[x] \subseteq P
      /\ y \in Elements /\ y \in P /\ y \in D[y] /\ y # x /\ D[y] \subseteq D[x] /\ x \notin D[y]
      /\ y \in Nat /\ Parent(t, y) = x /\ y # t.root /\ On(o, y, x) /\ \A w \in D[y] : On(o, w, x)
  BY <1>1, <1>2, ChildFacts
<1>4. /\ outer \in Slots /\ outer # x /\ outer # y /\ D[outer] \subseteq D[x] /\ x \notin D[outer]
      /\ \A w \in D[outer] : On(s, w, x)
  BY <1>2, <1>3, ChildFacts
<1>5. /\ inner \in Slots /\ inner # y /\ D[inner] \subseteq D[y] /\ \A w \in D[inner] : On(s, w, y)
      /\ inner # NULL => inner \in D[inner] /\ Parent(t, inner) = y /\ inner \in P
      /\ far \in Slots /\ far # y /\ D[far] \subseteq D[y] /\ \A w \in D[far] : On(o, w, y)
      /\ far # NULL => far \in D[far] /\ Parent(t, far) = y
  BY <1>2, <1>3, ChildFacts
<1>6. inner # x /\ far # x
  BY <1>1, <1>3, <1>5
<1>7. p \in Slots /\ p # x /\ p # y
  <2>1. p \in Slots /\ p # x
    BY <1>1, <1>3, ParentFacts, FieldTypes
  <2>2. p # y
    <3>1. p # NULL => p \notin D[x]
      BY ParentFacts
    <3> QED BY <1>1, <1>3, <3>1
  <2> QED BY <2>1, <2>2
<1>8. RotatedTo(t, u, x, s, y)
  <2> HIDE DEF P, o
  <2> QED BY <1>1, <1>3, <1>5, <1>6, <1>7, RotateIs DEF o
<1>9. /\ F \in [Slots -> SUBSET Elements] /\ F[NULL] = {}
      /\ F[y] = D[x] /\ F[x] = {x} \cup D[outer] \cup D[inner]
      /\ \A z \in Slots : z # x /\ z # y => F[z] = D[z]
  <2>1. D[x] \subseteq Elements /\ {x} \cup D[outer] \cup D[inner] \subseteq Elements
    BY <1>1, <1>3, <1>4, <1>5
  <2>2. x \in Slots /\ y \in Slots /\ x # NULL /\ y # NULL /\ NULL \in Slots
    BY <1>1, <1>3 DEF Slots
  <2> HIDE DEF outer, inner
  <2> QED BY <1>1, <1>3, <2>1, <2>2 DEF Turned, outer, inner
<1>10. u \in Pointers /\ u.root = IF p = NULL THEN y ELSE t.root
  BY <1>8 DEF RotatedTo
<1>11. F[u.root] = P /\ u.root # NULL
  <2>1. p = NULL <=> x = t.root
    BY ParentFacts
  <2>2. t.root # NULL
    BY <1>1, <1>3
  <2> HIDE DEF F, p
  <2> QED BY <1>1, <1>3, <1>9, <1>10, <2>1, <2>2
<1>12. \A z \in Elements \ P : F[z] = {}
  <2>1. \A z \in Elements \ P : D[z] = {} /\ z # x /\ z # y /\ z \in Slots
    BY <1>3 DEF Shape, Slots
  <2> HIDE DEF P, F
  <2> QED BY <1>9, <2>1
\* What each element of the tree links to.
<1>13. \A r \in Sides : /\ Child(u, x, r) = IF r = s THEN outer ELSE inner
                        /\ Child(u, y, r) = IF r = s THEN x ELSE far
  BY <1>2, <1>3, <1>8 DEF RotatedTo
<1>14. Parent(u, x) = y /\ Parent(u, y) = p
  BY <1>3, <1>8 DEF RotatedTo
<1>15. ASSUME NEW z \in P, z # x, z # y, NEW r \in Sides
       PROVE  Child(u, z, r) = IF Child(t, z, r) = x THEN y ELSE Child(t, z, r)
  <2>1. z \in Elements /\ z # NULL
    BY <1>1
  <2>2. Child(u, z, r) = IF z = p /\ r = SideOf(t, x, z) THEN y ELSE Child(t, z, r)
    BY <1>8, <1>15, <2>1 DEF RotatedTo
  <2>3. Child(t, z, r) = x => z = p /\ r = SideOf(t, x, z)
    BY <1>1, <1>3, ChildFacts
  <2>4. z = p => Child(t, z, SideOf(t, x, z)) = x
    BY <2>1, ParentFacts
  <2> HIDE DEF p, P
  <2> QED BY <2>2, <2>3, <2>4
<1>16. ASSUME NEW z \in Elements, z # x, z # y
       PROVE  Parent(u, z) = IF z = inner THEN x ELSE Parent(t, z)
  BY <1>8, <1>16 DEF RotatedTo
<1> HIDE DEF F
<1>17. NodeIn(u, F, x)
  <2>1. x \in F[x] /\ F[x] \subseteq P
    BY <1>3, <1>4, <1>5, <1>9
  <2>2. ASSUME NEW r \in Sides, Child(u, x, r) # NULL
        PROVE  Child(u, x, r) \in F[Child(u, x, r)] /\ Parent(u, Child(u, x, r)) = x
    <3>1. CASE r = s
      <4>1. Child(u, x, r) = outer /\ outer # NULL /\ outer # x /\ outer # y
        BY <1>4, <1>13, <2>2, <3>1
      <4>2. outer \in D[outer] /\ Parent(t, outer) = x /\ outer \in Elements
        BY <4>1, ChildFacts
      <4> HIDE DEF outer
      <4>3. F[outer] = D[outer]
        BY <1>4, <1>9, <4>1
      <4>4. Parent(u, outer) = x
        BY <1>16, <4>1, <4>2
      <4> QED BY <4>1, <4>2, <4>3, <4>4
    <3>2. CASE r # s
      <4>1. Child(u, x, r) = inner /\ inner # NULL
        BY <1>13, <2>2, <3>2
      <4> HIDE DEF inner
      <4>2. inner \in Elements /\ F[inner] = D[inner]
        BY <1>1, <1>5, <1>6, <1>9, <4>1 
      <4>3. Parent(u, inner) = x
        BY <1>5, <1>6, <1>16, <4>2
      <4> QED BY <1>5, <4>1, <4>2, <4>3
    <3> QED BY <3>1, <3>2
  <2>3. ASSUME NEW r \in Sides, NEW w \in F[Child(u, x, r)]
        PROVE  w \in F[x] /\ On(r, w, x)
    <3> HIDE DEF outer, inner
    <3>1. CASE r = s
      <4>1. w \in D[outer]
        BY <1>4, <1>9, <1>13, <2>3, <3>1
      <4> QED BY <1>4, <1>9, <3>1, <4>1
    <3>2. CASE r # s
      <4>1. w \in D[inner] /\ r = o
        BY <1>2, <1>5, <1>6, <1>9, <1>13, <2>3, <3>2
      <4> QED BY <1>3, <1>5, <1>9, <4>1
    <3> QED BY <3>1, <3>2
  <2>4. ASSUME NEW w \in F[x], w # x
        PROVE  w \in F[Child(u, x, SideTo(w, x))]
    <3> HIDE DEF outer, inner
    <3>0. w \in Nat
      BY <1>1, <2>1
    <3>1. CASE w \in D[outer]
      <4>1. SideTo(w, x) = s
        BY <1>3, <1>4, <3>0, <3>1, OnFacts
      <4> QED BY <1>4, <1>9, <1>13, <3>1, <4>1
    <3>2. CASE w \in D[inner]
      <4>1. SideTo(w, x) = o
        BY <1>2, <1>3, <1>5, <3>0, <3>2, OnFacts
      <4> QED BY <1>2, <1>5, <1>6, <1>9, <1>13, <3>2, <4>1
    <3> QED BY <1>9, <2>4, <3>1, <3>2
  <2>5. Parent(u, x) \in P /\ x = Child(u, Parent(u, x), SideTo(x, Parent(u, x)))
    <3>1. SideTo(x, y) = s
      BY <1>2, <1>3, OnFacts
    <3> QED BY <1>2, <1>3, <1>13, <1>14, <3>1
  <2> QED BY <1>11, <2>1, <2>2, <2>3, <2>4, <2>5 DEF NodeIn
<1>18. NodeIn(u, F, y)
  <2>1. y \in F[y] /\ F[y] \subseteq P
    BY <1>3, <1>9
  <2>2. ASSUME NEW r \in Sides, Child(u, y, r) # NULL
        PROVE  Child(u, y, r) \in F[Child(u, y, r)] /\ Parent(u, Child(u, y, r)) = y
    <3>1. CASE r = s
      BY <1>9, <1>13, <1>14, <3>1
    <3>2. CASE r # s
      <4>1. Child(u, y, r) = far /\ far # NULL
        BY <1>13, <2>2, <3>2
      <4>2. far # inner
        <5>1. far \in D[far] /\ far \in Nat /\ far \in Elements
          BY <1>1, <1>5, <4>1 DEF Slots
        <5>2. On(o, far, y)
          BY <1>5, <5>1
        <5>3. ~ On(s, far, y)
          BY <1>2, <1>3, <5>1, <5>2, OnFacts
        <5> HIDE DEF far, inner
        <5> QED BY <1>5, <5>1, <5>3
      <4> HIDE DEF far, inner
      <4>3. far \in Elements /\ F[far] = D[far]
        BY <1>5, <1>6, <1>9, <4>1 DEF Slots
      <4>4. Parent(u, far) = y
        BY <1>5, <1>6, <1>16, <4>1, <4>2, <4>3
      <4> QED BY <1>5, <4>1, <4>3, <4>4
    <3> QED BY <3>1, <3>2
  <2>3. ASSUME NEW r \in Sides, NEW w \in F[Child(u, y, r)]
        PROVE  w \in F[y] /\ On(r, w, y)
    <3> HIDE DEF far, outer, inner
    <3>1. CASE r = s
      <4>1. w \in F[x] /\ w \in Nat
        <5>1. w \in F[x]
          BY <1>13, <2>3, <3>1
        <5>2. F[x] \subseteq Elements
          BY <1>3, <1>9 DEF Slots
        <5> QED BY <1>1, <5>1, <5>2
      <4>2. On(s, x, y)
        BY <1>2, <1>3, OnFacts
      <4>3. w \in D[x]
        BY <1>3, <1>4, <1>5, <1>9, <4>1
      <4>4. On(s, w, y)
        <5>1. CASE w = x
          BY <4>2, <5>1
        <5>2. CASE w \in D[outer]
          <6>1. On(s, w, x)
            BY <1>4, <5>2
          <6> QED BY <1>3, <4>1, <4>2, <6>1, OnTransitive
        <5>3. CASE w \in D[inner]
          BY <1>5, <5>3
        <5> QED BY <1>9, <4>1, <5>1, <5>2, <5>3
      <4> QED BY <1>9, <3>1, <4>3, <4>4
    <3>2. CASE r # s
      <4>1. w \in D[far] /\ r = o
        BY <1>2, <1>5, <1>6, <1>9, <1>13, <2>3, <3>2
      <4> QED BY <1>3, <1>5, <1>9, <4>1
    <3> QED BY <3>1, <3>2
  <2>4. ASSUME NEW w \in F[y], w # y
        PROVE  w \in F[Child(u, y, SideTo(w, y))]
    <3>0. w \in D[x] /\ w \in Nat
      BY <1>1, <1>3, <1>9, <2>4
    <3>1. CASE w = x
      <4>1. SideTo(x, y) = s
        BY <1>2, <1>3, OnFacts
      <4> QED BY <1>2, <1>9, <1>13, <3>1, <4>1
    <3>2. CASE w # x
      <4>1. NodeIn(t, D, x) /\ NodeIn(t, D, y)
        BY <1>3 DEF Shape
      <4>2. SideTo(w, x) \in {s, o}
        BY <1>2, <1>3, <3>0, OnFacts
      <4>3. w \in D[outer] \/ w \in D[y]
        BY <3>0, <3>2, <4>1, <4>2 DEF NodeIn
      <4>4. CASE w \in D[outer]
        <5>1. On(s, w, x) /\ On(s, x, y)
          BY <1>2, <1>3, <1>4, <4>4, OnFacts
        <5>2. SideTo(w, y) = s
          BY <1>3, <3>0, <5>1, OnTransitive, OnFacts
        <5> HIDE DEF outer, inner
        <5> QED BY <1>2, <1>9, <1>13, <4>4, <5>2
      <4>5. CASE w \in D[y]
        <5>1. w \in D[Child(t, y, SideTo(w, y))] /\ SideTo(w, y) \in {s, o}
          BY <1>2, <1>3, <2>4, <3>0, <4>1, <4>5, OnFacts DEF NodeIn
        <5>2. CASE SideTo(w, y) = s
          <6>1. w \in D[inner]
            BY <5>1, <5>2
          <6> HIDE DEF inner, outer
          <6> QED BY <1>2, <1>9, <1>13, <5>2, <6>1
        <5>3. CASE SideTo(w, y) = o
          <6>1. w \in D[far]
            BY <5>1, <5>3
          <6> HIDE DEF far
          <6> QED BY <1>2, <1>5, <1>6, <1>9, <1>13, <5>3, <6>1
        <5> QED BY <5>1, <5>2, <5>3
      <4> QED BY <4>3, <4>4, <4>5
    <3> QED BY <3>1, <3>2
  <2>5. ASSUME y # u.root
        PROVE  Parent(u, y) \in P /\ y = Child(u, Parent(u, y), SideTo(y, Parent(u, y)))
    <3>1. p # NULL
      BY <1>10, <2>5
    <3>2. /\ p \in P /\ p \in Elements /\ p \in Nat /\ p \notin D[x] /\ x \in D[p]
          /\ SideTo(x, p) \in Sides /\ x = Child(t, p, SideTo(x, p))
      <4>1. /\ p \in P /\ p \in Elements /\ p \notin D[x] /\ x \in D[p]
            /\ SideOf(t, x, p) \in Sides /\ x = Child(t, p, SideOf(t, x, p))
            /\ SideOf(t, x, p) = SideTo(x, p)
        BY <3>1, ParentFacts
      <4> HIDE DEF p, P
      <4> QED BY <1>1, <4>1
    <3>3. Child(u, p, SideTo(x, p)) = y
      BY <1>7, <1>15, <3>2
    <3>4. SideTo(y, p) = SideTo(x, p)
      <4>1. y \in D[Child(t, p, SideTo(x, p))]
        BY <1>3, <3>2
      <4>2. On(SideTo(x, p), y, p)
        BY <3>2, <4>1, ChildFacts
      <4> QED BY <1>3, <3>2, <4>2, OnFacts
    <3> QED BY <1>14, <3>2, <3>3, <3>4
  <2> QED BY <1>11, <2>1, <2>2, <2>3, <2>4, <2>5 DEF NodeIn
<1>19. ASSUME NEW z \in P, z # x, z # y
       PROVE  NodeIn(u, F, z)
  <2>0. z \in Elements /\ z \in Nat /\ F[z] = D[z] /\ NodeIn(t, D, z)
    BY <1>1, <1>9, <1>19 DEF Slots, Shape
  <2>1. z \in F[z] /\ F[z] \subseteq P
    BY <2>0 DEF NodeIn
  <2>2. ASSUME NEW r \in Sides
        PROVE  /\ Child(t, z, r) # y /\ F[Child(u, z, r)] = D[Child(t, z, r)]
               /\ Child(u, z, r) # NULL => Child(u, z, r) \in F[Child(u, z, r)] /\ Parent(u, Child(u, z, r)) = z
    <3> DEFINE c == Child(t, z, r)
    <3>1. c \in Slots /\ (c # NULL => c \in Elements /\ c \in D[c] /\ Parent(t, c) = z)
      BY ChildFacts
    <3>2. c # y /\ (c = inner => c = NULL)
      <4> HIDE DEF c, inner
      <4> QED BY <1>3, <1>5, <1>19, <3>1, <1>1
    <3>3. Child(u, z, r) = IF c = x THEN y ELSE c
      BY <1>15, <1>19
    <3> HIDE DEF c, inner
    <3>4. CASE c = x
      <4>1. Child(u, z, r) = y /\ F[y] = D[x] /\ y \in D[x]
        BY <1>3, <1>9, <3>3, <3>4
      <4>2. Parent(u, y) = z
        BY <1>1, <1>3, <1>14, <3>1, <3>4
      <4> QED BY <1>1, <1>3, <3>2, <3>4, <4>1, <4>2 DEF c
    <3>5. CASE c # x
      <4>1. Child(u, z, r) = c /\ F[c] = D[c]
        BY <1>9, <3>1, <3>2, <3>3, <3>5
      <4>2. c # NULL => Parent(u, c) = z
        BY <1>16, <3>1, <3>2, <3>5
      <4> QED BY <3>1, <3>2, <4>1, <4>2 DEF c
    <3> QED BY <3>4, <3>5
  <2>3. ASSUME NEW r \in Sides, NEW w \in F[Child(u, z, r)]
        PROVE  w \in F[z] /\ On(r, w, z)
    BY <2>0, <2>2, <2>3 DEF NodeIn
  <2>4. ASSUME NEW w \in F[z], w # z
        PROVE  w \in F[Child(u, z, SideTo(w, z))]
    <3>1. SideTo(w, z) \in Sides
      BY DEF SideTo, Sides
    <3> QED BY <2>0, <2>2, <2>4, <3>1 DEF NodeIn
  <2>5. ASSUME z # u.root
        PROVE  Parent(u, z) \in P /\ z = Child(u, Parent(u, z), SideTo(z, Parent(u, z)))
    <3>1. z # t.root
      BY <1>10, <1>19, <2>5, ParentFacts
    <3> DEFINE q == Parent(t, z)
    <3>2. /\ q \in P /\ SideTo(z, q) \in Sides /\ z = Child(t, q, SideTo(z, q)) /\ q \in Elements
          /\ z \in D[q]
      BY <3>1, ParentFacts
    <3> HIDE DEF q
    <3>3. CASE q = x
      <4>1. z = outer
        <5>1. SideTo(z, q) = s \/ SideTo(z, q) = o
          BY <1>2, <3>2
        <5> QED BY <1>19, <3>2, <3>3, <5>1
      <4>2. z # inner
        <5>1. inner # NULL => Parent(t, inner) = y
          BY <1>5
        <5> QED BY <1>1, <1>3, <2>0, <3>3, <5>1 DEF q
      <4>3. Parent(u, z) = x
        BY <1>16, <1>19, <2>0, <3>3, <4>2 DEF q
      <4>4. SideTo(z, x) = s
        <5>1. On(s, z, x)
          BY <1>4, <2>0, <4>1 DEF NodeIn
        <5> QED BY <1>3, <2>0, <5>1, OnFacts
      <4> QED BY <1>2, <1>3, <1>13, <4>1, <4>3, <4>4
    <3>4. CASE q = y
      <4>0. On(SideTo(z, y), z, y)
        BY <3>1, <3>4, ParentFacts DEF q
      <4>1. CASE SideTo(z, y) = s
        <5>1. z = inner
          BY <3>2, <3>4, <4>1
        <5>2. Parent(u, z) = x
          BY <1>16, <1>19, <2>0, <5>1
        <5>3. SideTo(z, x) = o
          <6>1. On(o, z, x)
            BY <1>3, <3>2, <3>4
          <6> QED BY <1>2, <1>3, <2>0, <6>1, OnFacts
        <5> QED BY <1>2, <1>3, <1>13, <5>1, <5>2, <5>3
      <4>2. CASE SideTo(z, y) = o
        <5>1. z = far /\ z # NULL
          BY <1>1, <2>0, <3>2, <3>4, <4>2
        <5>2. z # inner
          <6>1. z \in D[z] /\ ~On(s, z, y)
            BY <1>2, <1>3, <2>0, <4>0, <4>2, OnFacts DEF NodeIn
          <6> QED BY <1>5, <6>1
        <5>3. Parent(u, z) = y
          BY <1>16, <1>19, <2>0, <3>4, <5>2 DEF q
        <5> QED BY <1>2, <1>3, <1>13, <4>2, <5>1, <5>3
      <4> QED BY <1>2, <3>2, <3>4, <4>1, <4>2
    <3>5. CASE q # x /\ q # y
      <4>1. z # inner
        <5>1. inner # NULL => Parent(t, inner) = y
          BY <1>5
        <5> QED BY <1>1, <2>0, <3>5, <5>1 DEF q
      <4>2. Parent(u, z) = q
        BY <1>16, <1>19, <2>0, <4>1 DEF q
      <4>3. Child(u, q, SideTo(z, q)) = z
        BY <1>15, <1>19, <3>2, <3>5
      <4> QED BY <3>2, <4>2, <4>3
    <3> QED BY <3>3, <3>4, <3>5
  <2> QED BY <1>11, <2>1, <2>2, <2>3, <2>4, <2>5 DEF NodeIn
<1>20. \A z \in P : NodeIn(u, F, z)
  BY <1>17, <1>18, <1>19
<1>21. u.root # NULL => u.root \in P /\ Parent(u, u.root) = NULL
  <2>1. CASE p = NULL
    BY <1>3, <1>10, <1>14, <2>1
  <2>2. CASE p # NULL
    <3>1. u.root = t.root /\ t.root # x /\ t.root # NULL
      BY <1>10, <1>11, <2>2, ParentFacts
    <3>2. t.root \in P /\ Parent(t, t.root) = NULL /\ t.root # y /\ t.root \in Elements
      BY <1>1, <1>3, <3>1 DEF Shape
    <3>3. t.root # inner
      BY <1>5, <1>1, <1>3, <3>1, <3>2
    <3> QED BY <1>16, <3>1, <3>2, <3>3
  <2> QED BY <2>1, <2>2
<1>22. Shape(u, F)
  <2> HIDE DEF P
  <2> QED BY <1>9, <1>10, <1>11, <1>12, <1>20, <1>21 DEF Shape
<1> QED BY <1>3, <1>8, <1>11, <1>22 DEF F

\* Where the parent of an element hangs.
LEMMA ParentBelow ==
  ASSUME NEW t, NEW D, Shape(t, D), NEW c \in D[t.root], NEW x \in D[c], x # c
  PROVE  Parent(t, x) \in D[c]
<1>1. /\ t \in Pointers /\ t.root \in Slots /\ D[t.root] \subseteq Elements
      /\ Elements \subseteq Nat \ {NULL}
  BY ShapeTypes
<1>2. c \in D[c] /\ D[c] \subseteq D[t.root]
  BY DEF Shape, NodeIn
<1> DEFINE S == {v \in D[c] : x \in D[v] /\ v # x}
           K == KidsOf(t)
<1>3. IsTree(Elements, t.root, K, D)
  BY ShapeIsTree
<1>4. \A v \in Elements, s \in Sides : K[v][s] = Child(t, v, s)
  BY DEF KidsOf, Child
<1> HIDE DEF K
<1>5. PICK v \in S : \A s \in Sides : K[v][s] \notin S
  <2>1. S \subseteq D[t.root] /\ c \in S
    BY <1>2
  <2> HIDE DEF S
  <2> QED BY <1>3, <2>1, Deepest
<1>6. v \in D[t.root] /\ v \in D[c] /\ x \in D[v] /\ v # x /\ v \in Elements
  BY <1>1, <1>2
<1> DEFINE s == SideTo(x, v)
           w == Child(t, v, s)
<1>7. s \in Sides /\ x \in D[w]
  BY <1>6 DEF Shape, NodeIn, SideTo, Sides
<1> HIDE DEF s
<1>8. w # NULL /\ w \in D[v] /\ Parent(t, w) = v
  <2> HIDE DEF w
  <2> QED BY <1>6, <1>7, ChildFacts DEF w
<1>9. D[v] \subseteq D[c]
  BY <1>2, <1>3, <1>6, Nested
<1>10. w \notin S
  BY <1>4, <1>5, <1>6, <1>7
<1> QED BY <1>6, <1>7, <1>8, <1>9, <1>10

\* The shape is a matter of the links of the elements in the tree.
SameLinks(t, u, P) ==
  /\ u \in Pointers /\ u.root = t.root
  /\ \A z \in P : Parent(u, z) = Parent(t, z) /\ \A r \in Sides : Child(u, z, r) = Child(t, z, r)

\* Whoever writes no link of an element of the tree leaves its shape.
LEMMA SameShape ==
  ASSUME NEW t, NEW D, Shape(t, D), NEW u, SameLinks(t, u, D[t.root])
  PROVE  Shape(u, D)
<1>1. /\ t \in Pointers /\ t.root \in Slots /\ D[t.root] \subseteq Elements /\ Elements \subseteq Nat \ {NULL}
  BY ShapeTypes
<1>2. /\ u \in Pointers /\ u.root = t.root
      /\ \A z \in D[t.root] : Parent(u, z) = Parent(t, z) /\ \A r \in Sides : Child(u, z, r) = Child(t, z, r)
  BY DEF SameLinks
<1>3. t.root # NULL => t.root \in D[t.root] /\ Parent(u, t.root) = NULL
  BY <1>2 DEF Shape
<1>4. ASSUME NEW z \in D[t.root] PROVE NodeIn(u, D, z)
  <2>1. NodeIn(t, D, z)
    BY DEF Shape
  <2>2. \A r \in Sides : Child(u, z, r) = Child(t, z, r)
    BY <1>2
  <2>3. \A s \in Sides : Child(t, z, s) # NULL => Parent(u, Child(t, z, s)) = z
    BY <1>2, ChildFacts
  <2>4. ASSUME NEW y \in D[z], y # z PROVE y \in D[Child(u, z, SideTo(y, z))]
    BY <2>1, <2>2, <2>4 DEF NodeIn, SideTo, Sides
  <2>5. z # t.root => Parent(u, z) \in D[t.root] /\ z = Child(u, Parent(u, z), SideTo(z, Parent(u, z)))
    <3> SUFFICES ASSUME z # t.root
                 PROVE  Parent(u, z) \in D[t.root] /\ z = Child(u, Parent(u, z), SideTo(z, Parent(u, z)))
      OBVIOUS
    <3> DEFINE p == Parent(t, z)
    <3>1. p \in D[t.root] /\ z = Child(t, p, SideTo(z, p)) /\ Parent(u, z) = p /\ SideTo(z, p) \in Sides
      BY <1>2, <2>1 DEF NodeIn, SideTo, Sides
    <3> HIDE DEF p
    <3>2. Child(u, p, SideTo(z, p)) = Child(t, p, SideTo(z, p))
      BY <1>2, <3>1
    <3> QED BY <3>1, <3>2
  <2> QED BY <1>2, <2>1, <2>2, <2>3, <2>4, <2>5 DEF NodeIn
<1> QED BY <1>1, <1>2, <1>3, <1>4 DEF Shape

-----------------------------------------------------------------------------
(***************************************************************************)
(* A new leaf.                                                             *)
(***************************************************************************)
\* What RB_INSERT writes: x under p, at side r, or as the root.
LinkedAt(t, x, p, r) ==
  LET linked == [t EXCEPT !.node[x] = NewEntry(p)]
  IN  IF p = NULL THEN [linked EXCEPT !.root = x] ELSE [linked EXCEPT !.node[p].child[r] = x]

\* The subtrees with x in them.
Grown(D, x, p) ==
  [z \in Slots |-> IF z = x THEN {x} ELSE IF p \in D[z] THEN D[z] \cup {x} ELSE D[z]]

\* Where a leaf goes: no element of the tree on the way to it is on its other side.
Gap(t, D, x, p, r) ==
  /\ x \in Elements \ D[t.root] /\ r \in Sides
  /\ p = NULL => t.root = NULL
  /\ p # NULL => /\ p \in D[t.root] /\ Child(t, p, r) = NULL /\ On(r, x, p)
                 /\ \A z \in D[t.root], s \in Sides : p \in D[Child(t, z, s)] => On(s, x, z)

\* Its effect on each field.
LinkedIn(t, u, x, p, r) ==
  /\ u.root = IF p = NULL THEN x ELSE t.root
  /\ Parent(u, x) = p /\ Color(u, x) = "red" /\ \A s \in Sides : Child(u, x, s) = NULL
  /\ \A z \in Elements : z # x =>
       /\ Parent(u, z) = Parent(t, z) /\ Color(u, z) = Color(t, z)
       /\ \A s \in Sides : Child(u, z, s) = IF z = p /\ s = r THEN x ELSE Child(t, z, s)

\* RB_INSERT writes these fields.
LEMMA LinkIs ==
  ASSUME NEW t \in Pointers, NEW x \in Elements, NEW p \in Slots, NEW r \in Sides, p # x, NEW u, u = LinkedAt(t, x, p, r)
  PROVE  /\ u \in Pointers /\ u.root = IF p = NULL THEN x ELSE t.root
         /\ Parent(u, x) = p /\ Color(u, x) = "red" /\ \A s \in Sides : Child(u, x, s) = NULL
         /\ \A z \in Elements : z # x =>
              /\ Parent(u, z) = Parent(t, z) /\ Color(u, z) = Color(t, z)
              /\ \A s \in Sides : Child(u, z, s) = IF z = p /\ s = r THEN x ELSE Child(t, z, s)
<1> DEFINE E == NewEntry(p)
           linked == [t EXCEPT !.node = [t.node EXCEPT ![x] = E]]
<1>1. E \in Entry /\ E.parent = p /\ E.color = "red" /\ \A s \in Sides : E.child[s] = NULL
  BY DEF NewEntry, NoEntry, Entry, Colors, NoKids, Slots
<1>2. [t EXCEPT !.node[x] = NewEntry(p)] = linked
  OBVIOUS
<1> HIDE DEF E
<1>3. Changed(t, linked, x, E)
  BY <1>1, ChangeOne
<1> HIDE DEF linked
<1>4. linked \in Pointers
  BY <1>3 DEF Changed
<1>5. CASE p = NULL
  <2>1. u = [linked EXCEPT !.root = x]
    BY <1>2, <1>5 DEF LinkedAt
  <2>2. u \in Pointers /\ u.root = x /\ u.node = linked.node
    BY <1>4, <2>1 DEF Pointers, Slots
  <2>3. \A z \in Elements : z # p
    BY <1>5, NoNull
  <2> QED BY <1>1, <1>3, <1>5, <2>2, <2>3 DEF Changed, Parent, Color, Child
<1>6. CASE p # NULL
  <2>1. u = [linked EXCEPT !.node[p].child[r] = x]
    BY <1>2, <1>6 DEF LinkedAt
  <2>2. ChildSet(linked, u, p, r, x)
    <3>1. p \in Elements /\ x \in Slots
      BY <1>6 DEF Slots
    <3>2. ChildSet(linked, [linked EXCEPT !.node[p].child[r] = x], p, r, x)
      BY <1>4, <3>1, SetChildIs
    <3> QED BY <2>1, <3>2
  <2>3. /\ Parent(linked, x) = p /\ Color(linked, x) = "red" /\ \A s \in Sides : Child(linked, x, s) = NULL
        /\ \A z \in Elements : z # x => /\ Parent(linked, z) = Parent(t, z) /\ Color(linked, z) = Color(t, z)
                                        /\ \A s \in Sides : Child(linked, z, s) = Child(t, z, s)
        /\ linked.root = t.root
    BY <1>1, <1>3 DEF Changed, Parent, Color, Child
  <2> QED BY <1>6, <2>2, <2>3 DEF ChildSet
<1> QED BY <1>5, <1>6

\* A leaf in its gap leaves a search tree with one more element.
LEMMA LinkShape ==
  ASSUME NEW t, NEW D, Shape(t, D), NEW x, NEW p \in Slots, NEW r, Gap(t, D, x, p, r),
         NEW u, u = LinkedAt(t, x, p, r)
  PROVE  /\ Shape(u, Grown(D, x, p)) /\ Grown(D, x, p)[u.root] = D[t.root] \cup {x}
         /\ LinkedIn(t, u, x, p, r)
<1> DEFINE F == Grown(D, x, p)
           P == D[t.root]
<1>1. /\ t \in Pointers /\ t.root \in Slots /\ P \subseteq Elements
      /\ D \in [Slots -> SUBSET Elements] /\ D[NULL] = {} /\ Elements \subseteq Nat \ {NULL}
      /\ t.root # NULL => t.root \in P
  BY ShapeTypes
<1>2. x \in Elements /\ x \notin P /\ r \in Sides /\ x # NULL /\ p # x /\ x \in Slots /\ D[x] = {}
  BY <1>1 DEF Gap, Shape, Slots
<1>3. /\ u \in Pointers /\ u.root = IF p = NULL THEN x ELSE t.root
      /\ Parent(u, x) = p /\ Color(u, x) = "red" /\ \A s \in Sides : Child(u, x, s) = NULL
      /\ \A z \in Elements : z # x =>
           /\ Parent(u, z) = Parent(t, z) /\ Color(u, z) = Color(t, z)
           /\ \A s \in Sides : Child(u, z, s) = IF z = p /\ s = r THEN x ELSE Child(t, z, s)
  BY <1>1, <1>2, LinkIs
<1>4. /\ F \in [Slots -> SUBSET Elements] /\ F[x] = {x}
      /\ \A z \in Slots : z # x => F[z] = IF p \in D[z] THEN D[z] \cup {x} ELSE D[z]
  BY <1>1, <1>2 DEF Grown
<1>5. F[NULL] = {}
  BY <1>1, <1>2, <1>4 DEF Slots
<1>6. \A z \in P : D[z] \subseteq P /\ z \in D[z]
  BY DEF Shape, NodeIn
<1>7. p # NULL => p \in P /\ p \in Elements /\ p \in D[p] /\ t.root # NULL
  BY <1>1, <1>6 DEF Gap
<1>8. \A z \in Slots : p = NULL => p \notin D[z]
  BY <1>1, NoNull
<1> HIDE DEF F
<1>9. F[u.root] = P \cup {x}
  <2>1. CASE p = NULL
    BY <1>1, <1>3, <1>4, <2>1 DEF Gap
  <2>2. CASE p # NULL
    <3>1. u.root = t.root /\ t.root # x
      BY <1>1, <1>2, <1>3, <1>7, <2>2
    <3> QED BY <1>1, <1>4, <1>7, <2>2, <3>1
  <2> QED BY <2>1, <2>2
<1>10. \A z \in Elements \ F[u.root] : F[z] = {}
  <2>1. \A z \in Elements \ P : D[z] = {} /\ z \in Slots
    BY DEF Shape, Slots
  <2> QED BY <1>4, <1>9, <2>1
<1>11. NodeIn(u, F, x)
  <2>1. \A s \in Sides : F[Child(u, x, s)] = {}
    BY <1>3, <1>5
  <2>2. x # u.root => Parent(u, x) \in F[u.root] /\ x = Child(u, Parent(u, x), SideTo(x, Parent(u, x)))
    <3> SUFFICES ASSUME x # u.root PROVE p \in P /\ x = Child(u, p, SideTo(x, p))
      BY <1>3, <1>9
    <3>1. p # NULL
      BY <1>3
    <3>2. On(r, x, p) /\ p \in P /\ p \in Nat /\ x \in Nat
      BY <1>1, <1>2, <1>7, <3>1 DEF Gap
    <3>3. SideTo(x, p) = r
      BY <1>2, <3>2, OnFacts
    <3> QED BY <1>2, <1>3, <1>7, <3>1, <3>3
  <2> QED BY <1>3, <1>4, <1>9, <2>1, <2>2 DEF NodeIn
<1>12. ASSUME NEW z \in P PROVE NodeIn(u, F, z)
  <2>0. z \in Elements /\ z \in Nat /\ z # x /\ z \in Slots /\ NodeIn(t, D, z) /\ D[z] \subseteq F[z] /\ F[z] \subseteq D[z] \cup {x}
    <3>1. z \in Elements /\ z \in Nat /\ z # x /\ NodeIn(t, D, z)
      BY <1>1, <1>2 DEF Shape
    <3>2. z \in Slots
      BY <3>1 DEF Slots
    <3>3. F[z] = IF p \in D[z] THEN D[z] \cup {x} ELSE D[z]
      BY <1>4, <3>1, <3>2
    <3> QED BY <3>1, <3>2, <3>3
  <2>1. z \in F[z] /\ F[z] \subseteq F[u.root]
    BY <1>6, <1>9, <2>0
  <2>2. ASSUME NEW s \in Sides
        PROVE  LET c == Child(t, z, s)
               IN  /\ Child(u, z, s) = IF z = p /\ s = r THEN x ELSE c
                   /\ c # x /\ c \in Slots
                   /\ F[c] = IF p \in D[c] THEN D[c] \cup {x} ELSE D[c]
                   /\ z = p /\ s = r => c = NULL
    <3> DEFINE c == Child(t, z, s)
    <3>1. c \in Slots /\ c # x
      BY <1>1, <1>2, ChildFacts
    <3>2. z = p /\ s = r => c = NULL
      BY <2>0, <1>1 DEF Gap
    <3>3. Child(u, z, s) = IF z = p /\ s = r THEN x ELSE c
      BY <1>3, <2>0
    <3> HIDE DEF c
    <3> QED BY <1>4, <3>1, <3>2, <3>3 DEF c
  <2>3. ASSUME NEW s \in Sides, Child(u, z, s) # NULL
        PROVE  Child(u, z, s) \in F[Child(u, z, s)] /\ Parent(u, Child(u, z, s)) = z
    <3>1. CASE z = p /\ s = r
      BY <1>3, <1>4, <2>2, <3>1
    <3>2. CASE ~(z = p /\ s = r)
      <4> DEFINE c == Child(t, z, s)
      <4>1. Child(u, z, s) = c /\ c # NULL /\ c # x
        BY <2>2, <2>3, <3>2
      <4>2. c \in Elements /\ c \in D[c] /\ Parent(t, c) = z
        BY <4>1, ChildFacts
      <4>3. Parent(u, c) = z
        BY <1>3, <4>1, <4>2
      <4>4. c \in F[c]
        BY <2>2, <4>2
      <4> QED BY <4>1, <4>3, <4>4
    <3> QED BY <3>1, <3>2
  <2>4. ASSUME NEW s \in Sides, NEW w \in F[Child(u, z, s)]
        PROVE  w \in F[z] /\ On(s, w, z)
    <3>1. CASE z = p /\ s = r
      <4>1. w = x
        BY <1>4, <2>2, <2>4, <3>1
      <4>2. x \in F[z]
        BY <1>4, <1>6, <2>0, <3>1
      <4>3. On(r, x, p)
        BY <2>0, <3>1, <1>1 DEF Gap
      <4> QED BY <3>1, <4>1, <4>2, <4>3
    <3>2. CASE ~(z = p /\ s = r)
      <4> DEFINE c == Child(t, z, s)
      <4>1. w \in F[c]
        BY <2>2, <2>4, <3>2
      <4>2. CASE w \in D[c]
        BY <2>0, <4>2 DEF NodeIn
      <4>3. CASE w \notin D[c]
        <5>1. p \in D[c] /\ w = x
          BY <2>2, <4>1, <4>3
        <5>2. p \in D[z]
          BY <2>0, <5>1 DEF NodeIn
        <5>3. On(s, x, z)
          BY <1>8, <2>2, <5>1 DEF Gap
        <5>4. x \in F[z]
          BY <1>4, <2>0, <5>2
        <5> QED BY <5>1, <5>3, <5>4
      <4> QED BY <4>2, <4>3
    <3> QED BY <3>1, <3>2
  <2>5. ASSUME NEW w \in F[z], w # z
        PROVE  w \in F[Child(u, z, SideTo(w, z))]
    <3>0. SideTo(w, z) \in Sides
      BY DEF SideTo, Sides
    <3>1. CASE w \in D[z]
      <4> DEFINE s == SideTo(w, z)
                 c == Child(t, z, s)
      <4>1. w \in D[c]
        BY <2>0, <2>5, <3>1 DEF NodeIn
      <4>2. c # NULL
        BY <1>1, <4>1
      <4> HIDE DEF s
      <4>3. F[Child(u, z, s)] = F[c] /\ w \in F[c]
        BY <2>2, <3>0, <4>1, <4>2 DEF s
      <4> QED BY <4>3 DEF s
    <3>2. CASE w \notin D[z]
      <4>1. w = x /\ p \in D[z] /\ p # NULL
        BY <1>4, <1>8, <2>0, <2>5, <3>2
      <4>2. CASE p = z
        <5>1. On(r, x, p) /\ r \in Sides /\ x \in Nat /\ p \in Nat
          BY <1>1, <1>2, <1>7, <4>1 DEF Gap
        <5>2. SideTo(x, p) = r
          BY <5>1, OnFacts
        <5> QED BY <1>4, <2>2, <3>0, <4>1, <4>2, <5>2
      <4>3. CASE p # z
        <5> DEFINE s == SideTo(p, z)
                   c == Child(t, z, s)
        <5>1. s \in Sides /\ p \in D[c]
          BY <2>0, <4>1, <4>3 DEF NodeIn, SideTo, Sides
        <5>2. On(s, x, z)
          BY <4>1, <5>1 DEF Gap
        <5>3. SideTo(x, z) = s
          BY <1>1, <1>2, <2>0, <5>1, <5>2, OnFacts
        <5> HIDE DEF s
        <5>4. Child(u, z, s) = c /\ x \in F[c]
          BY <2>2, <4>3, <5>1
        <5> QED BY <4>1, <5>3, <5>4
      <4> QED BY <4>2, <4>3
    <3> QED BY <3>1, <3>2
  <2>6. ASSUME z # u.root
        PROVE  Parent(u, z) \in F[u.root] /\ z = Child(u, Parent(u, z), SideTo(z, Parent(u, z)))
    <3> DEFINE q == Parent(t, z)
    <3>0. z # t.root
      <4>1. CASE p = NULL
        BY <1>1, <1>3, <4>1 DEF Gap
      <4>2. CASE p # NULL
        BY <1>3, <2>6, <4>2
      <4> QED BY <4>1, <4>2
    <3>1. q \in P /\ z = Child(t, q, SideTo(z, q)) /\ SideTo(z, q) \in Sides /\ q \in Elements /\ q # x
      BY <1>1, <1>2, <2>0, <3>0 DEF NodeIn, SideTo, Sides
    <3>2. Parent(u, z) = q
      BY <1>3, <2>0
    <3> HIDE DEF q
    <3>3. ~(q = p /\ SideTo(z, q) = r)
      BY <1>1, <2>0, <3>1, NoNull DEF Gap
    <3>4. Child(u, q, SideTo(z, q)) = z
      BY <1>3, <3>1, <3>3
    <3> QED BY <1>9, <3>1, <3>2, <3>4
  <2> QED BY <2>1, <2>3, <2>4, <2>5, <2>6 DEF NodeIn
<1>13. u.root # NULL => u.root \in F[u.root] /\ Parent(u, u.root) = NULL
  <2>1. CASE p = NULL
    BY <1>3, <1>9, <2>1
  <2>2. CASE p # NULL
    <3>1. u.root = t.root /\ t.root \in P /\ Parent(t, t.root) = NULL
      BY <1>1, <1>3, <1>7, <2>2 DEF Shape
    <3> QED BY <1>1, <1>2, <1>3, <1>9, <3>1
  <2> QED BY <2>1, <2>2
<1>14. Shape(u, F)
  BY <1>3, <1>4, <1>5, <1>9, <1>10, <1>11, <1>12, <1>13 DEF Shape
<1> QED BY <1>3, <1>9, <1>14 DEF F, LinkedIn

-----------------------------------------------------------------------------
(***************************************************************************)
(* An element with at most one child gives its place to that child.        *)
(***************************************************************************)
\* The subtrees without x.
WithoutIt(D, x) == [z \in Slots |-> IF z = x THEN {} ELSE D[z] \ {x}]

\* c hangs where x hung.
CutOut(t, u, x, c) ==
  /\ u \in Pointers
  /\ u.root = IF Parent(t, x) = NULL THEN c ELSE t.root
  /\ \A z \in Elements :
       /\ Color(u, z) = Color(t, z)
       /\ Parent(u, z) = IF z = c THEN Parent(t, x) ELSE Parent(t, z)
       /\ \A r \in Sides : Child(u, z, r) =
            IF z = Parent(t, x) /\ r = SideOf(t, x, z) THEN c ELSE Child(t, z, r)

\* OnlyChild is one of the children, and the other is NULL.
LEMMA OnlyChildIs ==
  ASSUME NEW t, NEW x, ~HasTwo(t, x)
  PROVE  \E s \in Sides : OnlyChild(t, x) = Child(t, x, s) /\ Child(t, x, Other(s)) = NULL
  BY DEF HasTwo, OnlyChild, Sides, Other

\* Without x there is a search tree with one element less.
LEMMA CutShape ==
  ASSUME NEW t, NEW D, Shape(t, D), NEW x \in D[t.root], ~HasTwo(t, x),
         NEW u, u = Without(t, x), NEW c, c = OnlyChild(t, x)
  PROVE  /\ CutOut(t, u, x, c) /\ Shape(u, WithoutIt(D, x)) /\ WithoutIt(D, x)[u.root] = D[t.root] \ {x}
         /\ c \in D[t.root] \cup {NULL}
<1> DEFINE F == WithoutIt(D, x)
           P == D[t.root]
           p == Parent(t, x)
<1>1. /\ t \in Pointers /\ t.root \in Slots /\ P \subseteq Elements
      /\ D \in [Slots -> SUBSET Elements] /\ D[NULL] = {} /\ Elements \subseteq Nat \ {NULL}
      /\ t.root # NULL => t.root \in P
  BY ShapeTypes
<1>2. PICK s \in Sides : c = Child(t, x, s) /\ Child(t, x, Other(s)) = NULL
  BY OnlyChildIs
<1>3. /\ x \in Elements /\ x \in Nat /\ x \in D[x] /\ D[x] \subseteq P
      /\ c \in Slots /\ c # x /\ D[c] \subseteq D[x] /\ x \notin D[c]
      /\ \A w \in D[c] : On(s, w, x)
      /\ c # NULL => c \in P /\ c \in D[c] /\ Parent(t, c) = x /\ c # t.root /\ c \in Elements
  BY <1>2, ChildFacts
<1>4. D[x] = D[c] \cup {x}
  <2>1. ASSUME NEW w \in D[x], w # x PROVE w \in D[c]
    <3>1. SideTo(w, x) \in Sides /\ w \in D[Child(t, x, SideTo(w, x))]
      BY <2>1 DEF Shape, NodeIn, SideTo, Sides
    <3>2. SideTo(w, x) = s \/ SideTo(w, x) = Other(s)
      BY <3>1, SideFacts
    <3> QED BY <1>1, <1>2, <3>1, <3>2
  <2> QED BY <1>3, <2>1
<1>5. /\ p \in Slots /\ (p = NULL <=> x = t.root)
      /\ p # NULL => /\ p \in P /\ p \in Elements /\ p # x /\ x \in D[p] /\ p \notin D[x]
                     /\ SideOf(t, x, p) \in Sides /\ x = Child(t, p, SideOf(t, x, p))
                     /\ SideOf(t, x, p) = SideTo(x, p)
  BY <1>1, <1>3, ParentFacts, FieldTypes
<1>6. CutOut(t, u, x, c)
  <2> DEFINE t1 == Replace(t, x, c)
  <2> HIDE DEF p, P
  <2>1. Replaced(t, t1, x, c)
    BY <1>1, <1>3, ReplaceIs
  <2>2. t1 \in Pointers
    BY <2>1 DEF Replaced
  <2>3. u = SetParent(t1, c, p)
    BY DEF Without, p
  <2> HIDE DEF t1
  <2>4. ParentSet(t1, u, c, p)
    BY <1>3, <1>5, <2>2, <2>3, SetParentIs
  <2> QED BY <2>1, <2>4 DEF Replaced, ParentSet, CutOut, p
<1>7. /\ u \in Pointers /\ u.root = IF p = NULL THEN c ELSE t.root
      /\ \A z \in Elements : Parent(u, z) = IF z = c THEN p ELSE Parent(t, z)
  BY <1>6 DEF CutOut
<1>8. /\ F \in [Slots -> SUBSET Elements] /\ F[NULL] = {} /\ F[x] = {}
      /\ \A z \in Slots : z # x => F[z] = D[z] \ {x}
  BY <1>1, <1>3 DEF WithoutIt, Slots
<1> HIDE DEF F
<1>9. F[c] = D[c]
  BY <1>3, <1>8
<1>10. F[u.root] = P \ {x}
  <2>1. CASE p = NULL
    BY <1>3, <1>4, <1>5, <1>7, <1>9, <2>1
  <2>2. CASE p # NULL
    BY <1>1, <1>5, <1>7, <1>8, <2>2
  <2> QED BY <2>1, <2>2
<1>11. \A z \in Elements \ F[u.root] : F[z] = {}
  <2>1. \A z \in Elements \ P : D[z] = {} /\ z \in Slots
    BY DEF Shape, Slots
  <2> QED BY <1>8, <1>10, <2>1
<1>12. ASSUME NEW z \in P, z # x, NEW r \in Sides
       PROVE  LET d == Child(t, z, r)
              IN  /\ d \in Slots
                  /\ Child(u, z, r) = IF d = x THEN c ELSE d
                  /\ F[Child(u, z, r)] = D[d] \ {x}
  <2> DEFINE d == Child(t, z, r)
  <2>1. z \in Elements /\ z # NULL /\ d \in Slots
    BY <1>1, ChildFacts
  <2>2. Child(u, z, r) = IF z = p /\ r = SideOf(t, x, z) THEN c ELSE d
    BY <1>6, <2>1 DEF CutOut
  <2>3. d = x => z = p /\ r = SideOf(t, x, z)
    BY <1>1, <1>3, ChildFacts
  <2>4. z = p => Child(t, z, SideOf(t, x, z)) = x
    BY <1>5, <2>1
  <2>5. Child(u, z, r) = IF d = x THEN c ELSE d
    <3> HIDE DEF p, P
    <3> QED BY <2>2, <2>3, <2>4
  <2>6. F[Child(u, z, r)] = D[d] \ {x}
    <3> HIDE DEF d
    <3> QED BY <1>3, <1>4, <1>8, <1>9, <2>1, <2>5
  <2> QED BY <2>1, <2>5, <2>6
<1>13. ASSUME NEW z \in P, z # x PROVE NodeIn(u, F, z)
  <2>0. z \in Elements /\ z \in Nat /\ F[z] = D[z] \ {x} /\ NodeIn(t, D, z)
    <3>1. z \in Elements /\ z \in Nat /\ NodeIn(t, D, z)
      BY <1>1 DEF Shape
    <3> QED BY <1>8, <1>13, <3>1 DEF Slots
  <2>1. z \in F[z] /\ F[z] \subseteq F[u.root]
    BY <1>10, <1>13, <2>0 DEF NodeIn
  <2>2. ASSUME NEW r \in Sides, Child(u, z, r) # NULL
        PROVE  Child(u, z, r) \in F[Child(u, z, r)] /\ Parent(u, Child(u, z, r)) = z
    <3> DEFINE d == Child(t, z, r)
    <3>1. d \in Slots /\ Child(u, z, r) = IF d = x THEN c ELSE d
      BY <1>12, <1>13
    <3>2. d # NULL => d \in D[d] /\ Parent(t, d) = z /\ d \in Elements
      BY ChildFacts
    <3> HIDE DEF d
    <3>3. CASE d = x
      <4>1. Child(u, z, r) = c /\ c # NULL /\ p = z
        BY <1>1, <1>3, <2>2, <3>1, <3>2, <3>3
      <4> QED BY <1>3, <1>7, <1>9, <4>1
    <3>4. CASE d # x
      <4>1. Child(u, z, r) = d /\ d # NULL /\ d # c
        BY <1>3, <1>13, <2>2, <3>1, <3>2, <3>4
      <4> QED BY <1>7, <1>8, <3>1, <3>2, <3>4, <4>1
    <3> QED BY <3>3, <3>4
  <2>3. ASSUME NEW r \in Sides, NEW w \in F[Child(u, z, r)]
        PROVE  w \in F[z] /\ On(r, w, z)
    <3>1. w \in D[Child(t, z, r)] /\ w # x
      BY <1>12, <1>13, <2>3
    <3> QED BY <2>0, <3>1 DEF NodeIn
  <2>4. ASSUME NEW w \in F[z], w # z
        PROVE  w \in F[Child(u, z, SideTo(w, z))]
    <3>1. SideTo(w, z) \in Sides
      BY DEF SideTo, Sides
    <3>2. w \in D[Child(t, z, SideTo(w, z))] /\ w # x
      BY <2>0, <2>4 DEF NodeIn
    <3> QED BY <1>12, <1>13, <3>1, <3>2
  <2>5. ASSUME z # u.root
        PROVE  Parent(u, z) \in F[u.root] /\ z = Child(u, Parent(u, z), SideTo(z, Parent(u, z)))
    <3>1. CASE z = c
      <4>1. p # NULL /\ Parent(u, z) = p
        BY <1>7, <2>0, <2>5, <3>1
      <4>2. Child(u, p, SideOf(t, x, p)) = c
        BY <1>5, <1>12, <4>1
      <4>3. SideTo(c, p) = SideTo(x, p)
        <5>1. c \in D[Child(t, p, SideTo(x, p))]
          BY <1>1, <1>3, <1>4, <1>5, <2>0, <3>1, <4>1
        <5>2. On(SideTo(x, p), c, p) /\ p \in Nat
          BY <1>1, <1>5, <4>1, <5>1, ChildFacts
        <5> QED BY <1>5, <2>0, <3>1, <4>1, <5>2, OnFacts
      <4> QED BY <1>5, <1>10, <3>1, <4>1, <4>2, <4>3
    <3>2. CASE z # c
      <4> DEFINE q == Parent(t, z)
      <4>1. z # t.root
        BY <1>5, <1>7, <1>13, <2>5
      <4>2. q \in P /\ z = Child(t, q, SideTo(z, q)) /\ SideTo(z, q) \in Sides
        BY <2>0, <4>1 DEF NodeIn, SideTo, Sides
      <4>3. Parent(u, z) = q
        BY <1>7, <2>0, <3>2
      <4> HIDE DEF q
      <4>4. q # x
        <5> SUFFICES ASSUME q = x PROVE FALSE
          OBVIOUS
        <5>1. SideTo(z, q) = s \/ SideTo(z, q) = Other(s)
          BY <4>2, SideFacts
        <5> QED BY <1>1, <1>2, <2>0, <3>2, <4>2, <5>1
      <4>5. Child(u, q, SideTo(z, q)) = z
        BY <1>12, <1>13, <4>2, <4>4
      <4> QED BY <1>10, <4>2, <4>3, <4>4, <4>5
    <3> QED BY <3>1, <3>2
  <2> QED BY <2>1, <2>2, <2>3, <2>4, <2>5 DEF NodeIn
<1>14. u.root # NULL => u.root \in F[u.root] /\ Parent(u, u.root) = NULL
  <2>1. CASE p = NULL
    BY <1>3, <1>7, <1>9, <2>1
  <2>2. CASE p # NULL
    <3>1. u.root = t.root /\ t.root # NULL /\ t.root # x /\ t.root # c
      BY <1>1, <1>3, <1>5, <1>7, <2>2
    <3>2. t.root \in P /\ Parent(t, t.root) = NULL /\ t.root \in Elements
      BY <1>1, <3>1 DEF Shape
    <3> QED BY <1>7, <1>10, <3>1, <3>2
  <2> QED BY <2>1, <2>2
<1>15. Shape(u, F)
  BY <1>7, <1>8, <1>10, <1>11, <1>13, <1>14 DEF Shape
<1> QED BY <1>3, <1>6, <1>10, <1>15 DEF F

-----------------------------------------------------------------------------
(***************************************************************************)
(* A new element takes the place of its neighbour.                         *)
(***************************************************************************)
\* The subtrees with x in the place of old.
Renamed(D, x, old) ==
  [z \in Slots |-> IF z = old THEN {}
                   ELSE IF z = x THEN (D[old] \ {old}) \cup {x}
                   ELSE IF old \in D[z] THEN (D[z] \ {old}) \cup {x} ELSE D[z]]

\* x has the fields of old, and what linked to old links to x.
Placed(t, u, x, old) ==
  /\ u \in Pointers
  /\ u.root = IF Parent(t, old) = NULL THEN x ELSE t.root
  /\ Parent(u, x) = Parent(t, old) /\ Color(u, x) = Color(t, old)
  /\ \A r \in Sides : Child(u, x, r) = Child(t, old, r)
  /\ \A z \in Elements \ {x, old} :
       /\ Color(u, z) = Color(t, z)
       /\ Parent(u, z) = IF Parent(t, z) = old /\ \E r \in Sides : Child(t, old, r) = z THEN x ELSE Parent(t, z)
       /\ \A r \in Sides : Child(u, z, r) =
            IF z = Parent(t, old) /\ r = SideOf(t, old, z) THEN x ELSE Child(t, z, r)

\* The entry of old is cleared last.
Cleared(t, old) == [t EXCEPT !.node[old] = NoEntry]

\* TakePlace, the end of RB_REMOVE, writes these fields.
LEMMA TakePlaceIs ==
  ASSUME NEW t, NEW D, Shape(t, D), NEW old \in D[t.root], NEW x \in Elements \ D[t.root],
         NEW u, u = Cleared(TakePlace(t, x, old), old)
  PROVE  Placed(t, u, x, old)
<1> DEFINE p == Parent(t, old)
           l == Child(t, old, "left")
           g == Child(t, old, "right")
           E == t.node[old]
           t0 == [t EXCEPT !.node = [t.node EXCEPT ![x] = E]]
           t1 == Replace(t0, old, x)
           t2 == SetParent(t1, l, x)
           t3 == SetParent(t2, g, x)
<1>1. /\ t \in Pointers /\ D[t.root] \subseteq Elements /\ Elements \subseteq Nat \ {NULL} /\ old \in Elements
      /\ x \in Elements /\ x # old
  BY ShapeTypes
<1>2. /\ l \in Slots /\ g \in Slots /\ l # old /\ g # old /\ l # x /\ g # x
      /\ l # NULL => Parent(t, l) = old
      /\ g # NULL => Parent(t, g) = old
  <2>1. "left" \in Sides /\ "right" \in Sides
    BY DEF Sides
  <2> QED BY <1>1, <2>1, ChildFacts
<1>3. p \in Slots /\ p # x /\ p # old
  BY <1>1, ParentFacts, FieldTypes
<1>4. E \in Entry
  BY <1>1 DEF Pointers
<1>5. t3 = TakePlace(t, x, old)
  <2>1. [t EXCEPT !.node[x] = t.node[old]] = t0
    OBVIOUS
  <2> HIDE DEF t0
  <2> QED BY <2>1 DEF TakePlace
<1> HIDE DEF p, l, g
<1>6. Changed(t, t0, x, E)
  <2> HIDE DEF E
  <2> QED BY <1>1, <1>4, ChangeOne
<1>7. /\ t0 \in Pointers /\ t0.root = t.root
      /\ Parent(t0, x) = p /\ Color(t0, x) = Color(t, old) /\ \A r \in Sides : Child(t0, x, r) = Child(t, old, r)
      /\ \A z \in Elements : z # x => /\ Parent(t0, z) = Parent(t, z) /\ Color(t0, z) = Color(t, z)
                                      /\ \A r \in Sides : Child(t0, z, r) = Child(t, z, r)
  <2> HIDE DEF t0
  <2> QED BY <1>6 DEF Changed, Parent, Color, Child, p
<1> HIDE DEF t0, E
<1>8. Replaced(t0, t1, old, x)
  BY <1>1, <1>7, ReplaceIs DEF Slots
<1>9. t1 \in Pointers
  BY <1>8 DEF Replaced
<1> HIDE DEF t1
<1>10. ParentSet(t1, t2, l, x)
  BY <1>1, <1>2, <1>9, SetParentIs DEF Slots
<1>11. t2 \in Pointers
  BY <1>10 DEF ParentSet
<1> HIDE DEF t2
<1>12. ParentSet(t2, t3, g, x)
  BY <1>1, <1>2, <1>11, SetParentIs DEF Slots
<1> HIDE DEF t3
<1>13. t3 \in Pointers /\ t3.root = IF p = NULL THEN x ELSE t.root
  <2>1. Parent(t0, old) = p
    BY <1>1, <1>7 DEF p
  <2> QED BY <1>7, <1>8, <1>10, <1>12, <2>1 DEF Replaced, ParentSet
<1>14. u = [t3 EXCEPT !.node = [t3.node EXCEPT ![old] = NoEntry]]
  BY <1>5 DEF Cleared
<1>15. NoEntry \in Entry
  BY DEF NoEntry, Entry, NoKids, Slots, Colors
<1>16. Changed(t3, u, old, NoEntry)
  BY <1>1, <1>13, <1>14, <1>15, ChangeOne
<1>17. /\ u \in Pointers /\ u.root = t3.root
       /\ \A z \in Elements : z # old => /\ Parent(u, z) = Parent(t3, z) /\ Color(u, z) = Color(t3, z)
                                         /\ \A r \in Sides : Child(u, z, r) = Child(t3, z, r)
  BY <1>16 DEF Changed, Parent, Color, Child
<1>18. \A z \in Elements : SideOf(t0, old, z) = IF z = x THEN SideOf(t, old, old) ELSE SideOf(t, old, z)
  <2>1. ASSUME NEW z \in Elements
        PROVE  SideOf(t0, old, z) = IF z = x THEN SideOf(t, old, old) ELSE SideOf(t, old, z)
    BY <1>7 DEF SideOf, Sides
  <2> QED BY <2>1
<1>19. Parent(t0, old) = p
  BY <1>1, <1>7 DEF p
<1>20. ASSUME NEW z \in Elements, z # old
       PROVE  /\ Color(u, z) = Color(t0, z)
              /\ Parent(u, z) = IF z = g \/ z = l THEN x ELSE Parent(t0, z)
              /\ \A r \in Sides : Child(u, z, r) = IF z = p /\ r = SideOf(t0, old, z) THEN x ELSE Child(t0, z, r)
  BY <1>8, <1>10, <1>12, <1>17, <1>19, <1>20 DEF Replaced, ParentSet
<1>21. Parent(u, x) = p /\ Color(u, x) = Color(t, old) /\ \A r \in Sides : Child(u, x, r) = Child(t, old, r)
  BY <1>1, <1>2, <1>3, <1>7, <1>20
<1>22. ASSUME NEW z \in Elements \ {x, old}
       PROVE  /\ Color(u, z) = Color(t, z)
              /\ Parent(u, z) = IF Parent(t, z) = old /\ \E r \in Sides : Child(t, old, r) = z THEN x ELSE Parent(t, z)
              /\ \A r \in Sides : Child(u, z, r) =
                   IF z = p /\ r = SideOf(t, old, z) THEN x ELSE Child(t, z, r)
  <2>1. (Parent(t, z) = old /\ \E r \in Sides : Child(t, old, r) = z) <=> z = g \/ z = l
    <3>1. z # NULL
      BY <1>1
    <3> QED BY <1>2, <3>1 DEF Sides, g, l
  <2> QED BY <1>7, <1>18, <1>20, <2>1
<1> QED BY <1>13, <1>17, <1>21, <1>22 DEF Placed, p

\* Who is where z was.
New(z, x, old) == IF z = old THEN x ELSE z

\* The tree is the same but for the name of one element.
Renames(t, u, P, x, old) ==
  /\ u.root = New(t.root, x, old)
  /\ \A z \in P : /\ Color(u, New(z, x, old)) = Color(t, z)
                  /\ Parent(u, New(z, x, old)) = New(Parent(t, z), x, old)
  /\ \A z \in P, r \in Sides : Child(u, New(z, x, old), r) = New(Child(t, z, r), x, old)

\* An element that is at the same side of all others as old can take its place:
\* it leaves a search tree.
LEMMA PlaceShape ==
  ASSUME NEW t, NEW D, Shape(t, D), NEW old \in D[t.root], NEW x \in Elements \ D[t.root],
         \A z \in D[t.root], s \in Sides : z # old => (On(s, x, z) <=> On(s, old, z)),
         NEW u, u = Cleared(TakePlace(t, x, old), old)
  PROVE  /\ Renames(t, u, D[t.root], x, old) /\ Shape(u, Renamed(D, x, old))
         /\ Renamed(D, x, old)[u.root] = (D[t.root] \ {old}) \cup {x}
<1> DEFINE F == Renamed(D, x, old)
           P == D[t.root]
           p == Parent(t, old)
           new(z) == IF z = old THEN x ELSE z
           Of(S) == IF old \in S THEN (S \ {old}) \cup {x} ELSE S
<1>0. Placed(t, u, x, old)
  BY TakePlaceIs
<1>1. /\ t \in Pointers /\ t.root \in Slots /\ P \subseteq Elements
      /\ D \in [Slots -> SUBSET Elements] /\ D[NULL] = {} /\ Elements \subseteq Nat \ {NULL}
      /\ t.root # NULL => t.root \in P
      /\ old \in Elements /\ x \in Elements /\ x # old /\ x \notin P /\ D[x] = {}
  BY ShapeTypes DEF Shape
<1>2. \A z \in P : z \in D[z] /\ D[z] \subseteq P /\ z \in Elements /\ z \in Slots /\ z # x
  BY <1>1 DEF Shape, NodeIn, Slots
<1>3. \A z \in Slots : D[z] \subseteq P
  BY <1>1, <1>2 DEF Shape, Slots
<1>4. /\ F \in [Slots -> SUBSET Elements] /\ F[NULL] = {} /\ F[old] = {} /\ F[x] = Of(D[old])
      /\ \A z \in Slots : z # old /\ z # x => F[z] = Of(D[z])
  <2>1. old \in Slots /\ x \in Slots /\ NULL \in Slots
    BY <1>1 DEF Slots
  <2> QED BY <1>1, <1>2, <2>1 DEF Renamed
<1>5. \A z \in Slots : z # x => F[new(z)] = Of(D[z])
  BY <1>4
<1> HIDE DEF F
<1>6. /\ p \in Slots /\ (p = NULL <=> old = t.root)
      /\ p # NULL => /\ p \in P /\ p \in Elements /\ p # old /\ p # x
                     /\ SideOf(t, old, p) \in Sides /\ old = Child(t, p, SideOf(t, old, p))
  BY <1>1, <1>2, ParentFacts, FieldTypes
<1>7. u \in Pointers /\ u.root = new(t.root)
  BY <1>0, <1>6 DEF Placed
<1>8. F[u.root] = Of(P) /\ Of(P) = (P \ {old}) \cup {x}
  <2>1. t.root # x
    BY <1>1
  <2> QED BY <1>1, <1>5, <1>7, <2>1
<1>9. \A z \in Elements \ F[u.root] : F[z] = {}
  <2>1. ASSUME NEW z \in Elements, z \notin F[u.root] PROVE F[z] = {}
    <3>1. z # x /\ (z = old \/ z \notin P)
      BY <1>8, <2>1
    <3>2. CASE z = old
      BY <1>4, <3>2
    <3>3. CASE z # old
      <4>1. D[z] = {} /\ z \in Slots
        BY <3>1, <3>3 DEF Shape, Slots
      <4> QED BY <1>4, <3>1, <3>3, <4>1
    <3> QED BY <3>2, <3>3
  <2> QED BY <2>1
<1>10. ASSUME NEW z \in P, NEW r \in Sides
       PROVE  Child(u, new(z), r) = new(Child(t, z, r)) /\ F[Child(u, new(z), r)] = Of(D[Child(t, z, r)])
  <2> DEFINE d == Child(t, z, r)
  <2>1. d \in Slots /\ d # x /\ d # z
    BY <1>1, ChildFacts
  <2>2. Child(u, new(z), r) = new(d)
    <3>1. CASE z = old
      BY <1>0, <2>1, <3>1 DEF Placed
    <3>2. CASE z # old
      <4>1. z \in Elements \ {x, old} /\ z # NULL
        BY <1>1, <1>2, <3>2
      <4>2. Child(u, z, r) = IF z = p /\ r = SideOf(t, old, z) THEN x ELSE d
        BY <1>0, <4>1 DEF Placed
      <4>3. d = old => z = p /\ r = SideOf(t, old, z)
        BY <1>1, ChildFacts
      <4>4. z = p => Child(t, z, SideOf(t, old, z)) = old
        BY <1>6, <4>1
      <4> HIDE DEF p
      <4> QED BY <3>2, <4>2, <4>3, <4>4
    <3> QED BY <3>1, <3>2
  <2> HIDE DEF d, new
  <2>3. F[new(d)] = Of(D[d])
    BY <1>5, <2>1
  <2> QED BY <2>2, <2>3 DEF d
<1>11. ASSUME NEW z \in P
       PROVE  Parent(u, new(z)) = new(Parent(t, z))
  <2>1. CASE z = old
    <3>1. Parent(u, x) = p
      BY <1>0 DEF Placed
    <3>2. p # old
      BY <1>1, <1>6
    <3> QED BY <2>1, <3>1, <3>2
  <2>2. CASE z # old
    <3>1. z \in Elements \ {x, old}
      BY <1>1, <1>2, <2>2
    <3>2. Parent(u, z) = IF Parent(t, z) = old /\ \E r \in Sides : Child(t, old, r) = z THEN x ELSE Parent(t, z)
      BY <1>0, <3>1 DEF Placed
    <3>3. Parent(t, z) = old => \E r \in Sides : Child(t, old, r) = z
      BY <1>1, ParentFacts
    <3> QED BY <2>2, <3>2, <3>3
  <2> QED BY <2>1, <2>2
<1>12. ASSUME NEW a \in P, NEW b \in P, a # b, NEW s \in Sides, On(s, a, b)
       PROVE  On(s, new(a), new(b)) /\ SideTo(new(a), new(b)) = s /\ SideTo(a, b) = s
  <2>0. a \in Nat /\ b \in Nat /\ x \in Nat /\ old \in Nat
    BY <1>1
  <2>1. On(s, new(a), new(b))
    <3>1. CASE a = old
      BY <1>12, <3>1
    <3>2. CASE b = old
      <4>1. On(Other(s), old, a) /\ Other(s) \in Sides
        BY <1>12, <2>0, <3>2, OnFacts, SideFacts
      <4>2. On(Other(s), x, a)
        BY <1>12, <3>2, <4>1
      <4> QED BY <1>12, <2>0, <3>2, <4>2, OnFacts
    <3>3. CASE a # old /\ b # old
      BY <1>12, <3>3
    <3> QED BY <3>1, <3>2, <3>3
  <2>2. new(a) \in Nat /\ new(b) \in Nat
    BY <2>0
  <2> HIDE DEF new
  <2> QED BY <1>12, <2>0, <2>1, <2>2, OnFacts
<1>13. ASSUME NEW z \in P PROVE NodeIn(u, F, new(z))
  <2>0. z \in Elements /\ z \in Nat /\ z # x /\ F[new(z)] = Of(D[z]) /\ NodeIn(t, D, z)
    BY <1>1, <1>2, <1>5 DEF Shape
  <2>1. new(z) \in F[new(z)] /\ F[new(z)] \subseteq F[u.root]
    BY <1>2, <1>8, <2>0
  <2>2. ASSUME NEW r \in Sides, Child(u, new(z), r) # NULL
        PROVE  /\ Child(u, new(z), r) \in F[Child(u, new(z), r)]
               /\ Parent(u, Child(u, new(z), r)) = new(z)
    <3> DEFINE d == Child(t, z, r)
    <3>1. Child(u, new(z), r) = new(d) /\ F[new(d)] = Of(D[d])
      BY <1>10
    <3>2. d # NULL
      BY <1>1, <2>2, <3>1
    <3>3. d \in P /\ d \in D[d] /\ Parent(t, d) = z
      BY <3>2, ChildFacts
    <3> HIDE DEF d
    <3>4. Parent(u, new(d)) = new(z)
      BY <1>11, <3>3
    <3>5. new(d) \in Of(D[d])
      BY <3>3
    <3> QED BY <3>1, <3>4, <3>5
  <2>3. ASSUME NEW r \in Sides, NEW w \in F[Child(u, new(z), r)]
        PROVE  w \in F[new(z)] /\ On(r, w, new(z))
    <3> DEFINE d == Child(t, z, r)
    <3>1. w \in Of(D[d])
      BY <1>10, <2>3
    <3>2. PICK v \in D[d] : w = new(v)
      BY <3>1
    <3>3. v \in D[z] /\ On(r, v, z) /\ v \in P /\ v # z
      <4>1. v \in D[z] /\ On(r, v, z) /\ v # z
        BY ChildFacts
      <4> QED BY <1>2, <4>1
    <3>4. On(r, new(v), new(z))
      BY <1>12, <3>3
    <3>5. new(v) \in Of(D[z])
      BY <3>3
    <3> QED BY <2>0, <3>2, <3>4, <3>5
  <2>4. ASSUME NEW w \in F[new(z)], w # new(z)
        PROVE  w \in F[Child(u, new(z), SideTo(w, new(z)))]
    <3>1. PICK v \in D[z] : w = new(v)
      BY <2>0, <2>4
    <3> DEFINE s == SideTo(v, z)
    <3>2. v \in P /\ v # z /\ s \in Sides /\ v \in D[Child(t, z, s)] /\ On(s, v, z)
      <4>1. v \in P /\ v # z
        BY <1>2, <2>4, <3>1
      <4>2. s \in Sides /\ v \in D[Child(t, z, s)]
        BY <2>0, <4>1 DEF NodeIn, SideTo, Sides
      <4> HIDE DEF s
      <4>3. On(s, v, z)
        BY <4>2, ChildFacts
      <4> QED BY <4>1, <4>2, <4>3
    <3> HIDE DEF s
    <3>3. SideTo(new(v), new(z)) = s
      BY <1>12, <3>2
    <3>4. F[Child(u, new(z), s)] = Of(D[Child(t, z, s)])
      BY <1>10, <3>2
    <3>5. new(v) \in Of(D[Child(t, z, s)])
      BY <3>2
    <3> QED BY <3>1, <3>3, <3>4, <3>5
  <2>5. ASSUME new(z) # u.root
        PROVE  /\ Parent(u, new(z)) \in F[u.root]
               /\ new(z) = Child(u, Parent(u, new(z)), SideTo(new(z), Parent(u, new(z))))
    <3> DEFINE q == Parent(t, z)
               s == SideTo(z, q)
    <3>1. z # t.root
      BY <1>7, <2>5
    <3>2. q # NULL
      BY <3>1, ParentFacts
    <3>3. q \in P /\ z # q /\ s \in Sides /\ z = Child(t, q, s) /\ On(s, z, q)
      BY <3>2, ParentFacts
    <3>4. Parent(u, new(z)) = new(q)
      BY <1>11
    <3> HIDE DEF q, s
    <3>5. SideTo(new(z), new(q)) = s
      BY <1>12, <3>3
    <3>6. Child(u, new(q), s) = new(z)
      BY <1>10, <3>3
    <3>7. new(q) \in F[u.root]
      BY <1>8, <3>3
    <3> QED BY <3>4, <3>5, <3>6, <3>7
  <2> HIDE DEF new
  <2> QED BY <2>1, <2>2, <2>3, <2>4, <2>5 DEF NodeIn
<1>14. \A y \in F[u.root] : NodeIn(u, F, y)
  <2>1. ASSUME NEW y \in F[u.root] PROVE NodeIn(u, F, y)
    <3>1. PICK z \in P : y = new(z)
      BY <1>8, <2>1
    <3> QED BY <1>13, <3>1
  <2> QED BY <2>1
<1>15. u.root # NULL => u.root \in F[u.root] /\ Parent(u, u.root) = NULL
  <2>1. ASSUME u.root # NULL PROVE u.root \in F[u.root] /\ Parent(u, u.root) = NULL
    <3>1. t.root # NULL /\ t.root \in P
      BY <1>1, <1>7, <2>1
    <3>2. Parent(t, t.root) = NULL
      BY <3>1 DEF Shape
    <3>3. Parent(u, new(t.root)) = new(NULL) /\ new(NULL) = NULL
      BY <1>1, <1>11, <3>1, <3>2
    <3>4. new(t.root) \in Of(P)
      BY <3>1
    <3> QED BY <1>7, <1>8, <3>3, <3>4
  <2> QED BY <2>1
<1>16. Shape(u, F)
  BY <1>4, <1>7, <1>9, <1>14, <1>15 DEF Shape
<1>17. Renames(t, u, P, x, old)
  <2>1. ASSUME NEW z \in P PROVE Color(u, new(z)) = Color(t, z)
    <3>1. z = old \/ z \in Elements \ {x, old}
      BY <1>1, <1>2
    <3> QED BY <1>0, <3>1 DEF Placed
  <2>2. \A z : New(z, x, old) = new(z)
    BY DEF New
  <2> HIDE DEF new
  <2>3. u.root = New(t.root, x, old)
    BY <1>7, <2>2
  <2>4. ASSUME NEW z \in P
        PROVE  /\ Color(u, New(z, x, old)) = Color(t, z)
               /\ Parent(u, New(z, x, old)) = New(Parent(t, z), x, old)
    BY <1>11, <2>1, <2>2
  <2>5. ASSUME NEW z \in P, NEW r \in Sides
        PROVE  Child(u, New(z, x, old), r) = New(Child(t, z, r), x, old)
    <3>1. Child(u, new(z), r) = new(Child(t, z, r))
      BY <1>10
    <3>2. New(z, x, old) = new(z) /\ New(Child(t, z, r), x, old) = new(Child(t, z, r))
      BY <2>2
    <3> QED BY <3>1, <3>2
  <2> QED BY <2>3, <2>4, <2>5 DEF Renames
<1> QED BY <1>8, <1>16, <1>17 DEF F

\* Clearing the entry of an element outside the tree leaves the tree as it is.
LEMMA ClearShape ==
  ASSUME NEW t, NEW D, Shape(t, D), NEW x \in Elements \ D[t.root], NEW u, u = Cleared(t, x)
  PROVE  /\ Shape(u, D) /\ SameLinks(t, u, D[t.root])
         /\ \A z \in D[t.root] : Color(u, z) = Color(t, z)
<1>1. /\ t \in Pointers /\ t.root \in Slots /\ D[t.root] \subseteq Elements
  BY ShapeTypes
<1>2. NoEntry \in Entry
  BY DEF NoEntry, Entry, NoKids, Slots, Colors
<1>3. u = [t EXCEPT !.node = [t.node EXCEPT ![x] = NoEntry]]
  BY DEF Cleared
<1>4. Changed(t, u, x, NoEntry)
  BY <1>1, <1>2, <1>3, ChangeOne
<1>5. SameLinks(t, u, D[t.root]) /\ \A z \in D[t.root] : Color(u, z) = Color(t, z)
  BY <1>1, <1>4 DEF Changed, SameLinks, Parent, Color, Child
<1> QED BY <1>5, SameShape

-----------------------------------------------------------------------------
(***************************************************************************)
(* The invariant: what each loop of the code knows of the tree.            *)
(***************************************************************************)
\* A search: what it looks for is in the subtree it is at, or the element it will
\* answer with has been seen; an insertion has passed every element at the right
\* side.
InDescend(D) ==
  pc = "descend" =>
    /\ result = NULL /\ at \in D[tree.root] \cup {NULL} /\ up \in D[tree.root] \cup {NULL}
    /\ \/ op \in {"insert", "find", "nfind"} /\ elm \in Elements
          /\ (elm \in D[tree.root] => elm \in D[at])
       \/ op \in {"min", "max"} /\ elm = NULL
    /\ op # "nfind" => IF up = NULL THEN at = tree.root
                       ELSE up # elm /\ at = Child(tree, up, Toward(up))
    /\ op = "insert" => \A z \in D[tree.root], s \in Sides :
                          up \in D[Child(tree, z, s)] => On(s, elm, z)
    /\ op = "nfind" => /\ up # NULL => elm < up /\ \A y \in D[at] : y < up
                       /\ \A y \in D[tree.root] : elm <= y => y \in D[at] \/ (up # NULL /\ up <= y)
    /\ op \in {"min", "max"} =>
         \A y \in D[tree.root] : y \in D[at] \/ (up # NULL /\ ~On(Toward(up), y, up))

\* The walk down to a neighbour: nothing is between the element and the subtree.
InSeek(D) ==
  pc = "seek" =>
    /\ result = NULL /\ op \in {"next", "prev", "remove"}
    /\ elm \in D[tree.root] /\ at \in D[tree.root]
    /\ \A y \in D[at] : On(SeekSide, elm, y)
    /\ \A y \in D[tree.root] : On(SeekSide, elm, y) => y \in D[at] \/ On(SeekSide, at, y)

\* The walk up: the element is the last of the subtree.
InClimb(D) ==
  pc = "climb" =>
    /\ result = NULL /\ op \in {"next", "prev"}
    /\ elm \in D[tree.root] /\ at \in D[tree.root] /\ elm \in D[at]
    /\ \A y \in D[at] : y = elm \/ On(SeekSide, y, elm)

\* A removal at an element with one child at most.
InSplice(D) ==
  pc = "splice" => /\ result = NULL /\ op = "remove" /\ elm \in D[tree.root] /\ at = elm
                   /\ ~HasTwo(tree, elm)

\* The repairs: the element is in the tree, or out of it, and the repair is there.
InRepair(D) ==
  /\ pc = "insert_color" => /\ result = NULL /\ op = "insert" /\ elm \in D[tree.root]
                            /\ at \in D[tree.root]
  /\ pc = "remove_color" => /\ result = elm /\ op = "remove" /\ elm \in Elements \ D[tree.root]
                            /\ at \in D[tree.root] \cup {NULL} /\ up \in Slots

\* What is known at each place of the code.
Searching(D) ==
  /\ pc \in {"idle", "descend", "seek", "climb", "splice", "insert_color", "remove_color"}
  /\ InDescend(D) /\ InSeek(D) /\ InClimb(D) /\ InSplice(D) /\ InRepair(D)

\* What is below an element is at its sides.
LEMMA BelowFacts ==
  ASSUME NEW t, NEW D, Shape(t, D), NEW x \in D[t.root], NEW y \in D[x]
  PROVE  /\ y \in D[t.root] /\ y \in Nat /\ D[y] \subseteq D[x]
         /\ y # x => /\ SideTo(y, x) \in Sides /\ y \in D[Child(t, x, SideTo(y, x))]
                     /\ On(SideTo(y, x), y, x)
<1>1. /\ t \in Pointers /\ t.root \in Slots /\ D[t.root] \subseteq Elements
      /\ Elements \subseteq Nat \ {NULL}
  BY ShapeTypes
<1>2. NodeIn(t, D, x)
  BY DEF Shape
<1>3. y \in D[t.root] /\ y \in Nat
  BY <1>1, <1>2 DEF NodeIn
<1>4. D[y] \subseteq D[x]
  BY ShapeIsTree, Nested
<1>5. ASSUME y # x
      PROVE  /\ SideTo(y, x) \in Sides /\ y \in D[Child(t, x, SideTo(y, x))]
             /\ On(SideTo(y, x), y, x)
  <2>1. SideTo(y, x) \in Sides /\ y \in D[Child(t, x, SideTo(y, x))]
    BY <1>2, <1>5 DEF NodeIn, SideTo, Sides
  <2> QED BY <2>1, ChildFacts
<1> QED BY <1>3, <1>4, <1>5

\* The end of a call leaves nothing to remember.
LEMMA Idle ==
  ASSUME NEW D, pc' = "idle"
  PROVE  Searching(D)'
  BY DEF Searching, InDescend, InSeek, InClimb, InSplice, InRepair

\* The directions of the walks are sides.
LEMMA SideValues ==
  /\ SeekSide \in Sides /\ \A z : Toward(z) \in Sides
  /\ op \in {"insert", "find", "nfind"} => \A z \in Nat : elm \in Nat /\ elm # z => Toward(z) = SideTo(elm, z)
  BY DEF SeekSide, Toward, Sides, SideTo

-----------------------------------------------------------------------------
(***************************************************************************)
(* Calls.                                                                  *)
(***************************************************************************)
\* RB_INSERT, RB_FIND, RB_NFIND and RB_MINMAX begin at the root.
LEMMA CallSearchKeeps ==
  ASSUME NEW D, Shape(tree, D), CallSearch
  PROVE  Shape(tree', D) /\ Searching(D)'
<1>1. /\ tree' = tree /\ pc' = "descend" /\ up' = NULL /\ at' = tree.root /\ result' = NULL
      /\ \/ op' \in {"insert", "find", "nfind"} /\ elm' \in Elements
         \/ op' \in {"min", "max"} /\ elm' = NULL
  BY DEF CallSearch, Enter
<1>2. /\ tree.root \in Slots /\ D[tree.root] \subseteq Elements /\ D \in [Slots -> SUBSET Elements]
      /\ Elements \subseteq Nat \ {NULL}
      /\ tree.root # NULL => tree.root \in D[tree.root]
  BY ShapeTypes
<1>3. \A z \in D[tree.root], s \in Sides : NULL \notin D[Child(tree, z, s)]
  <2>1. \A z \in D[tree.root], s \in Sides : D[Child(tree, z, s)] \subseteq D[z] /\ D[z] \subseteq D[tree.root]
    BY ChildFacts
  <2> QED BY <1>2, <2>1
<1>4. InDescend(D)'
  BY <1>1, <1>2, <1>3 DEF InDescend
<1> QED BY <1>1, <1>4 DEF Searching, InSeek, InClimb, InSplice, InRepair

\* RB_NEXT and RB_PREV begin below the element, or climb from it.
LEMMA CallNeighbourKeeps ==
  ASSUME NEW D, Shape(tree, D), InTree = D[tree.root], CallNeighbour
  PROVE  Shape(tree', D) /\ Searching(D)'
<1>1. PICK x \in D[tree.root], o \in {"next", "prev"} :
        LET child == Child(tree, x, IF o = "next" THEN "right" ELSE "left")
        IN  IF child = NULL THEN Enter(o, x, "climb", x) ELSE Enter(o, x, "seek", child)
  BY DEF CallNeighbour
<1> DEFINE q == IF o = "next" THEN "left" ELSE "right"
           child == Child(tree, x, Other(q))
<1>2. /\ q \in Sides /\ Other(q) = IF o = "next" THEN "right" ELSE "left"
      /\ Other(q) \in Sides /\ Other(Other(q)) = q
  BY DEF Sides, Other
<1>3. /\ tree' = tree /\ op' = o /\ elm' = x /\ result' = NULL
      /\ IF child = NULL THEN pc' = "climb" /\ at' = x ELSE pc' = "seek" /\ at' = child
  BY <1>1, <1>2 DEF Enter
<1>4. SeekSide' = q
  BY <1>3 DEF SeekSide
<1>5. D[tree.root] \subseteq Nat
  BY ShapeTypes
<1>6. x \in D[x] /\ D[x] \subseteq D[tree.root]
  BY DEF Shape, NodeIn
<1> HIDE DEF q
<1>7. CASE child = NULL
  <2>1. ASSUME NEW y \in D[x], y # x PROVE On(q, y, x)
    <3>1. SideTo(y, x) \in Sides /\ y \in D[Child(tree, x, SideTo(y, x))] /\ On(SideTo(y, x), y, x)
      BY <2>1, BelowFacts
    <3>2. D[child] = {}
      BY <1>2, <1>7, ChildFacts
    <3>3. SideTo(y, x) # Other(q)
      BY <3>1, <3>2
    <3> QED BY <1>2, <3>1, <3>3, SideFacts
  <2> HIDE DEF child
  <2>2. InClimb(D)'
    BY <1>3, <1>4, <1>6, <1>7, <2>1 DEF InClimb
  <2> QED BY <1>3, <1>7, <2>2 DEF Searching, InDescend, InSeek, InSplice, InRepair
<1>8. CASE child # NULL
  <2>1. /\ child \in D[tree.root] /\ child \in D[x] /\ \A y \in D[child] : On(Other(q), y, x)
        /\ D[child] \subseteq D[x] /\ child \in D[child]
    BY <1>2, <1>8, ChildFacts
  <2> HIDE DEF child
  <2>2. \A y \in D[child] : On(q, x, y)
    BY <1>2, <1>5, <1>6, <2>1, OnFacts
  <2>3. ASSUME NEW y \in D[tree.root], On(q, x, y), y \notin D[child]
        PROVE  On(q, child, y)
    <3>1. x # y /\ SideTo(y, x) = Other(q) /\ On(Other(q), y, x)
      BY <1>2, <1>5, <2>3, OnFacts
    <3>2. y \notin D[x]
      <4>1. y \in D[x] => y \in D[Child(tree, x, SideTo(y, x))]
        BY <3>1, BelowFacts
      <4> QED BY <2>3, <3>1, <4>1 DEF child
    <3>3. On(Other(q), y, child)
      BY <1>2, <1>6, <2>1, <3>1, <3>2, ShapeIsTree, Convex
    <3> QED BY <1>2, <1>5, <2>1, <3>3, OnFacts
  <2>4. InSeek(D)'
    BY <1>3, <1>4, <1>8, <2>1, <2>2, <2>3 DEF InSeek
  <2> QED BY <1>3, <1>8, <2>4 DEF Searching, InDescend, InClimb, InSplice, InRepair
<1> QED BY <1>3, <1>7, <1>8

\* RB_REMOVE begins at the element, or below it if it has two children.
LEMMA CallRemoveKeeps ==
  ASSUME NEW D, Shape(tree, D), InTree = D[tree.root], CallRemove
  PROVE  Shape(tree', D) /\ Searching(D)'
<1>1. PICK x \in D[tree.root] :
        IF HasTwo(tree, x) THEN Enter("remove", x, "seek", Child(tree, x, "right"))
        ELSE Enter("remove", x, "splice", x)
  BY DEF CallRemove
<1>2. /\ tree' = tree /\ op' = "remove" /\ elm' = x /\ result' = NULL
      /\ IF HasTwo(tree, x) THEN pc' = "seek" /\ at' = Child(tree, x, "right") ELSE pc' = "splice" /\ at' = x
  BY <1>1 DEF Enter
<1>3. SeekSide' = "left"
  BY <1>2 DEF SeekSide
<1>4. D[tree.root] \subseteq Nat
  BY ShapeTypes
<1>5. x \in D[x] /\ D[x] \subseteq D[tree.root]
  BY DEF Shape, NodeIn
<1>6. CASE ~HasTwo(tree, x)
  <2>1. InSplice(D)'
    BY <1>2, <1>6 DEF InSplice
  <2> QED BY <1>2, <1>6, <2>1 DEF Searching, InDescend, InSeek, InClimb, InRepair
<1>7. CASE HasTwo(tree, x)
  <2> DEFINE child == Child(tree, x, "right")
  <2>0. "right" \in Sides /\ child # NULL
    BY <1>7 DEF HasTwo, Sides
  <2>1. /\ child \in D[tree.root] /\ child \in D[x] /\ \A y \in D[child] : On("right", y, x)
        /\ D[child] \subseteq D[x] /\ child \in D[child]
    BY <2>0, ChildFacts
  <2> HIDE DEF child
  <2>2. \A y \in D[child] : On("left", x, y)
    BY <2>1 DEF On
  <2>3. ASSUME NEW y \in D[tree.root], On("left", x, y), y \notin D[child]
        PROVE  On("left", child, y)
    <3>1. x # y /\ SideTo(y, x) = "right" /\ On("right", y, x)
      BY <1>4, <2>3 DEF On, SideTo
    <3>2. y \notin D[x]
      <4>1. y \in D[x] => y \in D[Child(tree, x, SideTo(y, x))]
        BY <3>1, BelowFacts
      <4> QED BY <2>3, <3>1, <4>1 DEF child
    <3>3. On("right", y, child)
      BY <1>5, <2>0, <2>1, <3>1, <3>2, ShapeIsTree, Convex
    <3> QED BY <3>3 DEF On
  <2>4. InSeek(D)'
    BY <1>2, <1>3, <1>7, <2>1, <2>2, <2>3 DEF InSeek, child
  <2> QED BY <1>2, <1>7, <2>4 DEF Searching, InDescend, InClimb, InSplice, InRepair
<1> QED BY <1>2, <1>6, <1>7

-----------------------------------------------------------------------------
(***************************************************************************)
(* The walks through the tree.                                             *)
(***************************************************************************)
\* A pass of a search loop goes down to where the element has to be.
LEMMA DescendKeeps ==
  ASSUME NEW D, Shape(tree, D), Searching(D), Descend
  PROVE  Shape(tree', D) /\ Searching(D)'
<1> DEFINE s == Toward(at)
           c == Child(tree, at, s)
           P == D[tree.root]
<1>1. /\ tree' = tree /\ pc = "descend" /\ pc' = pc /\ op' = op /\ elm' = elm /\ result' = result
      /\ at # NULL /\ at # elm
      /\ at' = c /\ up' = IF op = "nfind" /\ s = "right" THEN up ELSE at
  BY DEF Descend
<1>2. InDescend(D) /\ at \in P
  BY <1>1 DEF Searching, InDescend
<1>0. \/ op \in {"insert", "find", "nfind"} /\ elm \in Elements /\ (elm \in P => elm \in D[at])
      \/ op \in {"min", "max"} /\ elm = NULL
  <2>1. /\ pc = "descend" /\ InDescend(D)
    BY <1>1, <1>2
  <2> HIDE DEF s, c
  <2> QED BY <2>1 DEF InDescend
<1>3. s \in Sides
  BY SideValues
<1>4. P \subseteq Nat /\ P \subseteq Elements /\ Elements \subseteq Nat \ {NULL}
  BY ShapeTypes
<1>5. at \in D[at] /\ D[at] \subseteq P
  BY <1>2 DEF Shape, NodeIn
<1>6. \A z : Toward(z)' = Toward(z)
  BY <1>1 DEF Toward
<1> HIDE DEF s
<1>7. c \in P \cup {NULL}
  BY <1>2, <1>3, ChildFacts
<1>8. \A y \in D[at] : y # at => y \in D[Child(tree, at, SideTo(y, at))]
  BY <1>2 DEF Shape, NodeIn
<1>9. \A y \in P : y # at => On(SideTo(y, at), y, at) /\ SideTo(y, at) \in Sides
  BY <1>2, <1>4, OnFacts, <1>3
<1> HIDE DEF c
<1>10. ASSUME op \in {"insert", "find", "nfind"}
       PROVE  /\ elm \in Elements /\ elm \in Nat /\ s = SideTo(elm, at)
              /\ elm \in P => elm \in D[c]
  <2>1. elm \in Elements /\ elm \in Nat
    BY <1>0, <1>4, <1>10
  <2>2. s = SideTo(elm, at)
    BY <1>1, <1>2, <1>4, <1>10, <2>1, SideValues DEF s
  <2>3. elm \in P => elm \in D[at]
    BY <1>0, <1>10
  <2> QED BY <1>1, <1>8, <2>1, <2>2, <2>3 DEF c
<1>11. CASE op = "insert"
  <2>1. up' = at
    BY <1>1, <1>11
  <2>2. ASSUME NEW z \in P, NEW r \in Sides, at \in D[Child(tree, z, r)]
        PROVE  On(r, elm, z)
    <3> DEFINE d == Child(tree, z, r)
    <3>1. d \in P /\ Parent(tree, d) = z
      <4>1. d # NULL
        BY <2>2, ShapeTypes
      <4> QED BY <4>1, ChildFacts
    <3>2. CASE at = d
      <4>1. at # tree.root /\ up # NULL
        <5>1. at # tree.root
          BY <1>2, <3>2, <1>4, ChildFacts
        <5> QED BY <1>1, <1>2, <1>11, <5>1 DEF InDescend
      <4>2. up \in P /\ up # elm /\ at = Child(tree, up, Toward(up)) /\ Toward(up) \in Sides
        BY <1>1, <1>2, <1>11, <4>1, SideValues DEF InDescend
      <4>3. Parent(tree, at) = up /\ SideTo(at, up) = Toward(up)
        BY <1>1, <4>2, ChildFacts
      <4>4. z = up
        BY <3>1, <3>2, <4>3
      <4>5. SideTo(at, z) = r
        BY <1>1, <3>2, ChildFacts
      <4>6. r = SideTo(elm, up)
        BY <1>4, <1>10, <1>11, <4>2, <4>3, <4>4, <4>5, SideValues
      <4> QED BY <1>4, <1>10, <1>11, <4>2, <4>4, <4>6, OnFacts
    <3>3. CASE at # d
      <4>1. Parent(tree, at) \in D[d]
        <5> HIDE DEF d
        <5> QED BY <2>2, <3>1, <3>3, ParentBelow DEF d
      <4>2. Parent(tree, at) = up
        <5>1. at # tree.root
          <6>1. at \in D[d] /\ d # at /\ d \in D[tree.root]
            BY <2>2, <3>1, <3>3
          <6>2. D[at] \subseteq D[d]
            BY <6>1, BelowFacts
          <6>3. D[d] \subseteq D[z] /\ z \notin D[d]
            BY ChildFacts
          <6> QED BY <6>2, <6>3
        <5>2. up # NULL
          BY <1>1, <1>2, <1>11, <5>1 DEF InDescend
        <5>3. up \in P /\ at = Child(tree, up, Toward(up)) /\ Toward(up) \in Sides
          BY <1>1, <1>2, <1>11, <5>2, SideValues DEF InDescend
        <5> QED BY <1>1, <5>3, ChildFacts
      <4> QED BY <1>1, <1>2, <1>11, <4>1, <4>2 DEF InDescend
    <3> QED BY <3>2, <3>3
  <2> HIDE DEF P
  <2>3. InDescend(D)'
    BY <1>1, <1>2, <1>6, <1>7, <1>10, <1>11, <2>1, <2>2 DEF InDescend, P, c, s
  <2> QED BY <1>1, <2>3 DEF Searching, InSeek, InClimb, InSplice, InRepair
<1>12. CASE op = "find"
  <2> HIDE DEF P
  <2>3. InDescend(D)'
    BY <1>1, <1>2, <1>6, <1>7, <1>10, <1>12 DEF InDescend, P, c, s
  <2> QED BY <1>1, <2>3 DEF Searching, InSeek, InClimb, InSplice, InRepair
<1>13. CASE op = "nfind"
  <2>1. /\ up # NULL => elm < up /\ \A y \in D[at] : y < up
        /\ \A y \in P : elm <= y => y \in D[at] \/ (up # NULL /\ up <= y)
        /\ up \in P \cup {NULL}
    BY <1>1, <1>2, <1>13 DEF InDescend
  <2>2. elm \in Nat /\ s = SideTo(elm, at) /\ at \in Nat /\ elm # at
    BY <1>1, <1>2, <1>4, <1>10, <1>13
  <2>3. \A y \in D[c] : y \in D[at] /\ On(s, y, at) /\ y \in Nat
    <3>1. D[c] \subseteq D[at] /\ \A y \in D[c] : On(s, y, at)
      BY <1>2, <1>3, ChildFacts DEF c
    <3> QED BY <1>4, <1>5, <3>1
  <2>4. CASE s = "right"
    <3>1. up' = up /\ at < elm
      BY <1>1, <1>13, <2>2, <2>4 DEF SideTo
    <3>2. ASSUME NEW y \in P, elm <= y
          PROVE  y \in D[c] \/ (up # NULL /\ up <= y)
      <4>1. y \in Nat
        BY <1>4
      <4>2. SideTo(y, at) = "right" /\ y # at
        BY <2>2, <3>1, <3>2, <4>1 DEF SideTo
      <4> QED BY <1>8, <2>1, <2>4, <3>2, <4>2 DEF c
    <3>3. up' # NULL => elm' < up' /\ \A y \in D[c] : y < up'
      BY <1>1, <2>1, <2>3, <3>1
    <3> HIDE DEF P
    <3>4. InDescend(D)'
      BY <1>1, <1>2, <1>7, <1>10, <1>13, <2>1, <3>1, <3>2, <3>3 DEF InDescend, P
    <3> QED BY <1>1, <3>4 DEF Searching, InSeek, InClimb, InSplice, InRepair
  <2>5. CASE s = "left"
    <3>1. up' = at /\ elm < at
      BY <1>1, <1>13, <2>2, <2>5 DEF SideTo
    <3>2. ASSUME NEW y \in P, elm <= y
          PROVE  y \in D[c] \/ at <= y
      <4>1. y \in Nat /\ up \in Nat
        <5>1. NULL \in Nat
          BY DEF NULL
        <5> QED BY <1>4, <2>1, <5>1
      <4>2. SUFFICES ASSUME y < at PROVE y \in D[c]
        BY <2>2, <4>1
      <4>3. SideTo(y, at) = "left" /\ y # at
        BY <2>2, <4>1, <4>2 DEF SideTo
      <4>4. y \in D[at]
        <5>1. y \notin D[at] => up # NULL /\ up <= y
          BY <2>1, <3>2
        <5>2. up # NULL => at < up
          BY <1>5, <2>1
        <5> QED BY <2>2, <4>1, <4>2, <5>1, <5>2
      <4> QED BY <1>8, <2>5, <4>3, <4>4 DEF c
    <3>3. \A y \in D[c] : y < at
      BY <2>3, <2>5 DEF On
    <3> HIDE DEF P
    <3>4. InDescend(D)'
      BY <1>1, <1>2, <1>7, <1>10, <1>13, <2>1, <3>1, <3>2, <3>3 DEF InDescend, P
    <3> QED BY <1>1, <3>4 DEF Searching, InSeek, InClimb, InSplice, InRepair
  <2> QED BY <1>3, <2>4, <2>5 DEF Sides
<1>14. CASE op \in {"min", "max"}
  <2>1. /\ elm = NULL /\ up' = at
        /\ \A y \in P : y \in D[at] \/ (up # NULL /\ ~On(Toward(up), y, up))
        /\ IF up = NULL THEN at = tree.root ELSE at = Child(tree, up, Toward(up))
        /\ up \in P \cup {NULL} /\ Toward(up) = s
    <3>1. elm = NULL
      BY <1>0, <1>14
    <3>2. up' = at /\ up \in P \cup {NULL}
      BY <1>1, <1>2, <1>14 DEF InDescend
    <3>3. \A z : Toward(z) = s
      BY <1>14 DEF s, Toward
    <3>4. \A y \in P : y \in D[at] \/ (up # NULL /\ ~On(Toward(up), y, up))
      BY <1>1, <1>2, <1>14 DEF InDescend
    <3>5. IF up = NULL THEN at = tree.root ELSE at = Child(tree, up, Toward(up))
      BY <1>1, <1>2, <1>14 DEF InDescend
    <3> QED BY <3>1, <3>2, <3>3, <3>4, <3>5
  <2>2. ASSUME NEW y \in P PROVE y \in D[c] \/ ~On(s, y, at)
    <3> SUFFICES ASSUME On(s, y, at) PROVE y \in D[c]
      OBVIOUS
    <3>1. y # at /\ SideTo(y, at) = s
      BY <1>2, <1>3, <1>4, OnFacts
    <3>2. y \in D[at]
      <4>1. up # NULL => On(s, at, up)
        BY <1>1, <1>3, <2>1, ChildFacts
      <4>2. up # NULL => On(s, y, up)
        BY <1>2, <1>3, <1>4, <2>1, <4>1, OnTransitive
      <4> QED BY <2>1, <4>2
    <3> QED BY <1>8, <3>1, <3>2 DEF c
  <2> HIDE DEF P
  <2>3. InDescend(D)'
    BY <1>1, <1>2, <1>6, <1>7, <1>14, <2>1, <2>2 DEF InDescend, P, c, s
  <2> QED BY <1>1, <2>3 DEF Searching, InSeek, InClimb, InSplice, InRepair
<1> QED BY <1>0, <1>1, <1>11, <1>12, <1>13, <1>14

\* A pass of the loop that walks down to a neighbour.
LEMMA SeekKeeps ==
  ASSUME NEW D, Shape(tree, D), Searching(D), Seek
  PROVE  Shape(tree', D) /\ Searching(D)'
<1> DEFINE q == SeekSide
           c == Child(tree, at, q)
           P == D[tree.root]
<1>1. /\ tree' = tree /\ pc = "seek" /\ pc' = pc /\ op' = op /\ elm' = elm /\ result' = result
      /\ at' = c /\ up' = up /\ c # NULL
  BY DEF Seek
<1>2. InSeek(D) /\ at \in P /\ elm \in P
  BY <1>1 DEF Searching, InSeek
<1>3. q \in Sides
  BY SideValues
<1>4. P \subseteq Nat
  BY ShapeTypes
<1>5. SeekSide' = q
  BY <1>1 DEF SeekSide
<1> HIDE DEF q
<1>6. c \in P /\ c \in D[c] /\ D[c] \subseteq D[at] /\ On(q, c, at) /\ \A y \in D[c] : On(q, y, at)
  BY <1>1, <1>2, <1>3, ChildFacts
<1>7. at \in D[at] /\ D[at] \subseteq P
  BY <1>2 DEF Shape, NodeIn
<1>8. \A y \in D[at] : On(q, elm, y)
  BY <1>1, <1>2 DEF InSeek, q
<1>9. ASSUME NEW y \in P, On(q, elm, y)
      PROVE  y \in D[c] \/ On(q, c, y)
  <2>1. CASE y \in D[at] /\ y # at
    <3>1. y \in D[Child(tree, at, SideTo(y, at))] /\ SideTo(y, at) \in Sides /\ On(SideTo(y, at), y, at)
      BY <1>2, <2>1, BelowFacts
    <3>2. SideTo(y, at) = q \/ SideTo(y, at) = Other(q)
      BY <1>3, <3>1, SideFacts
    <3>3. CASE SideTo(y, at) = Other(q)
      <4>1. On(q, at, y)
        BY <1>2, <1>3, <1>4, <3>1, <3>3, OnFacts
      <4> QED BY <1>2, <1>3, <1>4, <1>6, <4>1, OnTransitive
    <3> QED BY <3>1, <3>2, <3>3
  <2>2. CASE y = at
    BY <1>6, <2>2
  <2>3. CASE y \notin D[at]
    <3>1. On(q, at, y)
      BY <1>1, <1>2, <1>9, <2>3 DEF InSeek, q
    <3> QED BY <1>2, <1>3, <1>4, <1>6, <3>1, OnTransitive
  <2> QED BY <2>1, <2>2, <2>3
<1> HIDE DEF c
<1>10. InSeek(D)'
  BY <1>1, <1>2, <1>5, <1>6, <1>8, <1>9 DEF InSeek
<1> QED BY <1>1, <1>10 DEF Searching, InDescend, InClimb, InSplice, InRepair

\* A pass of the loop that walks up to a neighbour.
LEMMA ClimbKeeps ==
  ASSUME NEW D, Shape(tree, D), Searching(D), Climb
  PROVE  Shape(tree', D) /\ Searching(D)'
<1> DEFINE q == SeekSide
           p == Parent(tree, at)
           P == D[tree.root]
<1>1. /\ tree' = tree /\ pc = "climb"
      /\ IF p # NULL /\ at = Child(tree, p, Other(q))
         THEN at' = p /\ UNCHANGED <<pc, op, elm, up, result>>
         ELSE Return(p)
  BY DEF Climb
<1>2. InClimb(D) /\ at \in P /\ elm \in P /\ elm \in D[at]
  BY <1>1 DEF Searching, InClimb
<1>3. CASE ~(p # NULL /\ at = Child(tree, p, Other(q)))
  BY <1>1, <1>3, Idle DEF Return
<1>4. CASE p # NULL /\ at = Child(tree, p, Other(q))
  <2>1. at' = p /\ pc' = pc /\ op' = op /\ elm' = elm /\ result' = result
    BY <1>1, <1>4
  <2>2. q \in Sides /\ Other(q) \in Sides
    BY SideValues, SideFacts
  <2>3. SeekSide' = q
    BY <2>1 DEF SeekSide
  <2>4. P \subseteq Nat
    BY ShapeTypes
  <2> HIDE DEF q
  <2>5. p \in P /\ at \in D[p]
    BY <1>2, <1>4, ParentFacts
  <2> HIDE DEF p
  <2>6. D[at] \subseteq D[p] /\ (\A y \in D[at] : On(Other(q), y, p)) /\ D[p] \subseteq P
    BY <1>4, <2>2, <2>5, ChildFacts
  <2>7. On(Other(q), elm, p) /\ On(q, p, elm)
    BY <1>2, <2>2, <2>4, <2>5, <2>6, OnFacts
  <2>8. ASSUME NEW y \in D[p] PROVE y = elm \/ On(q, y, elm)
    <3>1. CASE y = p
      BY <2>7, <3>1
    <3>2. CASE y # p
      <4>1. SideTo(y, p) \in Sides /\ y \in D[Child(tree, p, SideTo(y, p))] /\ On(SideTo(y, p), y, p)
        BY <2>5, <3>2, BelowFacts
      <4>2. SideTo(y, p) = q \/ SideTo(y, p) = Other(q)
        BY <2>2, <4>1, SideFacts
      <4>3. CASE SideTo(y, p) = q
        BY <1>2, <2>2, <2>4, <2>5, <2>6, <2>7, <4>1, <4>3, OnTransitive
      <4>4. CASE SideTo(y, p) = Other(q)
        <5>1. y \in D[at]
          BY <1>4, <4>1, <4>4
        <5> QED BY <1>1, <1>2, <5>1 DEF InClimb, q
      <4> QED BY <4>2, <4>3, <4>4
    <3> QED BY <3>1, <3>2
  <2>9. InClimb(D)'
    BY <1>1, <1>2, <2>1, <2>3, <2>5, <2>6, <2>8 DEF InClimb
  <2> QED BY <1>1, <2>1, <2>9 DEF Searching, InDescend, InSeek, InSplice, InRepair
<1> QED BY <1>1, <1>3, <1>4

-----------------------------------------------------------------------------
(***************************************************************************)
(* The colors.  H[x] is the number of black elements on every path down    *)
(* from x; during a removal the paths through the child of p at side s are *)
(* one short, and counted as if they were not.                             *)
(***************************************************************************)
Levels(t, P, H, p, s) ==
  /\ H \in [Slots -> Nat] /\ H[NULL] = 0
  /\ \A x \in P, r \in Sides :
       H[x] = H[Child(t, x, r)] + (IF x = p /\ r = s THEN 1 ELSE 0) + (IF IsRed(t, x) THEN 0 ELSE 1)

\* A red element is below a black one, but for a and what is below b.
Reds(t, P, a, b) ==
  \A x \in P : IsRed(t, x) =>
    \/ x # t.root /\ ~IsRed(t, Parent(t, x))
    \/ x = a
    \/ x # t.root /\ Parent(t, x) = b

\* What is known of the colors at each place of the code: in an insertion the new
\* element may be red below a red one, in a removal one side may be short.
Colored(P, H) ==
  LET removing == pc = "remove_color"
      repairing == removing \/ pc = "insert_color"
      short == removing /\ at # tree.root
      side == SideOf(tree, at, up)
  IN  /\ Levels(tree, P, H, IF short THEN up ELSE NULL, side)
      /\ Reds(tree, P, IF repairing THEN at ELSE NULL, IF removing THEN at ELSE NULL)
      /\ pc = "insert_color" => IsRed(tree, at)
      /\ short => up \in P /\ Child(tree, up, side) = at

\* NULL is not red.
LEMMA RedIs ==
  ASSUME NEW t, NEW x
  PROVE  IsRed(t, x) <=> x # NULL /\ Color(t, x) = "red"
  BY DEF IsRed, Color

\* When no path is short no side matters.
LEMMA NoHole ==
  ASSUME NEW t, NEW P, P \subseteq Elements, NEW H, NEW s, NEW r, Levels(t, P, H, NULL, s)
  PROVE  Levels(t, P, H, NULL, r)
  BY NoNull DEF Levels

\* The counts when no path is short.
Even(t, P, H) ==
  /\ H[NULL] = 0
  /\ \A z \in P, r \in Sides : H[z] = H[Child(t, z, r)] + (IF IsRed(t, z) THEN 0 ELSE 1)

\* Where no path is short, each count is that of either child, and one more at a
\* black element.
LEMMA LevelsAre ==
  ASSUME NEW t, NEW D, Shape(t, D), NEW H \in [Slots -> Nat], NEW e, NEW P, P = D[t.root]
  PROVE  Levels(t, P, H, NULL, e) <=> Even(t, P, H)
<1>1. \A z \in P, r \in Sides : z # NULL /\ z \in Slots /\ Child(t, z, r) \in Slots
  BY ShapeTypes, ChildFacts DEF Slots
<1>2. \A z \in P, r \in Sides : z # NULL /\ H[z] \in Nat /\ H[Child(t, z, r)] \in Nat
  BY <1>1
<1>3. \A z \in P, r \in Sides :
        H[Child(t, z, r)] + (IF z = NULL /\ r = e THEN 1 ELSE 0) + (IF IsRed(t, z) THEN 0 ELSE 1)
        = H[Child(t, z, r)] + (IF IsRed(t, z) THEN 0 ELSE 1)
  BY <1>2
<1> QED BY <1>3 DEF Levels, Even

\* A change of color leaves the shape.
LEMMA PaintShape ==
  ASSUME NEW t, NEW D, Shape(t, D), NEW x \in Slots, NEW color \in Colors,
         NEW u, u = SetColor(t, x, color)
  PROVE  /\ Shape(u, D) /\ SameLinks(t, u, Elements)
         /\ \A z \in Elements : Color(u, z) = IF z = x THEN color ELSE Color(t, z)
<1>1. t \in Pointers /\ D[t.root] \subseteq Elements
  BY ShapeTypes
<1>2. ColorSet(t, u, x, color)
  BY <1>1, SetColorIs
<1>3. SameLinks(t, u, Elements) /\ SameLinks(t, u, D[t.root])
  BY <1>1, <1>2 DEF ColorSet, SameLinks
<1> QED BY <1>2, <1>3, SameShape DEF ColorSet

\* RB_SET_BLACKRED leaves the shape.
LEMMA BlackRedShape ==
  ASSUME NEW t, NEW D, Shape(t, D), NEW b \in Slots, NEW r \in Slots, NEW u, u = BlackRed(t, b, r)
  PROVE  /\ Shape(u, D) /\ SameLinks(t, u, Elements)
         /\ \A z \in Elements : Color(u, z) = IF z = r THEN "red" ELSE IF z = b THEN "black" ELSE Color(t, z)
<1> DEFINE v == SetColor(t, b, "black")
<1>1. u = SetColor(v, r, "red") /\ "black" \in Colors /\ "red" \in Colors
  BY DEF BlackRed, Colors
<1>2. /\ Shape(v, D) /\ SameLinks(t, v, Elements)
      /\ \A z \in Elements : Color(v, z) = IF z = b THEN "black" ELSE Color(t, z)
  BY <1>1, PaintShape
<1> HIDE DEF v
<1>3. /\ Shape(u, D) /\ SameLinks(v, u, Elements)
      /\ \A z \in Elements : Color(u, z) = IF z = r THEN "red" ELSE Color(v, z)
  BY <1>1, <1>2, PaintShape
<1> QED BY <1>2, <1>3 DEF SameLinks

\* What a rotation leaves alone.
LEMMA RotateOrdinary ==
  ASSUME NEW t, NEW D, Shape(t, D), NEW x \in D[t.root], NEW s \in Sides,
         NEW y, y = Child(t, x, Other(s)), y # NULL, NEW u, RotatedTo(t, u, x, s, y),
         NEW z \in D[t.root], z # x, z # y
  PROVE  /\ Color(u, z) = Color(t, z) /\ (IsRed(u, z) <=> IsRed(t, z))
         /\ \A r \in Sides : Child(u, z, r) = IF Child(t, z, r) = x THEN y ELSE Child(t, z, r)
         /\ \A r \in Sides : Child(t, z, r) # y
         /\ Parent(u, z) = IF z = Child(t, y, s) THEN x ELSE Parent(t, z)
         /\ z = Child(t, y, s) => Parent(t, z) = y
<1>1. /\ D[t.root] \subseteq Elements /\ Elements \subseteq Nat \ {NULL}
  BY ShapeTypes
<1>2. y \in D[t.root] /\ Parent(t, y) = x /\ x \in Elements /\ y \in Elements
  BY SideFacts, ChildFacts
<1>3. z \in Elements /\ z # NULL
  BY <1>1
<1>4. Color(u, z) = Color(t, z)
  BY <1>3 DEF RotatedTo
<1>5. ASSUME NEW r \in Sides
      PROVE  /\ Child(u, z, r) = IF Child(t, z, r) = x THEN y ELSE Child(t, z, r)
             /\ Child(t, z, r) # y
  <2> DEFINE p == Parent(t, x)
  <2>1. Child(u, z, r) = IF z = p /\ r = SideOf(t, x, z) THEN y ELSE Child(t, z, r)
    BY <1>3 DEF RotatedTo
  <2>2. Child(t, z, r) = x => z = p /\ r = SideOf(t, x, z)
    BY <1>1, <1>2, ChildFacts
  <2>3. z = p => Child(t, z, SideOf(t, x, z)) = x
    BY <1>3, ParentFacts
  <2>4. Child(t, z, r) # y
    BY <1>2, ChildFacts
  <2> HIDE DEF p
  <2> QED BY <2>1, <2>2, <2>3, <2>4
<1>6. Parent(u, z) = IF z = Child(t, y, s) THEN x ELSE Parent(t, z)
  BY <1>3 DEF RotatedTo
<1>7. z = Child(t, y, s) => Parent(t, z) = y
  BY <1>2, <1>3, ChildFacts
<1>8. IsRed(u, z) <=> IsRed(t, z)
  BY <1>4, RedIs
<1> QED BY <1>4, <1>5, <1>6, <1>7, <1>8

\* The two that a rotation turns.
LEMMA RotatePair ==
  ASSUME NEW t, NEW D, Shape(t, D), NEW x \in D[t.root], NEW s \in Sides,
         NEW y, y = Child(t, x, Other(s)), y # NULL, NEW u, RotatedTo(t, u, x, s, y)
  PROVE  /\ x \in Elements /\ y \in Elements /\ x # y
         /\ Color(u, x) = Color(t, x) /\ Color(u, y) = Color(t, y)
         /\ Parent(u, x) = y /\ Parent(u, y) = Parent(t, x)
         /\ Child(u, x, s) = Child(t, x, s) /\ Child(u, x, Other(s)) = Child(t, y, s)
         /\ Child(u, y, s) = x /\ Child(u, y, Other(s)) = Child(t, y, Other(s))
         /\ u.root = IF t.root = x THEN y ELSE t.root
         /\ Child(t, x, s) \notin {x, y} /\ Child(t, y, s) \notin {x, y} /\ Child(t, y, Other(s)) \notin {x, y}
<1>1. /\ D[t.root] \subseteq Elements /\ Elements \subseteq Nat \ {NULL} /\ Other(s) \in Sides /\ Other(s) # s
      /\ Other(Other(s)) = s
  BY ShapeTypes, SideFacts
<1>2. /\ x \in Elements /\ y \in Elements /\ x # y /\ y \in D[t.root] /\ Parent(t, y) = x
      /\ Child(t, x, s) # y /\ x \notin D[y]
  BY <1>1, ChildFacts
<1>3. Child(t, x, s) # x
  BY ChildFacts
<1>4. Child(t, y, s) # y /\ Child(t, y, Other(s)) # y
  BY <1>1, <1>2, ChildFacts
<1>5. \A r \in Sides : Child(t, y, r) # x
  BY <1>1, <1>2, ChildFacts
<1>6. u.root = IF t.root = x THEN y ELSE t.root
  BY ParentFacts DEF RotatedTo
<1> QED BY <1>1, <1>2, <1>3, <1>4, <1>5, <1>6 DEF RotatedTo

-----------------------------------------------------------------------------
(***************************************************************************)
(* The colors in an insertion.                                             *)
(***************************************************************************)
\* A new red leaf leaves the counts, and is the only red one that may be below a red one.
LEMMA LinkColored ==
  ASSUME NEW t, NEW D, Shape(t, D), NEW x, NEW p \in Slots, NEW r, Gap(t, D, x, p, r),
         NEW u, u = LinkedAt(t, x, p, r), NEW H, NEW s, Levels(t, D[t.root], H, NULL, s),
         Reds(t, D[t.root], NULL, NULL)
  PROVE  /\ \E J : Levels(u, D[t.root] \cup {x}, J, NULL, s)
         /\ Reds(u, D[t.root] \cup {x}, x, NULL) /\ IsRed(u, x)
<1> DEFINE P == D[t.root]
           J == [H EXCEPT ![x] = 0]
<1>1. /\ P \subseteq Elements /\ Elements \subseteq Nat \ {NULL} /\ x \in Elements /\ x \notin P
      /\ t.root \in Slots /\ (t.root # NULL => t.root \in P)
  BY ShapeTypes DEF Gap
<1>2. /\ u.root = IF p = NULL THEN x ELSE t.root
      /\ Parent(u, x) = p /\ Color(u, x) = "red" /\ \A e \in Sides : Child(u, x, e) = NULL
      /\ \A z \in Elements : z # x =>
           /\ Parent(u, z) = Parent(t, z) /\ Color(u, z) = Color(t, z)
           /\ \A e \in Sides : Child(u, z, e) = IF z = p /\ e = r THEN x ELSE Child(t, z, e)
  <2>1. LinkedIn(t, u, x, p, r)
    BY LinkShape
  <2> QED BY <2>1 DEF LinkedIn
<1>3. IsRed(u, x) /\ \A z \in P : IsRed(u, z) <=> IsRed(t, z)
  BY <1>1, <1>2, RedIs
<1>4. /\ H \in [Slots -> Nat] /\ H[NULL] = 0
      /\ J \in [Slots -> Nat] /\ J[NULL] = 0 /\ J[x] = 0 /\ \A z \in Slots : z # x => J[z] = H[z]
  BY <1>1 DEF Levels, Slots
<1> HIDE DEF J
<1>5. ASSUME NEW z \in P, NEW e \in Sides
      PROVE  J[z] = J[Child(u, z, e)] + (IF IsRed(u, z) THEN 0 ELSE 1)
  <2> DEFINE c == Child(t, z, e)
  <2>1. z # x /\ z \in Elements /\ z \in Slots /\ z # NULL
    BY <1>1 DEF Slots
  <2>2. c \in Slots /\ c # x
    BY <1>1, ChildFacts
  <2>3. H[z] = H[c] + (IF IsRed(t, z) THEN 0 ELSE 1)
    BY <1>4, LevelsAre DEF Even
  <2>4. Child(u, z, e) = IF z = p /\ e = r THEN x ELSE c
    BY <1>2, <2>1
  <2>5. z = p /\ e = r => c = NULL
    BY <2>1 DEF Gap
  <2> HIDE DEF c
  <2>6. J[Child(u, z, e)] = H[c]
    BY <1>4, <2>2, <2>4, <2>5
  <2> QED BY <1>3, <1>4, <2>1, <2>3, <2>6
<1>6. \A z \in P \cup {x} : z # NULL
  BY <1>1
<1>7. Levels(u, P \cup {x}, J, NULL, s)
  <2> DEFINE F == Grown(D, x, p)
             Q == P \cup {x}
  <2> HIDE DEF F
  <2>1. Shape(u, F)
    BY LinkShape DEF F
  <2>4. F[u.root] = Q
    BY LinkShape DEF F
  <2>2. \A e \in Sides : J[x] = J[Child(u, x, e)] + (IF IsRed(u, x) THEN 0 ELSE 1)
    BY <1>2, <1>3, <1>4
  <2> HIDE DEF P
  <2>3. \A z \in Q, e \in Sides : J[z] = J[Child(u, z, e)] + (IF IsRed(u, z) THEN 0 ELSE 1)
    BY <1>5, <2>2
  <2> HIDE DEF Q
  <2>5. Levels(u, Q, J, NULL, s)
    <3>1. Q = F[u.root] /\ J \in [Slots -> Nat]
      BY <1>4, <2>4
    <3>2. Even(u, Q, J)
      BY <1>4, <2>3 DEF Even
    <3> QED BY <2>1, <3>1, <3>2, LevelsAre
  <2> QED BY <2>5 DEF Q
<1>8. Reds(u, P \cup {x}, x, NULL)
  <2> SUFFICES ASSUME NEW z \in P, IsRed(u, z)
               PROVE  z # u.root /\ ~IsRed(u, Parent(u, z))
    BY DEF Reds
  <2>1. IsRed(t, z) /\ z # x /\ z \in Elements /\ Parent(u, z) = Parent(t, z)
    BY <1>1, <1>2, <1>3
  <2>2. z # t.root /\ ~IsRed(t, Parent(t, z))
    BY <1>6, <2>1, ParentFacts DEF Reds
  <2>3. Parent(t, z) \in P
    BY <2>2, ParentFacts
  <2>4. u.root = t.root
    <3>1. t.root # NULL
      BY ShapeTypes
    <3> QED BY <1>1, <1>2, <3>1 DEF Gap
  <2> QED BY <1>3, <2>1, <2>2, <2>3, <2>4
<1> QED BY <1>3, <1>7, <1>8

\* What a red parent says of the elements around it.
UnderRed(t, P, H, x, p, g, s) ==
  /\ p \in P /\ g \in P /\ g # NULL /\ p # x /\ p # g /\ x # g
  /\ s \in Sides /\ Child(t, g, s) = p
  /\ ~IsRed(t, g) /\ SideOf(t, x, p) \in Sides /\ Child(t, p, SideOf(t, x, p)) = x
  /\ \A r \in Sides : Child(t, p, r) # x => ~IsRed(t, Child(t, p, r))
  /\ \A r \in Sides : ~IsRed(t, Child(t, x, r))
  /\ \A z \in P : IsRed(t, z) /\ z # x => z # t.root /\ ~IsRed(t, Parent(t, z))
  /\ H[g] = H[p] + 1 /\ H[p] = H[x] /\ H[g] = H[Child(t, g, Other(s))] + 1
  /\ \A r \in Sides : H[p] = H[Child(t, p, r)] /\ H[x] = H[Child(t, x, r)]

\* When an element and its parent are red there is a black grandparent.
LEMMA RedParent ==
  ASSUME NEW t, NEW D, Shape(t, D), NEW H, NEW e, Levels(t, D[t.root], H, NULL, e),
         NEW x \in D[t.root], Reds(t, D[t.root], x, NULL), IsRed(t, x),
         NEW p, p = Parent(t, x), IsRed(t, p), NEW g, g = Parent(t, p),
         NEW s, s = SideOf(t, p, g)
  PROVE  UnderRed(t, D[t.root], H, x, p, g, s)
<1> DEFINE P == D[t.root]
<1>1. P \subseteq Elements /\ Elements \subseteq Nat \ {NULL}
  BY ShapeTypes
<1>2. p # NULL
  BY RedIs
<1>3. p \in P /\ p # x /\ SideOf(t, x, p) \in Sides /\ Child(t, p, SideOf(t, x, p)) = x
      /\ p \notin D[x] /\ x \in D[p]
  BY <1>2, ParentFacts
<1>4. \A z \in P : IsRed(t, z) /\ z # x => z # t.root /\ ~IsRed(t, Parent(t, z))
  BY <1>1, ParentFacts DEF Reds
<1>5. p # t.root /\ ~IsRed(t, g)
  BY <1>3, <1>4
<1>6. g \in P /\ g # NULL /\ p # g /\ s \in Sides /\ Child(t, g, s) = p /\ g \notin D[p]
  BY <1>1, <1>3, <1>5, ParentFacts
<1>7. x # g
  BY <1>3, <1>6
<1>8. \A z \in P, r \in Sides : Child(t, z, r) # NULL => Child(t, z, r) \in P /\ Parent(t, Child(t, z, r)) = z
  BY ChildFacts
<1>9. \A r \in Sides : Child(t, p, r) # x => ~IsRed(t, Child(t, p, r))
  BY <1>3, <1>4, <1>8, RedIs
<1>10. \A r \in Sides : ~IsRed(t, Child(t, x, r))
  <2>1. ASSUME NEW r \in Sides, IsRed(t, Child(t, x, r)) PROVE FALSE
    <3>1. Child(t, x, r) # NULL
      BY <2>1, RedIs
    <3>2. Child(t, x, r) # x
      BY ChildFacts
    <3> QED BY <1>4, <1>8, <2>1, <3>1, <3>2
  <2> QED BY <2>1
<1>11. /\ H[p] \in Nat /\ H[x] \in Nat /\ H[g] \in Nat
       /\ \A z \in P, r \in Sides : H[z] = H[Child(t, z, r)] + (IF IsRed(t, z) THEN 0 ELSE 1)
                                    /\ H[Child(t, z, r)] \in Nat
  <2>1. \A z \in P, r \in Sides : Child(t, z, r) \in Slots /\ z \in Slots /\ z # NULL
    BY <1>1, ChildFacts DEF Slots
  <2> HIDE DEF P
  <2>2. \A z \in P, r \in Sides : H[Child(t, z, r)] \in Nat /\ H[z] \in Nat
    BY <2>1 DEF Levels
  <2>3. \A z \in P, r \in Sides : H[z] = H[Child(t, z, r)] + (IF IsRed(t, z) THEN 0 ELSE 1)
    BY <2>1, <2>2 DEF Levels, P
  <2> QED BY <1>3, <1>6, <2>2, <2>3
<1>12. H[g] = H[p] + 1 /\ H[g] = H[Child(t, g, Other(s))] + 1
  <2>1. Other(s) \in Sides
    BY <1>6, SideFacts
  <2> QED BY <1>5, <1>6, <1>11, <2>1
<1>13. \A r \in Sides : H[p] = H[Child(t, p, r)] /\ H[x] = H[Child(t, x, r)]
  BY <1>3, <1>11
<1>14. H[p] = H[x]
  BY <1>3, <1>13
<1> QED BY <1>3, <1>4, <1>5, <1>6, <1>7, <1>9, <1>10, <1>12, <1>13, <1>14 DEF UnderRed

\* The repair of an insertion is at x: x is red, and all else is in order.
Ended(u, P, x, e) ==
  /\ \E F : Shape(u, F) /\ F[u.root] = P
  /\ Reds(u, P, x, NULL) /\ IsRed(u, x)
  /\ \E J : Levels(u, P, J, NULL, e)

\* A red uncle: the trouble moves up to the grandparent.
LEMMA RecoloredColored ==
  ASSUME NEW t, NEW D, Shape(t, D), NEW H, NEW e, Levels(t, D[t.root], H, NULL, e),
         NEW x, NEW p, NEW g, NEW s, UnderRed(t, D[t.root], H, x, p, g, s),
         x \in D[t.root], IsRed(t, x), IsRed(t, p),
         NEW v, v = Child(t, g, Other(s)), IsRed(t, v),
         NEW u, u = Recolored(t, p, g, v)
  PROVE  g \in D[t.root] /\ Ended(u, D[t.root], g, e)
<1> DEFINE P == D[t.root]
           J == [[H EXCEPT ![p] = H[p] + 1] EXCEPT ![v] = H[v] + 1]
           t1 == SetColor(t, v, "black")
<1>1. /\ p \in P /\ g \in P /\ g # NULL /\ p # x /\ p # g /\ x # g
      /\ s \in Sides /\ Child(t, g, s) = p
      /\ ~IsRed(t, g)
      /\ \A z \in P : IsRed(t, z) /\ z # x => z # t.root /\ ~IsRed(t, Parent(t, z))
  BY DEF UnderRed
<1>2. P \subseteq Elements /\ Elements \subseteq Nat \ {NULL} /\ Other(s) \in Sides
  BY <1>1, ShapeTypes, SideFacts
<1>3. v # NULL /\ v \in P /\ v # p /\ v # g /\ Parent(t, v) = g /\ Parent(t, p) = g
  <2>1. v # NULL
    BY RedIs
  <2> QED BY <1>1, <1>2, <2>1, ChildFacts
<1>4. p \in Slots /\ g \in Slots /\ v \in Slots /\ p \in Elements /\ g \in Elements /\ v \in Elements
  BY <1>1, <1>2, <1>3 DEF Slots
<1>5. /\ Shape(t1, D) /\ SameLinks(t, t1, Elements)
      /\ \A z \in Elements : Color(t1, z) = IF z = v THEN "black" ELSE Color(t, z)
  BY <1>4, PaintShape DEF Colors
<1>6. u = BlackRed(t1, p, g)
  BY DEF Recolored
<1> HIDE DEF t1
<1>7. /\ Shape(u, D) /\ SameLinks(t1, u, Elements)
      /\ \A z \in Elements : Color(u, z) = IF z = g THEN "red" ELSE IF z = p THEN "black" ELSE Color(t1, z)
  BY <1>4, <1>5, <1>6, BlackRedShape
<1>8. /\ u.root = t.root
      /\ \A z \in Elements : Parent(u, z) = Parent(t, z) /\ \A r \in Sides : Child(u, z, r) = Child(t, z, r)
  BY <1>5, <1>7 DEF SameLinks
<1>9. /\ IsRed(u, g) /\ ~IsRed(u, p) /\ ~IsRed(u, v)
      /\ \A z \in Elements : z \notin {g, p, v} => (IsRed(u, z) <=> IsRed(t, z))
  BY <1>1, <1>3, <1>4, <1>5, <1>7, RedIs
<1>10. /\ H \in [Slots -> Nat] /\ H[NULL] = 0
       /\ J \in [Slots -> Nat] /\ J[p] = H[p] + 1 /\ J[v] = H[v] + 1
       /\ \A z \in Slots : z \notin {p, v} => J[z] = H[z]
  BY <1>3, <1>4 DEF Levels
<1> HIDE DEF J
<1>11. J[NULL] = 0
  <2>1. NULL \in Slots /\ NULL \notin {p, v}
    BY <1>2, <1>4 DEF Slots
  <2> QED BY <1>10, <2>1
<1>12. ASSUME NEW z \in P, NEW r \in Sides
       PROVE  J[z] = J[Child(u, z, r)] + (IF IsRed(u, z) THEN 0 ELSE 1)
  <2> DEFINE c == Child(t, z, r)
  <2>1. z \in Elements /\ z \in Slots /\ z # NULL /\ c \in Slots /\ Child(u, z, r) = c
    BY <1>2, <1>8, ChildFacts DEF Slots
  <2>2. H[z] = H[c] + (IF IsRed(t, z) THEN 0 ELSE 1) /\ H[c] \in Nat /\ H[z] \in Nat
    BY <1>10, <2>1 DEF Levels
  <2>3. c # NULL => Parent(t, c) = z /\ c # z
    BY ChildFacts
  <2> HIDE DEF c
  <2>4. CASE z = g
    <3>1. c = p \/ c = v
      <4>1. r = s \/ r = Other(s)
        BY <1>1, SideFacts
      <4> QED BY <1>1, <2>4, <4>1 DEF c
    <3> QED BY <1>1, <1>3, <1>9, <1>10, <2>1, <2>2, <2>4, <3>1
  <2>5. CASE z # g
    <3>1. c \notin {p, v}
      BY <1>3, <1>4, <1>2, <2>3, <2>5
    <3> QED BY <1>3, <1>9, <1>10, <2>1, <2>2, <2>5, <3>1
  <2> QED BY <2>4, <2>5
<1>13. Levels(u, P, J, NULL, e)
  BY <1>7, <1>8, <1>10, <1>11, <1>12, LevelsAre DEF Even
<1>14. Reds(u, P, g, NULL)
  <2> SUFFICES ASSUME NEW z \in P, IsRed(u, z), z # g
               PROVE  z # u.root /\ ~IsRed(u, Parent(u, z))
    BY DEF Reds
  <2>1. z \in Elements /\ z # p /\ z # v /\ IsRed(t, z) /\ Parent(u, z) = Parent(t, z)
    BY <1>2, <1>8, <1>9
  <2>2. CASE z = x
    <3>1. x # t.root /\ Parent(t, x) = p
      <4>1. SideOf(t, x, p) \in Sides /\ Child(t, p, SideOf(t, x, p)) = x /\ x # NULL
        BY <1>2 DEF UnderRed
      <4> QED BY <1>1, <4>1, ChildFacts
    <3> QED BY <1>8, <1>9, <2>1, <2>2, <3>1
  <2>3. CASE z # x
    <3>1. z # t.root /\ ~IsRed(t, Parent(t, z))
      BY <1>1, <2>1, <2>3
    <3>2. Parent(t, z) \in P /\ Parent(t, z) \in Elements
      BY <3>1, ParentFacts
    <3>3. Parent(t, z) # g
      <4> SUFFICES ASSUME Parent(t, z) = g PROVE FALSE
        OBVIOUS
      <4>1. z = Child(t, g, SideOf(t, z, g)) /\ SideOf(t, z, g) \in Sides
        BY <1>1, ParentFacts
      <4>2. SideOf(t, z, g) = s \/ SideOf(t, z, g) = Other(s)
        BY <1>1, <4>1, SideFacts
      <4> QED BY <1>1, <2>1, <4>1, <4>2
    <3> QED BY <1>8, <1>9, <2>1, <3>1, <3>2, <3>3
  <2> QED BY <2>2, <2>3
<1>15. \E F : Shape(u, F) /\ F[u.root] = P
  BY <1>7, <1>8
<1> QED BY <1>1, <1>9, <1>13, <1>14, <1>15 DEF Ended

-----------------------------------------------------------------------------
(***************************************************************************)
(* The colors around a rotation.                                           *)
(***************************************************************************)
\* How much the paths from z to side r are short.
Hole(z, r, p, e) == IF z = p /\ r = e THEN 1 ELSE 0
\* How much an element counts.
Black(t, z) == IF IsRed(t, z) THEN 0 ELSE 1
\* The count of z, by its child at side r.
Counts(t, J, z, r, p, e) == J[z] = J[Child(t, z, r)] + Hole(z, r, p, e) + Black(t, z)

\* Levels, said with Counts.
LEMMA LevelsCount ==
  ASSUME NEW t, NEW P, NEW H, NEW p, NEW e
  PROVE  Levels(t, P, H, p, e) <=>
           /\ H \in [Slots -> Nat] /\ H[NULL] = 0
           /\ \A z \in P, r \in Sides : Counts(t, H, z, r, p, e)
  BY DEF Levels, Counts, Hole, Black

\* J counts after a rotation of x what H counted before it.
Recounted(t, P, H, J, x, s, y, p, e) ==
  /\ J \in [Slots -> Nat] /\ J[NULL] = 0 /\ J[y] = H[x]
  /\ \A z \in Slots : z # x /\ z # y => J[z] = H[z]
  /\ \A z \in P, r \in Sides : z # x /\ z # y => Counts(t, H, z, r, p, e)
  /\ J[x] = J[Child(t, x, s)] + Hole(x, s, p, e) + Black(t, x)
  /\ J[x] = J[Child(t, y, s)] + Hole(x, Other(s), p, e) + Black(t, x)
  /\ J[y] = J[x] + Hole(y, s, p, e) + Black(t, y)
  /\ J[y] = J[Child(t, y, Other(s))] + Hole(y, Other(s), p, e) + Black(t, y)

\* A rotation keeps the counts of all but the two elements it turns.
LEMMA RotateLevels ==
  ASSUME NEW t, NEW D, Shape(t, D), NEW x \in D[t.root], NEW s \in Sides,
         NEW y, y = Child(t, x, Other(s)), y # NULL, NEW u, RotatedTo(t, u, x, s, y),
         NEW H, NEW J, NEW p, NEW e, Recounted(t, D[t.root], H, J, x, s, y, p, e)
  PROVE  Levels(u, D[t.root], J, p, e)
<1> DEFINE P == D[t.root]
<1>1. /\ x # y
      /\ Color(u, x) = Color(t, x) /\ Color(u, y) = Color(t, y)
      /\ Child(u, x, s) = Child(t, x, s) /\ Child(u, x, Other(s)) = Child(t, y, s)
      /\ Child(u, y, s) = x /\ Child(u, y, Other(s)) = Child(t, y, Other(s))
  BY RotatePair
<1>2. Black(u, x) = Black(t, x) /\ Black(u, y) = Black(t, y)
  BY <1>1, RedIs DEF Black
<1>3. \A r \in Sides : r = s \/ r = Other(s)
  BY SideFacts
<1>4. \A r \in Sides : Counts(u, J, x, r, p, e)
  BY <1>1, <1>2, <1>3 DEF Counts, Recounted
<1>5. \A r \in Sides : Counts(u, J, y, r, p, e)
  BY <1>1, <1>2, <1>3 DEF Counts, Recounted
<1>6. ASSUME NEW z \in P, z # x, z # y, NEW r \in Sides PROVE Counts(u, J, z, r, p, e)
  <2>1. /\ Black(u, z) = Black(t, z)
        /\ Child(u, z, r) = IF Child(t, z, r) = x THEN y ELSE Child(t, z, r)
        /\ Child(t, z, r) # y
    <3>1. IsRed(u, z) <=> IsRed(t, z)
      BY <1>6, RotateOrdinary
    <3>2. Child(u, z, r) = (IF Child(t, z, r) = x THEN y ELSE Child(t, z, r)) /\ Child(t, z, r) # y
      BY <1>6, RotateOrdinary
    <3> QED BY <3>1, <3>2 DEF Black
  <2>2. Child(t, z, r) \in Slots /\ z \in Slots
    BY ShapeTypes, ChildFacts DEF Slots
  <2>3. J[Child(u, z, r)] = H[Child(t, z, r)] /\ J[z] = H[z]
    BY <1>6, <2>1, <2>2 DEF Recounted
  <2>4. Counts(t, H, z, r, p, e)
    BY <1>6 DEF Recounted
  <2> QED BY <2>1, <2>3, <2>4 DEF Counts
<1>7. \A z \in P, r \in Sides : Counts(u, J, z, r, p, e)
  BY <1>4, <1>5, <1>6
<1> QED BY <1>7, LevelsCount DEF Recounted

\* When a rotation brings no red element below a red one.
LEMMA RotateReds ==
  ASSUME NEW t, NEW D, Shape(t, D), NEW x \in D[t.root], NEW s \in Sides,
         NEW y, y = Child(t, x, Other(s)), y # NULL, NEW u, RotatedTo(t, u, x, s, y), NEW a,
         \A z \in D[t.root] : z # x /\ z # y /\ z # a /\ IsRed(t, z) =>
           /\ z # t.root
           /\ IF z = Child(t, y, s) THEN ~IsRed(t, x)
              ELSE Parent(t, z) # x /\ Parent(t, z) # y /\ ~IsRed(t, Parent(t, z)),
         IsRed(t, x) => ~IsRed(t, y),
         IsRed(t, y) => x # t.root /\ ~IsRed(t, Parent(t, x))
  PROVE  Reds(u, D[t.root], a, NULL)
<1> DEFINE P == D[t.root]
<1>1. /\ x \in Elements /\ y \in Elements /\ x # y
      /\ Color(u, x) = Color(t, x) /\ Color(u, y) = Color(t, y)
      /\ Parent(u, x) = y /\ Parent(u, y) = Parent(t, x)
      /\ u.root = IF t.root = x THEN y ELSE t.root
  BY RotatePair
<1>2. (IsRed(u, x) <=> IsRed(t, x)) /\ (IsRed(u, y) <=> IsRed(t, y))
  BY <1>1, RedIs
<1>3. \A z \in P : z # x /\ z # y =>
        /\ IsRed(u, z) <=> IsRed(t, z)
        /\ Parent(u, z) = IF z = Child(t, y, s) THEN x ELSE Parent(t, z)
  BY RotateOrdinary
<1>4. y \in P /\ Parent(t, y) = x /\ y # t.root /\ Other(s) \in Sides
  BY SideFacts, ChildFacts
<1>5. ASSUME NEW z \in P, IsRed(u, z), z # a
      PROVE  z # u.root /\ ~IsRed(u, Parent(u, z))
  <2>1. CASE z = x
    <3>1. x # u.root
      BY <1>1
    <3> QED BY <1>1, <1>2, <1>5, <2>1, <3>1
  <2>2. CASE z = y
    <3>1. x # t.root /\ ~IsRed(t, Parent(t, x))
      BY <1>2, <1>5, <2>2
    <3>2. Parent(t, x) \in P /\ Parent(t, x) # x
      BY <3>1, ParentFacts
    <3>3. Parent(t, x) # y
      BY <3>1, <1>4, ParentFacts, ChildFacts
    <3>4. ~IsRed(u, Parent(t, x))
      BY <1>3, <3>1, <3>2, <3>3
    <3> QED BY <1>1, <1>4, <2>2, <3>1, <3>4
  <2>3. CASE z # x /\ z # y
    <3>1. /\ z # t.root
          /\ IF z = Child(t, y, s) THEN ~IsRed(t, x)
             ELSE Parent(t, z) # x /\ Parent(t, z) # y /\ ~IsRed(t, Parent(t, z))
      BY <1>3, <1>5, <2>3
    <3>2. Parent(t, z) \in P
      BY <3>1, ParentFacts
    <3> QED BY <1>1, <1>2, <1>3, <2>3, <3>1, <3>2
  <2> QED BY <2>1, <2>2, <2>3
<1> QED BY <1>5 DEF Reds

-----------------------------------------------------------------------------
\* The end of an insertion's repair: a red child on the outside of its parent.
LEMMA OuterColored ==
  ASSUME NEW t, NEW D, Shape(t, D), NEW H, NEW e, Levels(t, D[t.root], H, NULL, e),
         NEW x, NEW p, NEW g, NEW s, UnderRed(t, D[t.root], H, x, p, g, s),
         x \in D[t.root], IsRed(t, x), IsRed(t, p),
         ~IsRed(t, Child(t, g, Other(s))), Child(t, p, s) = x,
         NEW u, u = Rotate(BlackRed(t, p, g), g, Other(s))
  PROVE  Ended(u, D[t.root], x, e)
<1> DEFINE P == D[t.root]
           t1 == BlackRed(t, p, g)
           o == Other(s)
           J == [H EXCEPT ![p] = H[g], ![g] = H[p]]
<1>1. /\ p \in P /\ g \in P /\ g # NULL /\ p # x /\ p # g /\ x # g
      /\ s \in Sides /\ Child(t, g, s) = p /\ ~IsRed(t, g)
      /\ \A r \in Sides : Child(t, p, r) # x => ~IsRed(t, Child(t, p, r))
      /\ \A z \in P : IsRed(t, z) /\ z # x => z # t.root /\ ~IsRed(t, Parent(t, z))
      /\ H[g] = H[p] + 1 /\ H[p] = H[x] /\ H[g] = H[Child(t, g, Other(s))] + 1
      /\ \A r \in Sides : H[p] = H[Child(t, p, r)] /\ H[x] = H[Child(t, x, r)]
  BY DEF UnderRed
<1>2. /\ P \subseteq Elements /\ Elements \subseteq Nat \ {NULL} /\ o \in Sides /\ Other(o) = s /\ s # o
      /\ \A r \in Sides : r = s \/ r = o
      /\ P \subseteq Slots
  BY <1>1, ShapeTypes, SideFacts DEF Slots
<1>3. /\ Shape(t1, D) /\ SameLinks(t, t1, Elements)
      /\ \A z \in Elements : Color(t1, z) = IF z = g THEN "red" ELSE IF z = p THEN "black" ELSE Color(t, z)
  <2>1. p \in Slots /\ g \in Slots
    BY <1>1, <1>2
  <2> QED BY <2>1, BlackRedShape
<1> HIDE DEF t1
<1>4. /\ t1.root = t.root
      /\ \A z \in P : Parent(t1, z) = Parent(t, z)
      /\ \A z \in P, r \in Sides : Child(t1, z, r) = Child(t, z, r)
  BY <1>2, <1>3 DEF SameLinks
<1>5. /\ IsRed(t1, g) /\ ~IsRed(t1, p)
      /\ \A z \in Elements : z # g /\ z # p => (IsRed(t1, z) <=> IsRed(t, z))
  BY <1>1, <1>2, <1>3, RedIs
<1>6. /\ g \in D[t1.root] /\ p = Child(t1, g, Other(o)) /\ p # NULL
  <2>1. Child(t1, g, s) = p
    BY <1>1, <1>4
  <2>2. p # NULL
    BY <1>1, <1>2
  <2> HIDE DEF o
  <2> QED BY <1>1, <1>2, <1>4, <2>1, <2>2
<1>7. /\ RotatedTo(t1, u, g, o, p) /\ Shape(u, Turned(t1, D, g, o, p))
      /\ Turned(t1, D, g, o, p)[u.root] = D[t1.root]
  <2>1. u = Rotate(t1, g, o)
    BY DEF t1
  <2> HIDE DEF o, P
  <2> QED BY <1>2, <1>3, <1>6, <2>1, RotateShape
<1>8. /\ H \in [Slots -> Nat] /\ H[NULL] = 0
      /\ J \in [Slots -> Nat] /\ J[p] = H[g] /\ J[g] = H[p]
      /\ \A z \in Slots : z # g /\ z # p => J[z] = H[z]
  BY <1>1, <1>2 DEF Levels
<1>9. /\ Child(t, p, o) \in Slots /\ Child(t, p, o) # p /\ Child(t, p, o) # g
      /\ Child(t, g, o) \in Slots /\ Child(t, g, o) # p /\ Child(t, g, o) # g
      /\ g # t.root => p # t.root
  <2>1. /\ Child(t, p, o) \in Slots /\ Child(t, p, o) # p
        /\ Child(t, g, o) \in Slots /\ Child(t, g, o) # g /\ Child(t, g, o) # p
    BY <1>1, <1>2, ChildFacts
  <2>2. g \notin D[p] /\ p # t.root
    BY <1>1, <1>2, ChildFacts
  <2>3. Child(t, p, o) # g
    BY <1>1, <1>2, <2>2, ChildFacts
  <2> QED BY <2>1, <2>2, <2>3
<1> HIDE DEF J
<1>10. J[NULL] = 0
  BY <1>1, <1>2, <1>8 DEF Slots
<1>11. Levels(u, P, J, NULL, e)
  <2>1. \A r : Hole(g, r, NULL, e) = 0 /\ Hole(p, r, NULL, e) = 0
    BY <1>1, <1>2 DEF Hole
  <2>2. Black(t1, g) = 0 /\ Black(t1, p) = 1
    BY <1>5 DEF Black
  <2>3. \A z \in P, r \in Sides : z # g /\ z # p => Counts(t1, H, z, r, NULL, e)
    <3> SUFFICES ASSUME NEW z \in P, NEW r \in Sides, z # g, z # p
                 PROVE  Counts(t1, H, z, r, NULL, e)
      OBVIOUS
    <3>1. Counts(t, H, z, r, NULL, e)
      BY LevelsCount
    <3>2. Child(t1, z, r) = Child(t, z, r) /\ Black(t1, z) = Black(t, z)
      BY <1>2, <1>4, <1>5 DEF Black
    <3> QED BY <3>1, <3>2 DEF Counts
  <2>4. /\ H[p] \in Nat /\ H[g] \in Nat /\ J[x] = H[x]
        /\ J[Child(t, g, o)] = H[Child(t, g, o)] /\ J[Child(t, p, o)] = H[Child(t, p, o)]
    BY <1>1, <1>2, <1>8, <1>9
  <2>5. /\ J[g] = J[Child(t1, g, o)] + Hole(g, o, NULL, e) + Black(t1, g)
        /\ J[g] = J[Child(t1, p, o)] + Hole(g, Other(o), NULL, e) + Black(t1, g)
    <3>1. Child(t1, g, o) = Child(t, g, o) /\ Child(t1, p, o) = Child(t, p, o)
      BY <1>1, <1>2, <1>4
    <3>2. H[p] = H[Child(t, g, o)] /\ H[p] = H[Child(t, p, o)]
      BY <1>1, <1>2, <1>8, <1>9
    <3> QED BY <1>8, <2>1, <2>2, <2>4, <3>1, <3>2
  <2>6. /\ J[p] = J[g] + Hole(p, o, NULL, e) + Black(t1, p)
        /\ J[p] = J[Child(t1, p, Other(o))] + Hole(p, Other(o), NULL, e) + Black(t1, p)
    <3>1. Child(t1, p, Other(o)) = x
      BY <1>1, <1>2, <1>4
    <3> QED BY <1>1, <1>8, <2>1, <2>2, <2>4, <3>1
  <2>7. P = D[t1.root]
    BY <1>4
  <2> HIDE DEF P, o
  <2>8. /\ o \in Sides /\ Shape(t1, D) /\ g \in D[t1.root] /\ RotatedTo(t1, u, g, o, p)
        /\ p = Child(t1, g, Other(o)) /\ p # NULL
    BY <1>2, <1>3, <1>6, <1>7
  <2>9. Recounted(t1, P, H, J, g, o, p, NULL, e)
    BY <1>8, <1>10, <2>3, <2>5, <2>6 DEF Recounted
  <2>10. Levels(u, D[t1.root], J, NULL, e)
    BY <2>7, <2>8, <2>9, RotateLevels
  <2> QED BY <2>7, <2>10
<1>12. Reds(u, P, x, NULL)
  <2>1. ASSUME NEW z \in P, z # g, z # p, z # x, IsRed(t1, z)
        PROVE  /\ z # t1.root /\ z # Child(t1, p, o)
               /\ Parent(t1, z) # g /\ Parent(t1, z) # p /\ ~IsRed(t1, Parent(t1, z))
    <3>1. IsRed(t, z) /\ Parent(t1, z) = Parent(t, z)
      BY <1>2, <1>4, <1>5, <2>1
    <3>2. z # t.root /\ ~IsRed(t, Parent(t, z))
      BY <1>1, <2>1, <3>1
    <3> DEFINE q == Parent(t, z)
               r == SideOf(t, z, q)
    <3>3. q \in P /\ r \in Sides /\ z = Child(t, q, r)
      BY <3>2, ParentFacts
    <3> HIDE DEF r, q
    <3>4. q # p
      BY <3>2, RedIs DEF q
    <3>5. q # g
      BY <1>1, <1>2, <2>1, <3>1, <3>3
    <3>6. ~IsRed(t1, q)
      BY <1>2, <1>5, <3>2, <3>3, <3>4, <3>5 DEF q
    <3>7. z # Child(t1, p, o)
      BY <1>1, <1>2, <1>4, <2>1, <3>1
    <3> QED BY <1>4, <3>1, <3>2, <3>4, <3>5, <3>6, <3>7 DEF q
  <2> HIDE DEF P, o
  <2> QED BY <1>2, <1>3, <1>4, <1>5, <1>6, <1>7, <2>1, RotateReds DEF P
<1>13. IsRed(u, x)
  <2>1. x \in Elements
    BY <1>2
  <2>2. Color(u, x) = Color(t, x)
    BY <1>1, <1>3, <1>7, <2>1 DEF RotatedTo
  <2> QED BY <2>2, RedIs
<1>14. \E F : Shape(u, F) /\ F[u.root] = P
  BY <1>4, <1>7
<1> HIDE DEF P, o
<1> QED BY <1>11, <1>12, <1>13, <1>14 DEF P, Ended

\* A red child on the inside of its parent changes places with it first.
LEMMA InnerTurned ==
  ASSUME NEW t, NEW D, Shape(t, D), NEW H, NEW e, Levels(t, D[t.root], H, NULL, e),
         NEW x, NEW p, NEW g, NEW s, UnderRed(t, D[t.root], H, x, p, g, s),
         x \in D[t.root], IsRed(t, x), IsRed(t, p),
         ~IsRed(t, Child(t, g, Other(s))), Child(t, p, Other(s)) = x,
         NEW u, u = Rotate(t, p, s)
  PROVE  /\ \E F : Shape(u, F) /\ F[u.root] = D[t.root]
         /\ Levels(u, D[t.root], H, NULL, e) /\ UnderRed(u, D[t.root], H, p, x, g, s)
         /\ IsRed(u, x) /\ IsRed(u, p) /\ ~IsRed(u, Child(u, g, Other(s))) /\ Child(u, x, s) = p
<1> DEFINE P == D[t.root]
           o == Other(s)
<1>1. /\ p \in P /\ g \in P /\ g # NULL /\ p # x /\ p # g /\ x # g
      /\ s \in Sides /\ Child(t, g, s) = p /\ ~IsRed(t, g)
      /\ \A r \in Sides : Child(t, p, r) # x => ~IsRed(t, Child(t, p, r))
      /\ \A r \in Sides : ~IsRed(t, Child(t, x, r))
      /\ \A z \in P : IsRed(t, z) /\ z # x => z # t.root /\ ~IsRed(t, Parent(t, z))
      /\ H[g] = H[p] + 1 /\ H[p] = H[x] /\ H[g] = H[Child(t, g, o)] + 1
      /\ \A r \in Sides : H[p] = H[Child(t, p, r)] /\ H[x] = H[Child(t, x, r)]
  BY DEF UnderRed
<1>2. /\ P \subseteq Elements /\ Elements \subseteq Nat \ {NULL} /\ o \in Sides /\ Other(o) = s /\ s # o
      /\ \A r \in Sides : r = s \/ r = o
      /\ P \subseteq Slots
  BY <1>1, ShapeTypes, SideFacts DEF Slots
<1>3. x # NULL /\ p # NULL
  BY RedIs
<1>4. /\ RotatedTo(t, u, p, s, x) /\ Shape(u, Turned(t, D, p, s, x))
      /\ Turned(t, D, p, s, x)[u.root] = P
  <2>1. Shape(t, D) /\ p \in D[t.root] /\ s \in Sides /\ x = Child(t, p, Other(s)) /\ x # NULL
    BY <1>1, <1>3
  <2> HIDE DEF o
  <2> QED BY <2>1, RotateShape
<1>5. /\ Parent(u, p) = x /\ Parent(u, x) = Parent(t, p)
      /\ Child(u, p, s) = Child(t, p, s) /\ Child(u, p, o) = Child(t, x, s)
      /\ Child(u, x, s) = p /\ Child(u, x, o) = Child(t, x, o)
      /\ u.root = IF t.root = p THEN x ELSE t.root
      /\ Child(t, p, s) \notin {p, x} /\ Child(t, x, s) \notin {p, x} /\ Child(t, x, o) \notin {p, x}
  BY <1>1, <1>3, <1>4, RotatePair
<1>6. \A z \in P \cup {NULL} : IsRed(u, z) <=> IsRed(t, z)
  <2>1. \A z \in P : Color(u, z) = Color(t, z)
    BY <1>2, <1>4 DEF RotatedTo
  <2> QED BY <2>1, RedIs
<1>7. \A z \in P : z # p /\ z # x =>
        /\ \A r \in Sides : Child(u, z, r) = IF Child(t, z, r) = p THEN x ELSE Child(t, z, r)
        /\ Parent(u, z) = IF z = Child(t, x, s) THEN p ELSE Parent(t, z)
  BY <1>1, <1>3, <1>4, RotateOrdinary
<1>8. /\ Parent(t, p) = g /\ Parent(t, x) = p /\ p # t.root /\ x # t.root /\ Child(t, g, o) # p
      /\ Child(t, g, o) \in P \cup {NULL}
  <2>1. Parent(t, p) = g /\ p # t.root /\ Child(t, g, o) # p
    BY <1>1, <1>3, ChildFacts
  <2>2. Parent(t, x) = p /\ x # t.root
    BY <1>1, <1>2, <1>3, ChildFacts
  <2>3. Child(t, g, o) \in P \cup {NULL}
    BY <1>1, <1>2, ChildFacts
  <2> QED BY <2>1, <2>2, <2>3
<1>9. Child(t, p, s) \in P \cup {NULL} /\ \A r \in Sides : Child(t, x, r) \in P \cup {NULL}
  <2> HIDE DEF o
  <2>1. Child(t, p, s) \in P \cup {NULL}
    BY <1>1, ChildFacts
  <2>2. \A r \in Sides : Child(t, x, r) \in P \cup {NULL}
    BY ChildFacts
  <2> QED BY <2>1, <2>2
<1>10. Levels(u, P, H, NULL, e)
  <2>1. \A r : Hole(p, r, NULL, e) = 0 /\ Hole(x, r, NULL, e) = 0
    BY <1>3 DEF Hole
  <2>2. Black(t, p) = 0 /\ Black(t, x) = 0
    BY DEF Black
  <2>3. /\ H \in [Slots -> Nat] /\ H[NULL] = 0
        /\ \A z \in P, r \in Sides : Counts(t, H, z, r, NULL, e)
    BY LevelsCount
  <2>4. H[p] \in Nat /\ H[x] \in Nat
    BY <1>1, <1>2, <2>3
  <2>5. /\ H[p] = H[Child(t, p, s)] /\ H[p] = H[Child(t, x, s)] /\ H[x] = H[p] /\ H[x] = H[Child(t, x, o)]
    BY <1>1, <1>2
  <2> HIDE DEF P
  <2>6. Recounted(t, P, H, H, p, s, x, NULL, e)
    BY <2>1, <2>2, <2>3, <2>4, <2>5 DEF Recounted
  <2> QED BY <1>1, <1>3, <1>4, <2>6, RotateLevels DEF P
<1>11. Child(u, g, s) = x /\ Child(u, g, o) = Child(t, g, o)
  <2>1. \A r \in Sides : Child(u, g, r) = IF Child(t, g, r) = p THEN x ELSE Child(t, g, r)
    BY <1>1, <1>7
  <2> QED BY <1>1, <1>2, <1>8, <2>1
<1>12. UnderRed(u, P, H, p, x, g, s)
  <2>1. ~IsRed(u, g)
    BY <1>1, <1>6
  <2>2. SideOf(u, p, x) \in Sides /\ Child(u, x, SideOf(u, p, x)) = p
    BY <1>1, <1>5 DEF SideOf, Sides
  <2>3. \A r \in Sides : Child(u, x, r) # p => ~IsRed(u, Child(u, x, r))
    BY <1>1, <1>2, <1>5, <1>6, <1>9
  <2>4. \A r \in Sides : ~IsRed(u, Child(u, p, r))
    BY <1>1, <1>2, <1>5, <1>6, <1>9
  <2>5. ASSUME NEW z \in P, IsRed(u, z), z # p PROVE z # u.root /\ ~IsRed(u, Parent(u, z))
    <3>1. u.root = t.root
      BY <1>5, <1>8
    <3>2. CASE z = x
      BY <1>5, <1>8, <2>1, <3>1, <3>2
    <3>3. CASE z # x
      <4>1. IsRed(t, z) /\ z # t.root /\ ~IsRed(t, Parent(t, z))
        BY <1>1, <1>6, <2>5, <3>3
      <4>2. z # Child(t, x, s)
        BY <1>1, <4>1
      <4>3. Parent(u, z) = Parent(t, z) /\ Parent(t, z) \in P
        BY <1>7, <2>5, <3>3, <4>1, <4>2, ParentFacts
      <4> QED BY <1>6, <3>1, <4>1, <4>3
    <3> QED BY <3>2, <3>3
  <2>6. H[g] = H[x] + 1 /\ H[x] = H[p] /\ H[g] = H[Child(u, g, Other(s))] + 1
    BY <1>1, <1>11
  <2>7. \A r \in Sides : H[x] = H[Child(u, x, r)] /\ H[p] = H[Child(u, p, r)]
    BY <1>1, <1>2, <1>5
  <2> QED BY <1>1, <1>11, <2>1, <2>2, <2>3, <2>4, <2>5, <2>6, <2>7 DEF UnderRed
<1>13. ~IsRed(u, Child(u, g, o))
  BY <1>6, <1>8, <1>11
<1>14. \E F : Shape(u, F) /\ F[u.root] = P
  BY <1>4
<1>15. IsRed(u, x) /\ IsRed(u, p) /\ Child(u, x, s) = p
  BY <1>1, <1>5, <1>6
<1> QED BY <1>10, <1>12, <1>13, <1>14, <1>15

\* The rotations that end an insertion's repair.
LEMMA RotatedColored ==
  ASSUME NEW t, NEW D, Shape(t, D), NEW H, NEW e, Levels(t, D[t.root], H, NULL, e),
         NEW x, NEW p, NEW g, NEW s, UnderRed(t, D[t.root], H, x, p, g, s),
         x \in D[t.root], IsRed(t, x), IsRed(t, p),
         ~IsRed(t, Child(t, g, Other(s))),
         NEW u, u = Rotated(t, x, p, g, s).tree, NEW a, a = Rotated(t, x, p, g, s).at
  PROVE  a \in D[t.root] /\ Ended(u, D[t.root], a, e)
<1> DEFINE P == D[t.root]
           o == Other(s)
<1>1. p \in P /\ s \in Sides /\ o \in Sides /\ \A r \in Sides : r = s \/ r = o
  BY SideFacts DEF UnderRed
<1>2. CASE Child(t, p, o) = x
  <2> DEFINE v == Rotate(t, p, s)
  <2>1. u = Rotate(BlackRed(v, x, g), g, o) /\ a = p
    BY <1>2 DEF Rotated
  <2> HIDE DEF v
  <2>2. v = Rotate(t, p, s)
    BY DEF v
  <2>3. /\ \E F : Shape(v, F) /\ F[v.root] = P
        /\ Levels(v, P, H, NULL, e) /\ UnderRed(v, P, H, p, x, g, s)
        /\ IsRed(v, x) /\ IsRed(v, p) /\ ~IsRed(v, Child(v, g, o)) /\ Child(v, x, s) = p
    BY <1>2, <2>2, InnerTurned
  <2>4. PICK F : Shape(v, F) /\ F[v.root] = P
    BY <2>3
  <2> HIDE DEF P
  <2>5. Ended(u, P, p, e)
    BY <1>1, <2>1, <2>3, <2>4, OuterColored
  <2> QED BY <1>1, <2>1, <2>5 DEF P
<1>3. CASE Child(t, p, o) # x
  <2>1. u = Rotate(BlackRed(t, p, g), g, o) /\ a = x
    BY <1>3 DEF Rotated
  <2>2. Child(t, p, s) = x
    <3>1. SideOf(t, x, p) \in Sides /\ Child(t, p, SideOf(t, x, p)) = x
      BY DEF UnderRed
    <3> QED BY <1>1, <1>3, <3>1
  <2>3. Ended(u, P, x, e)
    BY <2>1, <2>2, OuterColored
  <2> QED BY <2>1, <2>3
<1> QED BY <1>2, <1>3

-----------------------------------------------------------------------------
\* The end of a repair turns the element it is at black: the root, or a red one
\* whose paths are short.
Settled(t, P) == \E J : Levels(t, P, J, NULL, "left") /\ Reds(t, P, NULL, NULL)

\* All is in order once x is black.
LastAt(t, P, H, p, s, x) ==
  /\ x \in P /\ Levels(t, P, H, p, s)
  /\ \/ x = t.root /\ p = NULL
     \/ IsRed(t, x) /\ p \in P /\ s \in Sides /\ Child(t, p, s) = x
  /\ \A z \in P : IsRed(t, z) /\ z # x =>
       z # t.root /\ (Parent(t, z) = x \/ ~IsRed(t, Parent(t, z)))

\* Blackening it, the last assignment of both repairs, puts all in order.
LEMMA BlackenedColored ==
  ASSUME NEW t, NEW D, Shape(t, D), NEW H, NEW p, NEW s, NEW x, LastAt(t, D[t.root], H, p, s, x),
         NEW u, u = SetColor(t, x, "black")
  PROVE  Shape(u, D) /\ u.root = t.root /\ Settled(u, D[t.root])
<1>0. /\ x \in D[t.root] /\ Levels(t, D[t.root], H, p, s)
      /\ \/ x = t.root /\ p = NULL
         \/ IsRed(t, x) /\ p \in D[t.root] /\ s \in Sides /\ Child(t, p, s) = x
      /\ \A z \in D[t.root] : IsRed(t, z) /\ z # x =>
           z # t.root /\ (Parent(t, z) = x \/ ~IsRed(t, Parent(t, z)))
  BY DEF LastAt
<1> DEFINE P == D[t.root]
           J == IF IsRed(t, x) THEN [H EXCEPT ![x] = H[x] + 1] ELSE H
<1>1. /\ P \subseteq Elements /\ Elements \subseteq Nat \ {NULL} /\ P \subseteq Slots
  BY ShapeTypes DEF Slots
<1>2. /\ Shape(u, D) /\ SameLinks(t, u, Elements)
      /\ \A z \in Elements : Color(u, z) = IF z = x THEN "black" ELSE Color(t, z)
  BY <1>0, <1>1, PaintShape DEF Colors
<1>3. /\ u.root = t.root
      /\ \A z \in P : Parent(u, z) = Parent(t, z)
      /\ \A z \in P, r \in Sides : Child(u, z, r) = Child(t, z, r)
  BY <1>1, <1>2 DEF SameLinks
<1>4. ~IsRed(u, x) /\ \A z \in P : z # x => (IsRed(u, z) <=> IsRed(t, z))
  BY <1>0, <1>1, <1>2, RedIs
<1>5. /\ H \in [Slots -> Nat] /\ H[NULL] = 0
      /\ \A z \in P, r \in Sides : Counts(t, H, z, r, p, s)
  BY <1>0, LevelsCount
<1>6. /\ J \in [Slots -> Nat] /\ J[x] = H[x] + Black(u, x) - Black(t, x)
      /\ \A z \in Slots : z # x => J[z] = H[z]
  BY <1>0, <1>1, <1>4, <1>5 DEF Black
<1> HIDE DEF J
<1>7. \A z \in P, r \in Sides : Child(t, z, r) = x => IsRed(t, x) /\ z = p /\ r = s
  <2> SUFFICES ASSUME NEW z \in P, NEW r \in Sides, Child(t, z, r) = x
               PROVE  IsRed(t, x) /\ z = p /\ r = s
    OBVIOUS
  <2>1. x # NULL
    BY <1>0, <1>1
  <2>2. x # t.root /\ Parent(t, x) = z /\ SideTo(x, z) = r
    BY <2>1, ChildFacts
  <2>3. IsRed(t, x) /\ p \in P /\ s \in Sides /\ Child(t, p, s) = x
    BY <1>0, <2>2
  <2>4. Parent(t, x) = p /\ SideTo(x, p) = s
    BY <2>1, <2>3, ChildFacts
  <2> QED BY <2>2, <2>3, <2>4
<1>8. ASSUME NEW z \in P, NEW r \in Sides PROVE Counts(u, J, z, r, NULL, s)
  <2> DEFINE c == Child(t, z, r)
  <2>1. c \in Slots /\ z \in Slots /\ z # NULL /\ c # z /\ Child(u, z, r) = c
    BY <1>1, <1>3, ChildFacts
  <2>2. H[z] = H[c] + Hole(z, r, p, s) + Black(t, z) /\ H[c] \in Nat /\ H[z] \in Nat
    BY <1>5, <2>1 DEF Counts
  <2>3. Hole(z, r, NULL, s) = 0
    BY <2>1 DEF Hole
  <2>4. J[c] = H[c] + Hole(z, r, p, s)
    <3>1. CASE c = x
      <4>1. Hole(z, r, p, s) = 1 /\ Black(u, x) = 1 /\ Black(t, x) = 0
        BY <1>4, <1>7, <3>1 DEF Hole, Black
      <4> QED BY <1>6, <2>2, <3>1, <4>1
    <3>2. CASE c # x
      <4>1. Hole(z, r, p, s) = 0
        <5>1. ~(z = p /\ r = s)
          BY <1>0, <1>1, <2>1, <3>2
        <5> QED BY <5>1 DEF Hole
      <4> QED BY <1>6, <2>1, <2>2, <3>2, <4>1
    <3> QED BY <3>1, <3>2
  <2>5. Black(t, z) \in Nat /\ Black(u, z) \in Nat /\ Hole(z, r, p, s) \in Nat
    BY DEF Black, Hole
  <2>6. J[z] = H[z] + Black(u, z) - Black(t, z)
    <3>1. CASE z = x
      BY <1>6, <3>1
    <3>2. CASE z # x
      <4>1. Black(u, z) = Black(t, z)
        BY <1>4, <3>2 DEF Black
      <4> QED BY <1>6, <2>1, <2>2, <2>5, <3>2, <4>1
    <3> QED BY <3>1, <3>2
  <2> HIDE DEF c
  <2> QED BY <2>1, <2>2, <2>3, <2>4, <2>5, <2>6 DEF Counts
<1>9. Levels(u, P, J, NULL, s)
  <2>1. J[NULL] = 0
    BY <1>0, <1>1, <1>5, <1>6 DEF Slots
  <2> QED BY <1>6, <1>8, <2>1, LevelsCount
<1>10. Reds(u, P, NULL, NULL)
  <2> SUFFICES ASSUME NEW z \in P, IsRed(u, z)
               PROVE  z # u.root /\ ~IsRed(u, Parent(u, z))
    BY DEF Reds
  <2>1. z # x /\ IsRed(t, z) /\ z # t.root /\ (Parent(t, z) = x \/ ~IsRed(t, Parent(t, z)))
    BY <1>0, <1>4
  <2>2. Parent(t, z) \in P /\ Parent(u, z) = Parent(t, z)
    BY <1>3, <2>1, ParentFacts
  <2> QED BY <1>3, <1>4, <2>1, <2>2
<1>11. Levels(u, P, J, NULL, "left")
  BY <1>1, <1>9, NoHole
<1> QED BY <1>2, <1>3, <1>10, <1>11 DEF Settled

-----------------------------------------------------------------------------
(***************************************************************************)
(* The colors in a removal.                                                *)
(***************************************************************************)
\* A red element other than a is below a black one.
LEMMA RedsAre ==
  ASSUME NEW t, NEW D, Shape(t, D), NEW a, Reds(t, D[t.root], a, NULL)
  PROVE  \A z \in D[t.root] : IsRed(t, z) /\ z # a => z # t.root /\ ~IsRed(t, Parent(t, z))
<1>1. \A z \in D[t.root] : z # t.root => Parent(t, z) # NULL
  BY ParentFacts
<1> QED BY <1>1 DEF Reds

\* Paths that an unlinked black element leaves short go through its only child.
LEMMA CutColored ==
  ASSUME NEW t, NEW D, Shape(t, D), NEW x \in D[t.root], ~HasTwo(t, x),
         NEW u, u = Without(t, x), NEW H, NEW e, Levels(t, D[t.root], H, NULL, e),
         Reds(t, D[t.root], NULL, NULL)
  PROVE  /\ Levels(u, D[t.root] \ {x}, H, IF IsRed(t, x) THEN NULL ELSE Parent(t, x), SideOf(t, x, Parent(t, x)))
         /\ Reds(u, D[t.root] \ {x}, IF IsRed(t, x) THEN NULL ELSE OnlyChild(t, x), NULL)
<1> DEFINE P == D[t.root]
           c == OnlyChild(t, x)
           q == Parent(t, x)
           p == IF IsRed(t, x) THEN NULL ELSE q
           s == SideOf(t, x, q)
<1>1. /\ P \subseteq Elements /\ Elements \subseteq Nat \ {NULL} /\ P \subseteq Slots
  BY ShapeTypes DEF Slots
<1>2. CutOut(t, u, x, c) /\ c \in P \cup {NULL}
  BY CutShape
<1>3. PICK f \in Sides : c = Child(t, x, f) /\ Child(t, x, Other(f)) = NULL
  BY OnlyChildIs
<1>4. /\ q = NULL <=> x = t.root
      /\ q # NULL => q \in P /\ q # x /\ s \in Sides /\ x = Child(t, q, s)
  BY ParentFacts
<1>5. c # x /\ c # t.root
  <2>1. c # x /\ (c # NULL => c # t.root)
    BY <1>3, ChildFacts
  <2>2. t.root # NULL
    BY ShapeTypes
  <2> QED BY <2>1, <2>2
<1>6. \A z \in P \cup {NULL} : IsRed(u, z) <=> IsRed(t, z)
  <2>1. \A z \in P : Color(u, z) = Color(t, z)
    BY <1>1, <1>2 DEF CutOut
  <2> QED BY <2>1, RedIs
<1>7. /\ H \in [Slots -> Nat] /\ H[NULL] = 0
      /\ \A z \in P, r \in Sides : Counts(t, H, z, r, NULL, e)
  BY LevelsCount
<1>8. ASSUME NEW z \in P, z # x, NEW r \in Sides PROVE Counts(u, H, z, r, p, s)
  <2> DEFINE d == Child(t, z, r)
  <2>1. /\ z \in Elements /\ z # NULL /\ d \in Slots /\ c \in Slots /\ x \in Slots
    BY <1>1, <1>2, ChildFacts, NoNull DEF Slots
  <2>2. H[z] = H[d] + Black(t, z) /\ H[d] \in Nat /\ Black(t, z) \in Nat
    <3>1. Hole(z, r, NULL, e) = 0
      BY <2>1 DEF Hole
    <3>2. Black(t, z) \in Nat
      BY DEF Black
    <3> QED BY <1>7, <2>1, <3>1, <3>2 DEF Counts
  <2>3. Black(u, z) = Black(t, z)
    BY <1>6 DEF Black
  <2>4. Child(u, z, r) = IF z = q /\ r = SideOf(t, x, z) THEN c ELSE d
    BY <1>2, <2>1 DEF CutOut
  <2>5. CASE z = q /\ r = s
    <3>1. d = x
      BY <1>4, <2>1, <2>5
    <3>2. H[x] = H[c] + Black(t, x) /\ H[c] \in Nat
      <4>1. Counts(t, H, x, f, NULL, e)
        BY <1>7
      <4>2. Hole(x, f, NULL, e) = 0 /\ Black(t, x) \in Nat
        BY <1>1 DEF Hole, Black
      <4> QED BY <1>3, <1>7, <2>1, <4>1, <4>2 DEF Counts
    <3>3. Hole(z, r, p, s) = Black(t, x)
      BY <2>1, <2>5 DEF Hole, Black
    <3>4. Child(u, z, r) = c
      BY <2>4, <2>5
    <3>5. Black(t, x) \in Nat
      BY DEF Black
    <3> HIDE DEF p, q, s, c, d
    <3> QED BY <2>2, <2>3, <3>1, <3>2, <3>3, <3>4, <3>5 DEF Counts
  <2>6. CASE ~(z = q /\ r = s)
    <3>1. Hole(z, r, p, s) = 0
      BY <2>1, <2>6 DEF Hole
    <3>2. Child(u, z, r) = d
      BY <2>4, <2>6
    <3> HIDE DEF p, q, s, c, d
    <3> QED BY <2>2, <2>3, <3>1, <3>2 DEF Counts
  <2> QED BY <2>5, <2>6
<1>9. Levels(u, P \ {x}, H, p, s)
  <2> DEFINE Q == P \ {x}
  <2>1. \A z \in Q, r \in Sides : Counts(u, H, z, r, p, s)
    BY <1>8
  <2> HIDE DEF Q, p, s
  <2>2. Levels(u, Q, H, p, s)
    BY <1>7, <2>1, LevelsCount
  <2> QED BY <2>2 DEF Q
<1>10. ASSUME NEW z \in P, z # x, IsRed(u, z)
       PROVE  \/ z # u.root /\ ~IsRed(u, Parent(u, z))
              \/ ~IsRed(t, x) /\ z = c
  <2>1. IsRed(t, z) /\ z # t.root /\ ~IsRed(t, Parent(t, z))
    <3>1. z # NULL /\ IsRed(t, z)
      BY <1>1, <1>6, <1>10
    <3> QED BY <3>1, RedsAre
  <2>2. CASE z = c
    <3>1. Parent(t, c) = x
      BY <1>1, <1>3, <2>2, ChildFacts
    <3> QED BY <2>1, <2>2, <3>1
  <2>3. CASE z # c
    <3>1. z # u.root
      BY <1>2, <2>1, <2>3 DEF CutOut
    <3> DEFINE w == Parent(t, z)
    <3>2. w \in P /\ SideOf(t, z, w) \in Sides /\ z = Child(t, w, SideOf(t, z, w))
      BY <2>1, ParentFacts
    <3>3. w # x
      BY <1>1, <1>3, <2>3, <3>2, SideFacts
    <3>4. Parent(u, z) = w
      BY <1>1, <1>2, <2>3 DEF CutOut
    <3> QED BY <1>6, <2>1, <3>1, <3>2, <3>4
  <2> QED BY <2>2, <2>3
<1>11. Reds(u, P \ {x}, IF IsRed(t, x) THEN NULL ELSE c, NULL)
  BY <1>10 DEF Reds
<1> QED BY <1>9, <1>11

\* An element that takes the place of another takes its color.
LEMMA PlaceColored ==
  ASSUME NEW t, NEW D, Shape(t, D), NEW old \in D[t.root], NEW x \in Elements \ D[t.root],
         NEW u, Renames(t, u, D[t.root], x, old),
         NEW H, NEW p \in D[t.root] \cup {NULL}, NEW s, Levels(t, D[t.root], H, p, s),
         NEW a, a # old, Reds(t, D[t.root], a, NULL)
  PROVE  /\ \E J : Levels(u, (D[t.root] \ {old}) \cup {x}, J, New(p, x, old), s)
         /\ Reds(u, (D[t.root] \ {old}) \cup {x}, a, NULL)
<1> DEFINE P == D[t.root]
           Q == (P \ {old}) \cup {x}
           J == [H EXCEPT ![x] = H[old]]
           new(z) == New(z, x, old)
<1>1. /\ P \subseteq Elements /\ Elements \subseteq Nat \ {NULL} /\ P \subseteq Slots /\ x \in Slots
      /\ x \notin P /\ x # NULL /\ old # NULL
  BY ShapeTypes DEF Slots
<1>2. /\ H \in [Slots -> Nat] /\ H[NULL] = 0
      /\ \A z \in P, r \in Sides : Counts(t, H, z, r, p, s)
  BY LevelsCount
<1>3. /\ J \in [Slots -> Nat] /\ J[NULL] = 0
      /\ \A z \in Slots : z # x => J[new(z)] = H[z]
  BY <1>1, <1>2 DEF New, Slots
<1> HIDE DEF J
<1>4. /\ \A z \in Q : \E y \in P : z = new(y)
      /\ \A y, z : y # x /\ z # x /\ new(y) = new(z) => y = z
  BY <1>1 DEF New
<1>5. /\ \A z \in P : IsRed(u, new(z)) <=> IsRed(t, z)
      /\ \A z \in P : new(z) # NULL
  <2>1. \A z \in P : new(z) # NULL /\ z # NULL
    BY <1>1 DEF New
  <2>2. \A z \in P : Color(u, new(z)) = Color(t, z)
    BY DEF Renames
  <2> QED BY <2>1, <2>2, RedIs
<1>6. ASSUME NEW z \in P, NEW r \in Sides PROVE Counts(u, J, new(z), r, new(p), s)
  <2> DEFINE d == Child(t, z, r)
  <2>1. d \in Slots /\ d # x /\ z \in Slots /\ z # x /\ p # x
    <3>1. d \in P \cup {NULL}
      BY ChildFacts
    <3> QED BY <1>1, <3>1 DEF Slots
  <2>2. Child(u, new(z), r) = new(d)
    BY DEF Renames
  <2>3. J[new(z)] = H[z] /\ J[new(d)] = H[d]
    BY <1>3, <2>1
  <2>4. Hole(new(z), r, new(p), s) = Hole(z, r, p, s)
    BY <1>4, <2>1 DEF Hole
  <2>5. Black(u, new(z)) = Black(t, z)
    BY <1>5 DEF Black
  <2>6. Counts(t, H, z, r, p, s)
    BY <1>2
  <2> HIDE DEF new, d
  <2>7. H[z] = H[d] + Hole(z, r, p, s) + Black(t, z)
    BY <2>6 DEF Counts, d
  <2> QED BY <2>2, <2>3, <2>4, <2>5, <2>7 DEF Counts
<1>7. Levels(u, Q, J, new(p), s)
  <2>1. \A z \in Q, r \in Sides : Counts(u, J, z, r, new(p), s)
    BY <1>4, <1>6
  <2> HIDE DEF Q, new
  <2> QED BY <1>3, <2>1, LevelsCount
<1>8. Reds(u, Q, a, NULL)
  <2> SUFFICES ASSUME NEW z \in Q, IsRed(u, z), z # a
               PROVE  z # u.root /\ ~IsRed(u, Parent(u, z))
    BY DEF Reds
  <2>1. PICK y \in P : z = new(y)
    BY <1>4
  <2>2. IsRed(t, y) /\ y # a
    <3>1. y # a
      BY <1>1, <2>1 DEF New
    <3> QED BY <1>5, <2>1, <3>1
  <2>3. y # t.root /\ ~IsRed(t, Parent(t, y))
    BY <2>2, RedsAre
  <2>4. Parent(t, y) \in P
    BY <2>3, ParentFacts
  <2>5. Parent(u, z) = new(Parent(t, y)) /\ u.root = new(t.root)
    BY <2>1 DEF Renames
  <2>6. y # x /\ t.root # x
    <3>1. t.root \in P
      BY ShapeTypes
    <3> QED BY <1>1, <3>1
  <2> QED BY <1>4, <1>5, <2>1, <2>3, <2>4, <2>5, <2>6
<1> QED BY <1>7, <1>8

\* The side of a short child, that may be NULL.
Sided(t, H, p, s) ==
  LET c == Child(t, p, s)
  IN  SideOf(t, c, p) = s /\ Child(t, p, Other(s)) # NULL /\ H[Child(t, p, Other(s))] = H[c] + 1

\* A short side has a sibling, so that the side can be told even of NULL.
LEMMA HoleSide ==
  ASSUME NEW t, NEW D, Shape(t, D), NEW H, NEW p \in D[t.root], NEW s \in Sides,
         Levels(t, D[t.root], H, p, s)
  PROVE  Sided(t, H, p, s)
<1> DEFINE P == D[t.root]
           c == Child(t, p, s)
           v == Child(t, p, Other(s))
<1>1. /\ H \in [Slots -> Nat] /\ H[NULL] = 0
      /\ \A z \in P, r \in Sides : Counts(t, H, z, r, p, s)
  BY LevelsCount
<1>2. Other(s) \in Sides /\ Other(s) # s /\ \A r \in Sides : r = s \/ r = Other(s)
  BY SideFacts
<1>3. v \in Slots /\ c \in Slots
  BY <1>2, ChildFacts
<1>4. H[v] = H[c] + 1
  <2>1. Counts(t, H, p, s, p, s) /\ Counts(t, H, p, Other(s), p, s)
    BY <1>1, <1>2
  <2>2. Hole(p, s, p, s) = 1 /\ Hole(p, Other(s), p, s) = 0 /\ Black(t, p) \in Nat
    BY <1>2 DEF Hole, Black
  <2>3. H[v] \in Nat /\ H[c] \in Nat
    BY <1>1, <1>3
  <2> QED BY <2>1, <2>2, <2>3 DEF Counts
<1>5. v # NULL
  <2>1. H[c] \in Nat
    BY <1>1, <1>3
  <2> QED BY <1>1, <1>4, <2>1
<1>6. v # c
  <2>1. H[c] \in Nat
    BY <1>1, <1>3
  <2> QED BY <1>4, <2>1
<1>7. SideOf(t, c, p) = s
  BY <1>2, <1>6 DEF SideOf, Sides, Other
<1> QED BY <1>4, <1>5, <1>7 DEF Sided

\* Where a removal's repair is: the paths through the child of up are short.
ShortAt(t, P, H, x, up_, s) ==
  /\ up_ \in P /\ s \in Sides /\ Child(t, up_, s) = x /\ ~IsRed(t, x)
  /\ Levels(t, P, H, up_, s) /\ Reds(t, P, NULL, NULL)

\* A red sibling is rotated away: the new one is black, below a red parent.
TurnedAway(t, P, x, q, s) ==
  /\ \E F : Shape(t, F) /\ F[t.root] = P
  /\ \E J : ShortAt(t, P, J, x, q, s)
  /\ x # t.root

\* The rotation of RB_REMOVE_COLOR around a red sibling.
LEMMA SiblingTurned ==
  ASSUME NEW t, NEW D, Shape(t, D), NEW H, NEW x, NEW q, NEW s, ShortAt(t, D[t.root], H, x, q, s),
         NEW y, y = Child(t, q, Other(s)), IsRed(t, y), x # t.root,
         NEW u, u = Rotate(BlackRed(t, y, q), q, s)
  PROVE  TurnedAway(u, D[t.root], x, q, s) /\ IsRed(u, q)
<1> DEFINE P == D[t.root]
           t1 == BlackRed(t, y, q)
           o == Other(s)
           inner == Child(t, y, s)
           far == Child(t, y, o)
           J == [H EXCEPT ![y] = H[q], ![q] = H[y]]
<1>1. /\ q \in P /\ s \in Sides /\ Child(t, q, s) = x /\ ~IsRed(t, x)
      /\ Levels(t, P, H, q, s) /\ Reds(t, P, NULL, NULL)
  BY DEF ShortAt
<1>2. /\ P \subseteq Elements /\ Elements \subseteq Nat \ {NULL} /\ o \in Sides /\ Other(o) = s /\ s # o
      /\ P \subseteq Slots
  BY <1>1, ShapeTypes, SideFacts DEF Slots
<1>3. /\ y # NULL /\ y \in P /\ y # q /\ Parent(t, y) = q /\ y # t.root /\ y # x
  <2>1. y # NULL
    BY RedIs
  <2>2. y \in P /\ y # q /\ Parent(t, y) = q /\ y # t.root
    BY <1>1, <1>2, <2>1, ChildFacts
  <2> QED BY <1>1, <2>1, <2>2
<1>4. \A z \in P : IsRed(t, z) => z # NULL /\ z # t.root /\ ~IsRed(t, Parent(t, z))
  BY <1>1, <1>2, RedsAre
<1>5. ~IsRed(t, q)
  BY <1>3, <1>4
<1>6. /\ inner \in P \cup {NULL} /\ inner # q /\ inner # y
      /\ far \in P \cup {NULL} /\ far # q /\ far # y
      /\ x \in P \cup {NULL} /\ x # q
      /\ inner # NULL => Parent(t, inner) = y
      /\ far # NULL => Parent(t, far) = y
      /\ x # NULL => Parent(t, x) = q
  <2>1. /\ inner \in P \cup {NULL} /\ inner # y /\ (inner # NULL => Parent(t, inner) = y)
        /\ far \in P \cup {NULL} /\ far # y /\ (far # NULL => Parent(t, far) = y)
    BY <1>1, <1>2, <1>3, ChildFacts
  <2>2. x \in P \cup {NULL} /\ x # q /\ (x # NULL => Parent(t, x) = q)
    BY <1>1, ChildFacts
  <2>3. q \notin D[y]
    BY <1>1, <1>2, <1>3, ChildFacts
  <2>4. inner # q /\ far # q
    BY <1>1, <1>2, <1>3, <2>3, ChildFacts
  <2> QED BY <1>3, <2>1, <2>2, <2>4
<1>7. /\ Shape(t1, D) /\ SameLinks(t, t1, Elements)
      /\ \A z \in Elements : Color(t1, z) = IF z = q THEN "red" ELSE IF z = y THEN "black" ELSE Color(t, z)
  <2>1. q \in Slots /\ y \in Slots
    BY <1>1, <1>2, <1>3
  <2> QED BY <2>1, BlackRedShape
<1>8. u = Rotate(t1, q, s)
  OBVIOUS
<1> HIDE DEF t1
<1>9. /\ t1.root = t.root
      /\ \A z \in P : Parent(t1, z) = Parent(t, z)
      /\ \A z \in P, r \in Sides : Child(t1, z, r) = Child(t, z, r)
  BY <1>2, <1>7 DEF SameLinks
<1>10. /\ IsRed(t1, q) /\ ~IsRed(t1, y)
       /\ \A z \in P : z # q /\ z # y => (IsRed(t1, z) <=> IsRed(t, z))
  BY <1>1, <1>2, <1>3, <1>7, RedIs
<1>11. /\ Shape(t1, D) /\ q \in D[t1.root] /\ s \in Sides /\ y = Child(t1, q, Other(s)) /\ y # NULL
       /\ Child(t1, y, s) = inner /\ Child(t1, y, o) = far /\ Child(t1, q, s) = x
       /\ P = D[t1.root]
  BY <1>1, <1>2, <1>3, <1>7, <1>9
<1>12. /\ RotatedTo(t1, u, q, s, y) /\ Shape(u, Turned(t1, D, q, s, y))
       /\ Turned(t1, D, q, s, y)[u.root] = P
  <2> HIDE DEF P, o
  <2> QED BY <1>8, <1>11, RotateShape
<1>13. /\ H \in [Slots -> Nat] /\ H[NULL] = 0
       /\ \A z \in P, r \in Sides : Counts(t, H, z, r, q, s)
  BY <1>1, LevelsCount
<1>14. /\ J \in [Slots -> Nat] /\ J[y] = H[q] /\ J[q] = H[y]
       /\ \A z \in Slots : z # q /\ z # y => J[z] = H[z]
  BY <1>1, <1>2, <1>3, <1>13
<1> HIDE DEF J
<1>15. J[NULL] = 0 /\ J[x] = H[x] /\ J[inner] = H[inner] /\ J[far] = H[far]
       /\ {H[x], H[inner], H[far], H[y], H[q]} \subseteq Nat
  <2>1. NULL \in Slots /\ x \in Slots /\ inner \in Slots /\ far \in Slots /\ y \in Slots /\ q \in Slots
    BY <1>1, <1>2, <1>3, <1>6 DEF Slots
  <2>2. NULL # q /\ NULL # y
    BY <1>1, <1>2, <1>3
  <2> HIDE DEF P, o, inner, far
  <2> QED BY <1>1, <1>3, <1>6, <1>13, <1>14, <2>1, <2>2
<1>16. H[q] = H[x] + 2 /\ H[q] = H[y] + 1 /\ H[y] = H[inner] /\ H[y] = H[far]
  <2>1. Counts(t, H, q, s, q, s) /\ Counts(t, H, q, o, q, s) /\ Counts(t, H, y, s, q, s) /\ Counts(t, H, y, o, q, s)
    BY <1>1, <1>2, <1>3, <1>13
  <2>2. /\ Hole(q, s, q, s) = 1 /\ Hole(q, o, q, s) = 0 /\ Hole(y, s, q, s) = 0 /\ Hole(y, o, q, s) = 0
        /\ Black(t, q) = 1 /\ Black(t, y) = 0
    BY <1>2, <1>3, <1>5 DEF Hole, Black
  <2> QED BY <1>1, <1>2, <1>15, <2>1, <2>2 DEF Counts
<1>17. Levels(u, P, J, q, s)
  <2>1. /\ Hole(q, s, q, s) = 1 /\ Hole(q, Other(s), q, s) = 0 /\ Hole(y, s, q, s) = 0 /\ Hole(y, Other(s), q, s) = 0
        /\ Black(t1, q) = 0 /\ Black(t1, y) = 1
    BY <1>2, <1>3, <1>10 DEF Hole, Black
  <2>2. ASSUME NEW z \in P, NEW r \in Sides, z # q, z # y PROVE Counts(t1, H, z, r, q, s)
    <3>1. Counts(t, H, z, r, q, s)
      BY <1>13
    <3>2. Child(t1, z, r) = Child(t, z, r) /\ Black(t1, z) = Black(t, z)
      BY <1>9, <1>10, <2>2 DEF Black
    <3> QED BY <3>1, <3>2 DEF Counts
  <2>3. J[q] = J[Child(t1, q, s)] + 1 + 0 /\ J[q] = J[Child(t1, y, s)] + 0 + 0
    BY <1>11, <1>14, <1>15, <1>16
  <2>4. J[y] = J[q] + 0 + 1 /\ J[y] = J[Child(t1, y, Other(s))] + 0 + 1
    BY <1>11, <1>14, <1>15, <1>16
  <2> HIDE DEF P, o, inner, far
  <2>5. Recounted(t1, P, H, J, q, s, y, q, s)
    BY <1>14, <1>15, <2>1, <2>2, <2>3, <2>4 DEF Recounted
  <2> QED BY <1>11, <1>12, <2>5, RotateLevels
<1>18. Reds(u, P, NULL, NULL)
  <2>1. ASSUME NEW z \in P, z # q, z # y, IsRed(t1, z)
        PROVE  /\ z # t1.root /\ z # Child(t1, y, s)
               /\ Parent(t1, z) # q /\ Parent(t1, z) # y /\ ~IsRed(t1, Parent(t1, z))
    <3>1. IsRed(t, z) /\ z # NULL /\ z # t.root /\ ~IsRed(t, Parent(t, z)) /\ Parent(t1, z) = Parent(t, z)
      BY <1>4, <1>9, <1>10, <2>1
    <3> DEFINE w == Parent(t, z)
    <3>2. w \in P /\ SideOf(t, z, w) \in Sides /\ z = Child(t, w, SideOf(t, z, w))
      BY <3>1, ParentFacts
    <3>3. w # y
      BY <3>1
    <3>4. w # q
      <4>1. SideOf(t, z, w) = s \/ SideOf(t, z, w) = o
        BY <1>1, <3>2, SideFacts
      <4> QED BY <1>1, <2>1, <3>1, <3>2, <4>1
    <3>5. ~IsRed(t1, w)
      BY <1>10, <3>1, <3>2, <3>3, <3>4
    <3>6. z # inner
      BY <1>6, <3>1
    <3> QED BY <1>9, <1>11, <3>1, <3>3, <3>4, <3>5, <3>6
  <2> HIDE DEF P, o, inner, far
  <2> QED BY <1>10, <1>11, <1>12, <2>1, RotateReds
<1>19. Child(u, q, s) = x /\ ~IsRed(u, x) /\ x # u.root /\ IsRed(u, q)
  <2>1. /\ Child(u, q, s) = Child(t1, q, s) /\ u.root = IF t1.root = q THEN y ELSE t1.root
        /\ q \in Elements /\ Color(u, q) = Color(t1, q)
    BY <1>11, <1>12, RotatePair
  <2>2. ~IsRed(u, x)
    <3>1. x \in P => Color(u, x) = Color(t, x)
      BY <1>2, <1>3, <1>6, <1>7, <1>12 DEF RotatedTo
    <3> QED BY <1>1, <1>6, <3>1, RedIs
  <2>3. IsRed(u, q)
    BY <1>10, <2>1, RedIs
  <2> QED BY <1>3, <1>9, <1>11, <2>1, <2>2, <2>3
<1>20. ShortAt(u, P, J, x, q, s)
  BY <1>1, <1>17, <1>18, <1>19 DEF ShortAt
<1>21. TurnedAway(u, P, x, q, s)
  BY <1>12, <1>19, <1>20 DEF TurnedAway
<1> QED BY <1>19, <1>21

\* What a black sibling says of the elements around it.
BlackSibling(t, P, H, x, q, s, o, y, near, far) ==
  /\ q \in P /\ s \in Sides /\ Child(t, q, s) = x /\ ~IsRed(t, x)
  /\ o \in Sides /\ o = Other(s) /\ Other(o) = s /\ s # o /\ \A r \in Sides : r = s \/ r = o
  /\ Child(t, q, o) = y /\ Child(t, y, s) = near /\ Child(t, y, o) = far
  /\ y \in P /\ y # q /\ y # x /\ y # NULL /\ Parent(t, y) = q /\ y # t.root /\ ~IsRed(t, y)
  /\ x \in P \cup {NULL} /\ x # q /\ (x # NULL => Parent(t, x) = q)
  /\ near \in P \cup {NULL} /\ near # q /\ near # y /\ (near # NULL => Parent(t, near) = y)
  /\ far \in P \cup {NULL} /\ far # q /\ far # y /\ (far # NULL => Parent(t, far) = y /\ far # near)
  /\ \A z \in P : IsRed(t, z) => z # NULL /\ z # t.root /\ ~IsRed(t, Parent(t, z))
  /\ H \in [Slots -> Nat] /\ H[NULL] = 0
  /\ \A z \in P, r \in Sides : Counts(t, H, z, r, q, s)
  /\ {H[x], H[near], H[far], H[y], H[q]} \subseteq Nat
  /\ H[q] = H[y] + Black(t, q) /\ H[y] = H[x] + 1 /\ H[near] = H[x] /\ H[far] = H[x]

\* The counts and links around a black sibling.
LEMMA SiblingIs ==
  ASSUME NEW t, NEW D, Shape(t, D), NEW H, NEW x, NEW q, NEW s, ShortAt(t, D[t.root], H, x, q, s),
         NEW o, o = Other(s), ~IsRed(t, Child(t, q, o))
  PROVE  BlackSibling(t, D[t.root], H, x, q, s, o, Child(t, q, o),
                      Child(t, Child(t, q, o), s), Child(t, Child(t, q, o), o))
<1> DEFINE P == D[t.root]
           y == Child(t, q, o)
           near == Child(t, y, s)
           far == Child(t, y, o)
<1>1. /\ q \in P /\ s \in Sides /\ Child(t, q, s) = x /\ ~IsRed(t, x)
      /\ Levels(t, P, H, q, s) /\ Reds(t, P, NULL, NULL)
  BY DEF ShortAt
<1>2. /\ P \subseteq Elements /\ Elements \subseteq Nat \ {NULL} /\ o \in Sides /\ Other(o) = s /\ s # o
      /\ \A r \in Sides : r = s \/ r = o
  BY <1>1, ShapeTypes, SideFacts
<1>3. y # NULL /\ H[y] = H[x] + 1
  BY <1>1, HoleSide DEF Sided
<1>4. y \in P /\ y # q /\ Parent(t, y) = q /\ y # t.root
  BY <1>1, <1>2, <1>3, ChildFacts
<1>5. \A z \in P : IsRed(t, z) => z # NULL /\ z # t.root /\ ~IsRed(t, Parent(t, z))
  BY <1>1, <1>2, RedsAre
<1>6. x \in P \cup {NULL} /\ x # q /\ (x # NULL => Parent(t, x) = q) /\ y # x
  <2>1. x \in P \cup {NULL} /\ x # q /\ (x # NULL => Parent(t, x) = q /\ Child(t, q, Other(s)) # x)
    BY <1>1, ChildFacts
  <2> QED BY <1>3, <2>1
<1>7. /\ near \in P \cup {NULL} /\ near # y /\ (near # NULL => Parent(t, near) = y /\ Child(t, y, Other(s)) # near)
      /\ far \in P \cup {NULL} /\ far # y /\ (far # NULL => Parent(t, far) = y)
  BY <1>1, <1>2, <1>4, ChildFacts
<1>8. near # q /\ far # q
  <2>1. q \notin D[y]
    BY <1>1, <1>2, ChildFacts
  <2> QED BY <1>1, <1>2, <1>4, <2>1, ChildFacts
<1>9. /\ H \in [Slots -> Nat] /\ H[NULL] = 0
      /\ \A z \in P, r \in Sides : Counts(t, H, z, r, q, s)
  BY <1>1, LevelsCount
<1>10. {H[x], H[near], H[far], H[y], H[q]} \subseteq Nat
  <2>1. x \in Slots /\ near \in Slots /\ far \in Slots /\ y \in Slots /\ q \in Slots
    BY <1>1, <1>2, <1>4, <1>6, <1>7 DEF Slots
  <2> HIDE DEF P, y, near, far
  <2> QED BY <1>9, <2>1
<1>11. H[q] = H[y] + Black(t, q) /\ H[near] = H[x] /\ H[far] = H[x]
  <2>1. Counts(t, H, q, o, q, s) /\ Counts(t, H, y, s, q, s) /\ Counts(t, H, y, o, q, s)
    BY <1>1, <1>2, <1>4, <1>9
  <2>2. /\ Hole(q, o, q, s) = 0 /\ Hole(y, s, q, s) = 0 /\ Hole(y, o, q, s) = 0
        /\ Black(t, y) = 1 /\ Black(t, q) \in Nat
    BY <1>2, <1>4 DEF Hole, Black
  <2> QED BY <1>3, <1>10, <2>1, <2>2 DEF Counts
<1> HIDE DEF near, far, y, P
<1>12. far # NULL => far # near
  BY <1>7, <1>2 DEF far
<1>13. Child(t, q, o) = y /\ Child(t, y, s) = near /\ Child(t, y, o) = far /\ ~IsRed(t, y)
  BY DEF y, near, far
<1>14. BlackSibling(t, P, H, x, q, s, o, y, near, far)
  BY <1>1, <1>2, <1>3, <1>4, <1>5, <1>6, <1>7, <1>8, <1>9, <1>10, <1>11, <1>12, <1>13 DEF BlackSibling
<1> QED BY <1>14 DEF y, near, far, P

\* Both children of the sibling are black: it turns red, and the paths through
\* its parent are short.
MovedUp(t, P, x) ==
  /\ \E J : IF x = t.root THEN Levels(t, P, J, NULL, "left")
            ELSE Levels(t, P, J, Parent(t, x), SideOf(t, x, Parent(t, x)))
  /\ Reds(t, P, x, x)

\* The case of RB_REMOVE_COLOR that goes on at the parent.
LEMMA BothBlackColored ==
  ASSUME NEW t, NEW D, Shape(t, D), NEW H, NEW x, NEW q, NEW s, NEW o, NEW y, NEW near, NEW far,
         BlackSibling(t, D[t.root], H, x, q, s, o, y, near, far),
         ~IsRed(t, near), ~IsRed(t, far), NEW u, u = SetColor(t, y, "red")
  PROVE  Shape(u, D) /\ u.root = t.root /\ Parent(u, q) = Parent(t, q) /\ MovedUp(u, D[t.root], q)
<1> DEFINE P == D[t.root]
           J == [H EXCEPT ![y] = H[x], ![q] = H[q] - 1]
           b == Parent(t, q)
           p == IF q = t.root THEN NULL ELSE b
           e == SideOf(t, q, b)
<1>1. /\ q \in P /\ s \in Sides /\ Child(t, q, s) = x /\ ~IsRed(t, x)
      /\ o \in Sides /\ s # o /\ \A r \in Sides : r = s \/ r = o
      /\ Child(t, q, o) = y /\ Child(t, y, s) = near /\ Child(t, y, o) = far
      /\ y \in P /\ y # q /\ y # x /\ y # NULL /\ Parent(t, y) = q /\ y # t.root /\ ~IsRed(t, y)
      /\ x \in P \cup {NULL} /\ x # q
      /\ near \in P \cup {NULL} /\ near # q /\ near # y
      /\ far \in P \cup {NULL} /\ far # q /\ far # y
  BY DEF BlackSibling
<1>2. /\ \A z \in P : IsRed(t, z) => z # NULL /\ z # t.root /\ ~IsRed(t, Parent(t, z))
      /\ H \in [Slots -> Nat] /\ H[NULL] = 0
      /\ \A z \in P, r \in Sides : Counts(t, H, z, r, q, s)
      /\ {H[x], H[near], H[far], H[y], H[q]} \subseteq Nat
      /\ H[q] = H[y] + Black(t, q) /\ H[y] = H[x] + 1 /\ H[near] = H[x] /\ H[far] = H[x]
  BY DEF BlackSibling
<1>3. P \subseteq Elements /\ Elements \subseteq Nat \ {NULL} /\ P \subseteq Slots
  BY ShapeTypes DEF Slots
<1>4. /\ Shape(u, D) /\ SameLinks(t, u, Elements)
      /\ \A z \in Elements : Color(u, z) = IF z = y THEN "red" ELSE Color(t, z)
  <2>1. y \in Slots /\ "red" \in Colors
    BY <1>1, <1>3 DEF Colors
  <2> QED BY <2>1, PaintShape
<1>5. /\ u.root = t.root
      /\ \A z \in P : Parent(u, z) = Parent(t, z)
      /\ \A z \in P, r \in Sides : Child(u, z, r) = Child(t, z, r)
  BY <1>3, <1>4 DEF SameLinks
<1>6. IsRed(u, y) /\ \A z \in P : z # y => (IsRed(u, z) <=> IsRed(t, z))
  BY <1>1, <1>3, <1>4, RedIs
<1>7. H[q] - 1 \in Nat /\ Black(t, q) \in Nat
  <2>1. Black(t, q) \in Nat
    BY DEF Black
  <2> QED BY <1>2, <2>1
<1>8. /\ J \in [Slots -> Nat] /\ J[y] = H[x] /\ J[q] = H[q] - 1
      /\ \A z \in Slots : z # y /\ z # q => J[z] = H[z]
  BY <1>1, <1>2, <1>3, <1>7
<1> HIDE DEF J
<1>9. J[NULL] = 0 /\ J[x] = H[x] /\ J[near] = H[near] /\ J[far] = H[far]
  <2>1. NULL \in Slots /\ x \in Slots /\ near \in Slots /\ far \in Slots
    BY <1>1, <1>3 DEF Slots
  <2>2. NULL # q /\ NULL # y
    BY <1>1, <1>3
  <2> QED BY <1>1, <1>2, <1>8, <2>1, <2>2
<1>10. /\ p = NULL <=> q = t.root
       /\ p # NULL => p \in P /\ p # q /\ e \in Sides /\ Child(t, p, e) = q
  BY <1>1, ParentFacts
<1>11. ASSUME NEW z \in P, NEW r \in Sides PROVE Counts(u, J, z, r, p, e)
  <2> DEFINE c == Child(t, z, r)
  <2>1. c \in Slots /\ c # z /\ z # NULL /\ z \in Slots /\ Child(u, z, r) = c
    BY <1>3, <1>5, ChildFacts
  <2>2. H[c] \in Nat /\ H[z] \in Nat /\ Black(t, z) \in Nat
    BY <1>2, <2>1 DEF Black
  <2>3. H[z] = H[c] + Hole(z, r, q, s) + Black(t, z)
    BY <1>2 DEF Counts
  <2>4. CASE z = q
    <3>1. Black(u, z) = Black(t, z) /\ Hole(z, r, p, e) = 0
      BY <1>1, <1>6, <1>10, <2>1, <2>4 DEF Black, Hole
    <3>2. J[c] = H[x]
      BY <1>1, <1>8, <1>9, <2>4
    <3> HIDE DEF c, p, e
    <3> QED BY <1>2, <1>7, <1>8, <2>1, <2>2, <2>4, <3>1, <3>2 DEF Counts
  <2>5. CASE z = y
    <3>1. Black(u, z) = 0 /\ Hole(z, r, p, e) = 0
      <4>1. ~(z = p /\ r = e)
        BY <1>1, <1>10, <2>5
      <4> QED BY <1>6, <2>5, <4>1 DEF Black, Hole
    <3>2. J[c] = H[x]
      BY <1>1, <1>2, <1>9, <2>5
    <3> HIDE DEF c, p, e
    <3> QED BY <1>2, <1>8, <2>1, <2>2, <2>5, <3>1, <3>2 DEF Counts
  <2>6. CASE z # q /\ z # y
    <3>1. Black(u, z) = Black(t, z) /\ Hole(z, r, q, s) = 0
      BY <1>6, <2>6 DEF Black, Hole
    <3>2. c # y
      BY <1>1, <2>6, ChildFacts
    <3>3. J[z] = H[z]
      BY <1>8, <2>1, <2>6
    <3>4. CASE c = q
      <4>1. q # NULL /\ q # t.root /\ Parent(t, q) = z /\ SideTo(q, z) = r
        BY <1>1, <1>3, <3>4, ChildFacts
      <4>2. p = z /\ p # NULL
        BY <2>1, <4>1
      <4>3. SideTo(q, p) = e
        BY <1>1, <1>10, <4>2, <1>3, ChildFacts
      <4>4. Hole(z, r, p, e) = 1
        BY <4>1, <4>2, <4>3 DEF Hole
      <4> HIDE DEF c, p, e
      <4> QED BY <1>2, <1>7, <1>8, <2>1, <2>2, <2>3, <3>1, <3>3, <3>4, <4>4 DEF Counts
    <3>5. CASE c # q
      <4>1. Hole(z, r, p, e) = 0
        <5>1. ~(z = p /\ r = e)
          BY <1>10, <2>1, <3>5
        <5> QED BY <5>1 DEF Hole
      <4>2. J[c] = H[c]
        BY <1>8, <2>1, <3>2, <3>5
      <4> HIDE DEF c, p, e
      <4> QED BY <2>1, <2>2, <2>3, <3>1, <3>3, <4>1, <4>2 DEF Counts
    <3> QED BY <3>4, <3>5
  <2> QED BY <2>4, <2>5, <2>6
<1>12. Levels(u, P, J, p, e)
  <2> HIDE DEF P, p, e
  <2> QED BY <1>8, <1>9, <1>11, LevelsCount
<1>13. Reds(u, P, q, q)
  <2> SUFFICES ASSUME NEW z \in P, IsRed(u, z), z # q
               PROVE  z # u.root /\ (~IsRed(u, Parent(u, z)) \/ Parent(u, z) = q)
    BY DEF Reds
  <2>1. CASE z = y
    BY <1>1, <1>5, <2>1
  <2>2. CASE z # y
    <3>1. IsRed(t, z) /\ z # t.root /\ ~IsRed(t, Parent(t, z))
      BY <1>2, <1>6, <2>2
    <3> DEFINE w == Parent(t, z)
    <3>2. w \in P /\ SideOf(t, z, w) \in Sides /\ z = Child(t, w, SideOf(t, z, w))
      BY <3>1, ParentFacts
    <3>3. w # y
      BY <1>1, <3>1, <3>2
    <3> QED BY <1>5, <1>6, <3>1, <3>2, <3>3
  <2> QED BY <2>1, <2>2
<1>14. CASE q = t.root
  <2>1. Levels(u, P, J, NULL, "left")
    BY <1>3, <1>12, <1>14, NoHole
  <2> QED BY <1>1, <1>4, <1>5, <1>13, <1>14, <2>1 DEF MovedUp
<1>15. CASE q # t.root
  <2>1. Parent(u, q) = b /\ b \in P
    BY <1>1, <1>5, <1>15, ParentFacts
  <2>2. SideOf(u, q, b) = e
    <3>1. "left" \in Sides
      BY DEF Sides
    <3> QED BY <1>5, <2>1, <3>1 DEF SideOf
  <2>3. Levels(u, P, J, b, e)
    BY <1>12, <1>15
  <2> HIDE DEF P, b, e, p
  <2>4. MovedUp(u, P, q)
    BY <1>5, <1>13, <1>15, <2>1, <2>2, <2>3 DEF MovedUp
  <2> QED BY <1>4, <1>5, <2>1, <2>4 DEF P, b
<1> QED BY <1>14, <1>15

\* The far child of the sibling is turned red, when only the near one is.
FarIsRed(t, P, x, q, s, o) ==
  /\ \E F : Shape(t, F) /\ F[t.root] = P
  /\ \E J : BlackSibling(t, P, J, x, q, s, o, Child(t, q, o), Child(t, Child(t, q, o), s), Child(t, Child(t, q, o), o))
  /\ IsRed(t, Child(t, Child(t, q, o), o))

\* The rotation of RB_REMOVE_COLOR around the sibling.
LEMMA NearTurned ==
  ASSUME NEW t, NEW D, Shape(t, D), NEW H, NEW x, NEW q, NEW s, NEW o, NEW y, NEW near, NEW far,
         BlackSibling(t, D[t.root], H, x, q, s, o, y, near, far),
         IsRed(t, near), ~IsRed(t, far), NEW u, u = Rotate(BlackRed(t, near, y), y, o)
  PROVE  FarIsRed(u, D[t.root], x, q, s, o)
<1> DEFINE P == D[t.root]
           t1 == BlackRed(t, near, y)
           mid == Child(t, near, o)
           end == Child(t, near, s)
           J == [H EXCEPT ![near] = H[y], ![y] = H[near]]
<1>1. /\ q \in P /\ s \in Sides /\ Child(t, q, s) = x /\ ~IsRed(t, x)
      /\ o \in Sides /\ o = Other(s) /\ Other(o) = s /\ s # o /\ \A r \in Sides : r = s \/ r = o
      /\ Child(t, q, o) = y /\ Child(t, y, s) = near /\ Child(t, y, o) = far
      /\ y \in P /\ y # q /\ y # x /\ y # NULL /\ Parent(t, y) = q /\ y # t.root /\ ~IsRed(t, y)
      /\ x \in P \cup {NULL} /\ x # q
      /\ near \in P \cup {NULL} /\ near # q /\ near # y
      /\ far \in P \cup {NULL} /\ far # q /\ far # y
  BY DEF BlackSibling
<1>2. /\ \A z \in P : IsRed(t, z) => z # NULL /\ z # t.root /\ ~IsRed(t, Parent(t, z))
      /\ H \in [Slots -> Nat] /\ H[NULL] = 0
      /\ \A z \in P, r \in Sides : Counts(t, H, z, r, q, s)
      /\ {H[x], H[near], H[far], H[y], H[q]} \subseteq Nat
      /\ H[q] = H[y] + Black(t, q) /\ H[y] = H[x] + 1 /\ H[near] = H[x] /\ H[far] = H[x]
  BY DEF BlackSibling
<1>3. P \subseteq Elements /\ Elements \subseteq Nat \ {NULL} /\ P \subseteq Slots
  BY ShapeTypes DEF Slots
<1>4. near # NULL /\ near \in P
  <2>1. near # NULL
    BY RedIs
  <2> QED BY <1>1, <2>1
<1>5. Parent(t, near) = y /\ near # x
  BY <1>4 DEF BlackSibling
<1>6. /\ mid \in P \cup {NULL} /\ mid # near /\ (mid # NULL => Parent(t, mid) = near) /\ mid # y
      /\ end \in P \cup {NULL} /\ end # near /\ (end # NULL => Parent(t, end) = near) /\ end # y
  <2>1. /\ mid \in P \cup {NULL} /\ mid # near /\ (mid # NULL => Parent(t, mid) = near)
        /\ end \in P \cup {NULL} /\ end # near /\ (end # NULL => Parent(t, end) = near)
    BY <1>1, <1>4, ChildFacts
  <2>2. mid # y /\ end # y
    BY <1>1, <1>3, <2>1, <1>4
  <2> QED BY <2>1, <2>2
<1>7. /\ Shape(t1, D) /\ SameLinks(t, t1, Elements)
      /\ \A z \in Elements : Color(t1, z) = IF z = y THEN "red" ELSE IF z = near THEN "black" ELSE Color(t, z)
  <2>1. near \in Slots /\ y \in Slots
    BY <1>1, <1>3, <1>4
  <2> QED BY <2>1, BlackRedShape
<1>8. u = Rotate(t1, y, o)
  OBVIOUS
<1> HIDE DEF t1
<1>9. /\ t1.root = t.root
      /\ \A z \in P : Parent(t1, z) = Parent(t, z)
      /\ \A z \in P, r \in Sides : Child(t1, z, r) = Child(t, z, r)
  BY <1>3, <1>7 DEF SameLinks
<1>10. /\ IsRed(t1, y) /\ ~IsRed(t1, near)
       /\ \A z \in P : z # y /\ z # near => (IsRed(t1, z) <=> IsRed(t, z))
  BY <1>1, <1>3, <1>4, <1>7, RedIs
<1>11. /\ Shape(t1, D) /\ y \in D[t1.root] /\ o \in Sides /\ near = Child(t1, y, Other(o)) /\ near # NULL
       /\ Child(t1, near, o) = mid /\ Child(t1, near, s) = end /\ Child(t1, y, o) = far
       /\ P = D[t1.root]
  BY <1>1, <1>4, <1>7, <1>9
<1>12. /\ RotatedTo(t1, u, y, o, near) /\ Shape(u, Turned(t1, D, y, o, near))
       /\ Turned(t1, D, y, o, near)[u.root] = P
  <2>1. /\ RotatedTo(t1, u, y, o, near) /\ Shape(u, Turned(t1, D, y, o, near))
        /\ Turned(t1, D, y, o, near)[u.root] = D[t1.root]
    <3>1. Shape(t1, D) /\ y \in D[t1.root] /\ o \in Sides /\ near = Child(t1, y, Other(o)) /\ near # NULL
      BY <1>11
    <3> HIDE DEF P, mid, end
    <3> QED BY <1>8, <3>1, RotateShape
  <2> QED BY <1>11, <2>1
<1>13. /\ J \in [Slots -> Nat] /\ J[near] = H[y] /\ J[y] = H[near]
       /\ \A z \in Slots : z # near /\ z # y => J[z] = H[z]
  BY <1>1, <1>2, <1>3, <1>4
<1> HIDE DEF J
<1>14. J[NULL] = 0 /\ J[mid] = H[mid] /\ J[end] = H[end] /\ J[far] = H[far] /\ {H[mid], H[end]} \subseteq Nat /\ far # near
  <2>1. NULL \in Slots /\ mid \in Slots /\ end \in Slots /\ far \in Slots
    BY <1>1, <1>3, <1>6 DEF Slots
  <2>2. NULL # near /\ NULL # y
    BY <1>1, <1>4
  <2>3. far # near
    BY <1>4 DEF BlackSibling
  <2> HIDE DEF P, mid, end
  <2> QED BY <1>1, <1>2, <1>6, <1>13, <2>1, <2>2, <2>3
<1>15. H[near] = H[mid] /\ H[near] = H[end]
  <2>1. Counts(t, H, near, o, q, s) /\ Counts(t, H, near, s, q, s)
    BY <1>1, <1>2, <1>4
  <2>2. Hole(near, o, q, s) = 0 /\ Hole(near, s, q, s) = 0 /\ Black(t, near) = 0
    BY <1>1 DEF Hole, Black
  <2> QED BY <1>14, <2>1, <2>2 DEF Counts
<1>16. Levels(u, P, J, q, s)
  <2>1. /\ Hole(y, o, q, s) = 0 /\ Hole(y, Other(o), q, s) = 0 /\ Hole(near, o, q, s) = 0 /\ Hole(near, Other(o), q, s) = 0
        /\ Black(t1, y) = 0 /\ Black(t1, near) = 1
    BY <1>1, <1>10 DEF Hole, Black
  <2>2. ASSUME NEW z \in P, NEW r \in Sides, z # y, z # near PROVE Counts(t1, H, z, r, q, s)
    <3>1. Counts(t, H, z, r, q, s)
      BY <1>2
    <3>2. Child(t1, z, r) = Child(t, z, r) /\ Black(t1, z) = Black(t, z)
      BY <1>9, <1>10, <2>2 DEF Black
    <3> QED BY <3>1, <3>2 DEF Counts
  <2>3. J[y] = J[Child(t1, y, o)] + 0 + 0 /\ J[y] = J[Child(t1, near, o)] + 0 + 0
    BY <1>2, <1>11, <1>13, <1>14, <1>15
  <2>4. J[near] = J[y] + 0 + 1 /\ J[near] = J[Child(t1, near, Other(o))] + 0 + 1
    BY <1>1, <1>2, <1>11, <1>13, <1>14, <1>15
  <2> HIDE DEF P, mid, end
  <2>5. Recounted(t1, P, H, J, y, o, near, q, s)
    BY <1>13, <1>14, <2>1, <2>2, <2>3, <2>4 DEF Recounted
  <2> QED BY <1>11, <1>12, <2>5, RotateLevels
<1>17. Reds(u, P, NULL, NULL)
  <2>1. ASSUME NEW z \in P, z # y, z # near, IsRed(t1, z)
        PROVE  /\ z # t1.root /\ z # Child(t1, near, o)
               /\ Parent(t1, z) # y /\ Parent(t1, z) # near /\ ~IsRed(t1, Parent(t1, z))
    <3>1. IsRed(t, z) /\ z # NULL /\ z # t.root /\ ~IsRed(t, Parent(t, z)) /\ Parent(t1, z) = Parent(t, z)
      BY <1>2, <1>9, <1>10, <2>1
    <3> DEFINE w == Parent(t, z)
    <3>2. w \in P /\ SideOf(t, z, w) \in Sides /\ z = Child(t, w, SideOf(t, z, w))
      BY <3>1, ParentFacts
    <3>3. w # near
      BY <3>1
    <3>4. w # y
      BY <1>1, <2>1, <3>1, <3>2
    <3>5. ~IsRed(t1, w)
      BY <1>10, <3>1, <3>2, <3>3, <3>4
    <3>6. z # mid
      BY <1>6, <3>1
    <3> QED BY <1>9, <1>11, <3>1, <3>3, <3>4, <3>5, <3>6
  <2> HIDE DEF P, mid, end
  <2> QED BY <1>10, <1>11, <1>12, <2>1, RotateReds
<1>18. Child(u, q, s) = x /\ Child(u, q, o) = near /\ Child(u, near, o) = y /\ ~IsRed(u, x)
       /\ IsRed(u, y) /\ ~IsRed(u, near)
  <2>1. \A r \in Sides : Child(u, q, r) = IF Child(t1, q, r) = y THEN near ELSE Child(t1, q, r)
    <3>1. q \in D[t1.root] /\ q # y /\ q # near
      BY <1>1, <1>11
    <3>2. Shape(t1, D) /\ y \in D[t1.root] /\ o \in Sides /\ near = Child(t1, y, Other(o)) /\ near # NULL
          /\ RotatedTo(t1, u, y, o, near)
      BY <1>11, <1>12
    <3> HIDE DEF P, mid, end
    <3> QED BY <3>1, <3>2, RotateOrdinary
  <2>2. Child(u, q, s) = x /\ Child(u, q, o) = near
    BY <1>1, <1>9, <2>1
  <2>3. Child(u, near, o) = y /\ Color(u, y) = Color(t1, y) /\ Color(u, near) = Color(t1, near)
    BY <1>11, <1>12, RotatePair
  <2>4. ~IsRed(u, x)
    <3>1. x \in P => Color(u, x) = Color(t1, x)
      BY <1>3, <1>12 DEF RotatedTo
    <3>2. x \in P => Color(t1, x) = Color(t, x)
      BY <1>1, <1>3, <1>5, <1>7
    <3> QED BY <1>1, <3>1, <3>2, RedIs
  <2> QED BY <1>10, <2>2, <2>3, <2>4, RedIs
<1>19. ShortAt(u, P, J, x, q, s)
  BY <1>1, <1>16, <1>17, <1>18 DEF ShortAt
<1> DEFINE F == Turned(t1, D, y, o, near)
<1>20. Shape(u, F) /\ F[u.root] = P
  BY <1>12
<1> HIDE DEF F
<1>21. BlackSibling(u, P, J, x, q, s, o, Child(u, q, o), Child(u, Child(u, q, o), s), Child(u, Child(u, q, o), o))
  <2> HIDE DEF P
  <2> QED BY <1>1, <1>18, <1>19, <1>20, SiblingIs
<1> QED BY <1>18, <1>20, <1>21 DEF FarIsRed

\* The red far child of the sibling is rotated in, and no path is short.
LEMMA RotatedInColored ==
  ASSUME NEW t, NEW D, Shape(t, D), NEW H, NEW x, NEW q, NEW s, NEW o, NEW y, NEW near, NEW far,
         BlackSibling(t, D[t.root], H, x, q, s, o, y, near, far),
         IsRed(t, far), NEW u, u = RotatedIn(t, q, s)
  PROVE  /\ \E F : Shape(u, F) /\ F[u.root] = D[t.root]
         /\ \E J : Levels(u, D[t.root], J, NULL, "left")
         /\ Reds(u, D[t.root], NULL, NULL)
<1> DEFINE P == D[t.root]
           v1 == SetColor(t, y, t.node[q].color)
           v2 == SetColor(v1, q, "black")
           t1 == SetColor(v2, far, "black")
           G == [H EXCEPT ![far] = H[far] + 1]
           J == [[G EXCEPT ![y] = H[q]] EXCEPT ![q] = H[y]]
<1>1. /\ q \in P /\ s \in Sides /\ Child(t, q, s) = x /\ ~IsRed(t, x)
      /\ o \in Sides /\ o = Other(s) /\ Other(o) = s /\ s # o /\ \A r \in Sides : r = s \/ r = o
      /\ Child(t, q, o) = y /\ Child(t, y, s) = near /\ Child(t, y, o) = far
      /\ y \in P /\ y # q /\ y # x /\ y # NULL /\ Parent(t, y) = q /\ y # t.root /\ ~IsRed(t, y)
      /\ x \in P \cup {NULL} /\ x # q
      /\ near \in P \cup {NULL} /\ near # q /\ near # y
      /\ far \in P \cup {NULL} /\ far # q /\ far # y
  BY DEF BlackSibling
<1>2. /\ \A z \in P : IsRed(t, z) => z # NULL /\ z # t.root /\ ~IsRed(t, Parent(t, z))
      /\ H \in [Slots -> Nat] /\ H[NULL] = 0
      /\ \A z \in P, r \in Sides : Counts(t, H, z, r, q, s)
      /\ {H[x], H[near], H[far], H[y], H[q]} \subseteq Nat
      /\ H[q] = H[y] + Black(t, q) /\ H[y] = H[x] + 1 /\ H[near] = H[x] /\ H[far] = H[x]
  BY DEF BlackSibling
<1>3. P \subseteq Elements /\ Elements \subseteq Nat \ {NULL} /\ P \subseteq Slots
  BY ShapeTypes DEF Slots
<1>4. far # NULL /\ far \in P
  <2>1. far # NULL
    BY RedIs
  <2> QED BY <1>1, <2>1
<1>5. Parent(t, far) = y /\ far # near /\ far # x
  <2>1. Parent(t, far) = y /\ far # near /\ (x # NULL => Parent(t, x) = q)
    BY <1>4 DEF BlackSibling
  <2> QED BY <1>1, <1>4, <2>1
<1>6. /\ Shape(t1, D) /\ SameLinks(t, t1, Elements)
      /\ \A z \in Elements : Color(t1, z) = IF z = far \/ z = q THEN "black"
                                            ELSE IF z = y THEN Color(t, q) ELSE Color(t, z)
  <2>1. /\ q \in Slots /\ y \in Slots /\ far \in Slots
        /\ "black" \in Colors /\ t.node[q].color \in Colors /\ t.node[q].color = Color(t, q)
    <3>1. t \in Pointers /\ q \in Elements
      BY <1>1, <1>3, ShapeTypes
    <3>2. Color(t, q) \in Colors
      BY <3>1, FieldTypes
    <3> QED BY <1>1, <1>3, <1>4, <3>2 DEF Colors, Color
  <2>2. /\ Shape(v1, D) /\ SameLinks(t, v1, Elements)
        /\ \A z \in Elements : Color(v1, z) = IF z = y THEN Color(t, q) ELSE Color(t, z)
    BY <2>1, PaintShape
  <2> HIDE DEF v1
  <2>3. /\ Shape(v2, D) /\ SameLinks(v1, v2, Elements)
        /\ \A z \in Elements : Color(v2, z) = IF z = q THEN "black" ELSE Color(v1, z)
    BY <2>1, <2>2, PaintShape
  <2> HIDE DEF v2
  <2>4. /\ Shape(t1, D) /\ SameLinks(v2, t1, Elements)
        /\ \A z \in Elements : Color(t1, z) = IF z = far THEN "black" ELSE Color(v2, z)
    BY <2>1, <2>3, PaintShape
  <2> HIDE DEF t1
  <2> QED BY <2>2, <2>3, <2>4 DEF SameLinks
<1>7. u = Rotate(t1, q, s)
  BY <1>1 DEF RotatedIn
<1> HIDE DEF t1, v1, v2
<1>8. /\ t1.root = t.root
      /\ \A z \in P : Parent(t1, z) = Parent(t, z)
      /\ \A z \in P, r \in Sides : Child(t1, z, r) = Child(t, z, r)
  BY <1>3, <1>6 DEF SameLinks
<1>9. /\ ~IsRed(t1, q) /\ ~IsRed(t1, far) /\ (IsRed(t1, y) <=> IsRed(t, q))
      /\ \A z \in P : z # q /\ z # y /\ z # far => (IsRed(t1, z) <=> IsRed(t, z))
  <2>1. q # NULL /\ q \in Elements /\ y \in Elements /\ far \in Elements
    BY <1>1, <1>3, <1>4
  <2>2. Color(t1, q) = "black" /\ Color(t1, far) = "black" /\ Color(t1, y) = Color(t, q)
    BY <1>1, <1>6, <2>1
  <2>3. \A z \in P : z # q /\ z # y /\ z # far => Color(t1, z) = Color(t, z)
    BY <1>3, <1>6
  <2> QED BY <1>1, <2>1, <2>2, <2>3, RedIs
<1>10. /\ Shape(t1, D) /\ q \in D[t1.root] /\ s \in Sides /\ y = Child(t1, q, Other(s)) /\ y # NULL
       /\ Child(t1, y, s) = near /\ Child(t1, y, o) = far /\ Child(t1, q, s) = x
       /\ P = D[t1.root]
  BY <1>1, <1>6, <1>8
<1>11. /\ RotatedTo(t1, u, q, s, y) /\ Shape(u, Turned(t1, D, q, s, y))
       /\ Turned(t1, D, q, s, y)[u.root] = P
  <2> HIDE DEF P
  <2> QED BY <1>7, <1>10, RotateShape
<1>12. /\ G \in [Slots -> Nat] /\ G[far] = H[far] + 1 /\ \A z \in Slots : z # far => G[z] = H[z]
  BY <1>1, <1>2, <1>3, <1>4
<1> HIDE DEF G
<1>13. /\ J \in [Slots -> Nat] /\ J[y] = H[q] /\ J[q] = H[y] /\ J[far] = H[far] + 1
       /\ \A z \in Slots : z # q /\ z # y => J[z] = G[z]
       /\ J[NULL] = 0 /\ J[x] = H[x] /\ J[near] = H[near]
  <2>1. /\ J \in [Slots -> Nat] /\ J[y] = H[q] /\ J[q] = H[y]
        /\ \A z \in Slots : z # q /\ z # y => J[z] = G[z]
    BY <1>1, <1>2, <1>3, <1>12
  <2>2. NULL \in Slots /\ x \in Slots /\ near \in Slots /\ far \in Slots
    BY <1>1, <1>3, <1>4 DEF Slots
  <2>3. NULL # q /\ NULL # y
    BY <1>1, <1>3
  <2> HIDE DEF J, P
  <2> QED BY <1>1, <1>2, <1>4, <1>5, <1>12, <2>1, <2>2, <2>3
<1> HIDE DEF J
<1>14. Levels(u, P, J, NULL, "left")
  <2>1. /\ \A r : Hole(q, r, NULL, "left") = 0 /\ Hole(y, r, NULL, "left") = 0
        /\ Black(t1, q) = 1 /\ Black(t1, y) = Black(t, q) /\ Black(t, q) \in Nat
    BY <1>1, <1>3, <1>9 DEF Hole, Black
  <2>2. ASSUME NEW z \in P, NEW r \in Sides, z # q, z # y PROVE Counts(t1, G, z, r, NULL, "left")
    <3> DEFINE c == Child(t, z, r)
    <3>1. H[z] = H[c] + Hole(z, r, q, s) + Black(t, z)
      BY <1>2 DEF Counts
    <3>2. c \in Slots /\ z \in Slots /\ c # far /\ Child(t1, z, r) = c /\ z # NULL
      <4>1. c \in Slots /\ (c # NULL => Parent(t, c) = z)
        BY ChildFacts
      <4> QED BY <1>3, <1>4, <1>5, <1>8, <2>2, <4>1
    <3>3. Hole(z, r, q, s) = 0 /\ Hole(z, r, NULL, "left") = 0
      BY <2>2, <3>2 DEF Hole
    <3>4. G[c] = H[c] /\ H[c] \in Nat /\ H[z] \in Nat
      BY <1>2, <1>12, <3>2
    <3>5. G[z] = H[c] + Black(t1, z)
      <4>1. CASE z = far
        <5>1. Black(t, z) = 0 /\ Black(t1, z) = 1
          BY <1>9, <4>1 DEF Black
        <5> QED BY <1>12, <3>1, <3>3, <3>4, <4>1, <5>1
      <4>2. CASE z # far
        <5>1. Black(t1, z) = Black(t, z) /\ Black(t, z) \in Nat
          BY <1>9, <2>2, <4>2 DEF Black
        <5> QED BY <1>12, <3>1, <3>2, <3>3, <3>4, <4>2, <5>1
      <4> QED BY <4>1, <4>2
    <3>6. Black(t1, z) \in Nat
      BY DEF Black
    <3> HIDE DEF c
    <3> QED BY <3>2, <3>3, <3>4, <3>5, <3>6 DEF Counts
  <2>3. J[q] = J[Child(t1, q, s)] + 0 + 1 /\ J[q] = J[Child(t1, y, s)] + 0 + 1
    BY <1>2, <1>10, <1>13
  <2>4. J[y] = J[q] + 0 + Black(t, q) /\ J[y] = J[Child(t1, y, Other(s))] + 0 + Black(t, q)
    BY <1>1, <1>2, <1>10, <1>13, <2>1
  <2>5. J[y] = G[q]
    BY <1>1, <1>3, <1>12, <1>13
  <2> HIDE DEF P
  <2>6. Recounted(t1, P, G, J, q, s, y, NULL, "left")
    BY <1>13, <2>1, <2>2, <2>3, <2>4, <2>5 DEF Recounted
  <2> QED BY <1>10, <1>11, <2>6, RotateLevels
<1>15. Reds(u, P, NULL, NULL)
  <2>1. ASSUME NEW z \in P, z # q, z # y, IsRed(t1, z)
        PROVE  /\ z # t1.root
               /\ z # Child(t1, y, s) => Parent(t1, z) # q /\ Parent(t1, z) # y /\ ~IsRed(t1, Parent(t1, z))
    <3>1. IsRed(t, z) /\ z # NULL /\ z # t.root /\ ~IsRed(t, Parent(t, z)) /\ Parent(t1, z) = Parent(t, z) /\ z # far
      BY <1>2, <1>8, <1>9, <2>1
    <3> DEFINE w == Parent(t, z)
    <3>2. w \in P /\ SideOf(t, z, w) \in Sides /\ z = Child(t, w, SideOf(t, z, w))
      BY <3>1, ParentFacts
    <3>3. w # q
      BY <1>1, <2>1, <3>1, <3>2
    <3>4. w = y => z = near
      BY <1>1, <3>1, <3>2
    <3>5. w # y => ~IsRed(t1, w)
      BY <1>9, <3>1, <3>2, <3>3
    <3> QED BY <1>8, <1>10, <3>1, <3>3, <3>4, <3>5
  <2>2. IsRed(t1, y) => q # t1.root /\ ~IsRed(t1, Parent(t1, q))
    <3> SUFFICES ASSUME IsRed(t, q) PROVE q # t1.root /\ ~IsRed(t1, Parent(t1, q))
      BY <1>9
    <3>1. q # t.root /\ ~IsRed(t, Parent(t, q))
      BY <1>1, <1>2
    <3>2. Parent(t, q) \in P /\ Parent(t, q) # q /\ Parent(t, q) \notin D[q]
      BY <1>1, <3>1, ParentFacts
    <3>3. y \in D[q]
      BY <1>1, ChildFacts
    <3> QED BY <1>1, <1>8, <1>9, <3>1, <3>2, <3>3
  <2> HIDE DEF P
  <2> QED BY <1>9, <1>10, <1>11, <2>1, <2>2, RotateReds
<1>16. \E F : Shape(u, F) /\ F[u.root] = P
  BY <1>11
<1>17. \E K : Levels(u, P, K, NULL, "left")
  BY <1>14
<1> HIDE DEF P
<1> QED BY <1>15, <1>16, <1>17 DEF P

-----------------------------------------------------------------------------
(***************************************************************************)
(* The invariant, and the steps that keep it.                              *)
(***************************************************************************)
\* The invariant, of the subtrees D and the counts H.
Whole(D, H) == Shape(tree, D) /\ Searching(D) /\ Colored(D[tree.root], H)

\* The inductive invariant: there are subtrees and counts.  They are what the
\* properties speak of without naming it: what is reached, and how much black is
\* below.
IndInv == \E D, H : Whole(D, H)

\* Neither is a path short nor a red element below a red one.
Calm(t, P, H) == Levels(t, P, H, NULL, "left") /\ Reds(t, P, NULL, NULL)

\* Outside the repairs the colors are in order.
LEMMA Resting ==
  ASSUME NEW P, P \subseteq Elements, NEW H
  PROVE  /\ pc \notin {"insert_color", "remove_color"} => (Colored(P, H) <=> Calm(tree, P, H))
         /\ pc' \notin {"insert_color", "remove_color"} => (Colored(P, H)' <=> Calm(tree', P, H))
<1>1. \A t, s : Levels(t, P, H, NULL, s) => Levels(t, P, H, NULL, "left")
  BY NoHole
<1>2. \A t, s : Levels(t, P, H, NULL, "left") => Levels(t, P, H, NULL, s)
  BY NoHole
<1>3. pc \notin {"insert_color", "remove_color"} => (Colored(P, H) <=> Calm(tree, P, H))
  BY <1>1, <1>2 DEF Colored, Calm
<1>4. pc' \notin {"insert_color", "remove_color"} => (Colored(P, H)' <=> Calm(tree', P, H))
  BY <1>1, <1>2 DEF Colored, Calm
<1> QED BY <1>3, <1>4

\* A step that leaves the tree alone and begins or goes on with a walk, or ends a call.
LEMMA WalkKeeps ==
  ASSUME NEW D, NEW H, Whole(D, H), tree' = tree, Shape(tree', D), Searching(D)',
         pc \notin {"insert_color", "remove_color"}, pc' \notin {"insert_color", "remove_color"}
  PROVE  IndInv'
<1>1. D[tree.root] \subseteq Elements
  BY ShapeTypes DEF Whole
<1>2. Calm(tree, D[tree.root], H)
  BY <1>1, Resting DEF Whole
<1>3. Colored(D[tree.root], H)'
  <2> DEFINE P == D[tree.root]
  <2>1. Colored(P, H)'
    <3>1. P' = P
      OBVIOUS
    <3> QED BY <1>1, <1>2, Resting DEF Colored, Calm
  <2> QED BY <2>1
<1> QED BY <1>3 DEF IndInv, Whole

\* The invariant after a step, from a tree that shows it.
LEMMA Established ==
  ASSUME NEW D, NEW H, NEW P, Shape(tree', D), D[tree'.root] = P, Searching(D)', Colored(P, H)'
  PROVE  IndInv'
<1>1. Whole(D, H)'
  BY DEF Whole
<1> QED BY <1>1 DEF IndInv

\* What has to be shown when an insertion begins or goes on repairing.
LEMMA InsertingColored ==
  ASSUME NEW P, P \subseteq Elements, NEW H, pc' = "insert_color",
         Levels(tree', P, H, NULL, "left"), Reds(tree', P, at', NULL), IsRed(tree', at')
  PROVE  Colored(P, H)'
<1>1. Levels(tree', P, H, NULL, SideOf(tree', at', up'))
  BY NoHole
<1> QED BY <1>1 DEF Colored

\* The steps that only read the tree.
LEMMA SearchesKeep ==
  ASSUME NEW D, NEW H, Whole(D, H), InTree = D[tree.root],
         CallSearch \/ CallNeighbour \/ CallRemove \/ Descend \/ Seek \/ Climb \/ Found \/ NotFound \/ Sought
  PROVE  IndInv'
<1>1. Shape(tree, D) /\ Searching(D)
  BY DEF Whole
<1>2. CASE CallSearch
  <2>1. Shape(tree', D) /\ Searching(D)'
    BY <1>1, <1>2, CallSearchKeeps
  <2>2. tree' = tree /\ pc = "idle" /\ pc' = "descend"
    BY <1>2 DEF CallSearch, Enter
  <2> QED BY <2>1, <2>2, WalkKeeps
<1>3. CASE CallNeighbour
  <2>1. Shape(tree', D) /\ Searching(D)'
    BY <1>1, <1>3, CallNeighbourKeeps
  <2>2. tree' = tree /\ pc = "idle" /\ pc' \in {"climb", "seek"}
    BY <1>3 DEF CallNeighbour, Enter
  <2> QED BY <2>1, <2>2, WalkKeeps
<1>4. CASE CallRemove
  <2>1. Shape(tree', D) /\ Searching(D)'
    BY <1>1, <1>4, CallRemoveKeeps
  <2>2. tree' = tree /\ pc = "idle" /\ pc' \in {"splice", "seek"}
    BY <1>4 DEF CallRemove, Enter
  <2> QED BY <2>1, <2>2, WalkKeeps
<1>5. CASE Descend
  <2>1. Shape(tree', D) /\ Searching(D)'
    BY <1>1, <1>5, DescendKeeps
  <2>2. tree' = tree /\ pc = "descend" /\ pc' = "descend"
    BY <1>5 DEF Descend
  <2> QED BY <2>1, <2>2, WalkKeeps
<1>6. CASE Seek
  <2>1. Shape(tree', D) /\ Searching(D)'
    BY <1>1, <1>6, SeekKeeps
  <2>2. tree' = tree /\ pc = "seek" /\ pc' = "seek"
    BY <1>6 DEF Seek
  <2> QED BY <2>1, <2>2, WalkKeeps
<1>7. CASE Climb
  <2>1. Shape(tree', D) /\ Searching(D)'
    BY <1>1, <1>7, ClimbKeeps
  <2>2. tree' = tree /\ pc = "climb" /\ pc' \in {"climb", "idle"}
    BY <1>7 DEF Climb, Return
  <2> QED BY <2>1, <2>2, WalkKeeps
<1>8. CASE Found \/ NotFound \/ Sought
  <2>1. tree' = tree /\ pc \in {"descend", "seek"} /\ pc' = "idle"
    BY <1>8 DEF Found, NotFound, Sought, Return
  <2>2. Shape(tree', D) /\ Searching(D)'
    BY <1>1, <2>1, Idle
  <2> QED BY <2>1, <2>2, WalkKeeps
<1> QED BY <1>2, <1>3, <1>4, <1>5, <1>6, <1>7, <1>8

\* RB_INSERT links its element in.
LEMMA LinkKeeps ==
  ASSUME NEW D, NEW H, Whole(D, H), Link
  PROVE  /\ IndInv' /\ elm \in Elements \ D[tree.root]
         /\ \E F : Shape(tree', F) /\ F[tree'.root] = D[tree.root] \cup {elm}
<1> DEFINE P == D[tree.root]
           r == Toward(up)
           F == Grown(D, elm, up)
           Q == P \cup {elm}
<1>1. Shape(tree, D) /\ Searching(D) /\ Colored(P, H)
  BY DEF Whole
<1>2. /\ pc = "descend" /\ at = NULL /\ op = "insert" /\ pc' = "insert_color" /\ at' = elm
      /\ op' = op /\ elm' = elm /\ up' = up /\ result' = result
      /\ tree' = LinkedAt(tree, elm, up, r)
  BY DEF Link, LinkedAt
<1>3. /\ result = NULL /\ up \in P \cup {NULL} /\ elm \in Elements /\ (elm \in P => elm \in D[NULL])
      /\ IF up = NULL THEN NULL = tree.root ELSE up # elm /\ NULL = Child(tree, up, r)
      /\ \A z \in P, s \in Sides : up \in D[Child(tree, z, s)] => On(s, elm, z)
  <2>1. InDescend(D)
    BY <1>1 DEF Searching
  <2>2. elm \in Elements /\ (elm \in P => elm \in D[at])
    BY <1>2, <2>1, NoNull DEF InDescend
  <2> QED BY <1>2, <2>1, <2>2 DEF InDescend
<1>4. P \subseteq Elements /\ Elements \subseteq Nat \ {NULL} /\ D[NULL] = {}
  BY <1>1, ShapeTypes
<1>5. Gap(tree, D, elm, up, r)
  <2>1. r \in Sides
    BY SideValues
  <2>2. up # NULL => On(r, elm, up)
    <3> SUFFICES ASSUME up # NULL PROVE On(r, elm, up)
      OBVIOUS
    <3>1. elm \in Nat /\ up \in Nat /\ elm # up
      BY <1>3, <1>4
    <3>2. r = SideTo(elm, up)
      BY <1>2, <3>1, SideValues
    <3> QED BY <2>1, <3>1, <3>2, OnFacts
  <2> HIDE DEF r
  <2> QED BY <1>3, <1>4, <2>1, <2>2 DEF Gap
<1>6. up \in Slots
  BY <1>3, <1>4 DEF Slots
<1> HIDE DEF r
<1>7. Shape(tree', F) /\ F[tree'.root] = Q
  <2> HIDE DEF F
  <2>1. Shape(tree', F)
    BY <1>1, <1>2, <1>5, <1>6, LinkShape DEF F
  <2>2. F[tree'.root] = Q
    BY <1>1, <1>2, <1>5, <1>6, LinkShape DEF F
  <2> QED BY <2>1, <2>2
<1>8. Calm(tree, P, H)
  BY <1>1, <1>2, <1>4, Resting
<1>9. /\ \E J : Levels(tree', Q, J, NULL, "left")
      /\ Reds(tree', Q, elm, NULL) /\ IsRed(tree', elm)
  BY <1>1, <1>2, <1>5, <1>6, <1>8, LinkColored DEF Calm
<1>10. PICK E, J, R : R = Q /\ Shape(tree', E) /\ E[tree'.root] = R /\ Levels(tree', R, J, NULL, "left")
  BY <1>7, <1>9
<1>11. Searching(E)'
  <2>1. elm \in R
    BY <1>10
  <2> QED BY <1>2, <1>3, <1>10, <2>1 DEF Searching, InDescend, InSeek, InClimb, InSplice, InRepair
<1>12. R \subseteq Elements /\ Reds(tree', R, at', NULL) /\ IsRed(tree', at')
  BY <1>2, <1>3, <1>4, <1>9, <1>10
<1>13. IndInv'
  BY <1>2, <1>10, <1>11, <1>12, InsertingColored, Established
<1>14. elm \notin P
  BY <1>3, <1>4
<1>15. \E G : Shape(tree', G) /\ G[tree'.root] = Q
  BY <1>7
<1> QED BY <1>3, <1>13, <1>14, <1>15

\* A pass of RB_INSERT_COLOR.
LEMMA InsertColorKeeps ==
  ASSUME NEW D, NEW H, Whole(D, H), InsertColor
  PROVE  IndInv' /\ \E F : Shape(tree', F) /\ F[tree'.root] = D[tree.root]
<1> DEFINE P == D[tree.root]
           p == Parent(tree, at)
           g == Parent(tree, p)
           s == SideOf(tree, p, g)
           v == Child(tree, g, Other(s))
<1>1. Shape(tree, D) /\ Searching(D) /\ Colored(P, H)
  BY DEF Whole
<1>2. /\ pc = "insert_color" /\ IsRed(tree, p) /\ op' = op /\ elm' = elm /\ up' = up /\ result' = result
  BY DEF InsertColor
<1>3. result = NULL /\ op = "insert" /\ elm \in P /\ at \in P
  BY <1>1, <1>2 DEF Searching, InRepair
<1>4. P \subseteq Elements /\ Elements \subseteq Nat \ {NULL}
  BY <1>1, ShapeTypes
<1>5. Levels(tree, P, H, NULL, "left") /\ Reds(tree, P, at, NULL) /\ IsRed(tree, at)
  <2>1. Levels(tree, P, H, NULL, SideOf(tree, at, up))
    BY <1>1, <1>2 DEF Colored
  <2>2. Reds(tree, P, at, NULL) /\ IsRed(tree, at)
    BY <1>1, <1>2 DEF Colored
  <2> QED BY <1>4, <2>1, <2>2, NoHole
<1>6. UnderRed(tree, P, H, at, p, g, s)
  BY <1>1, <1>2, <1>3, <1>5, RedParent
<1>7. g # NULL
  BY <1>6 DEF UnderRed
\* What remains to be shown of either branch.
<1>8. ASSUME NEW F, Shape(tree', F), F[tree'.root] = P, pc' = pc, at' \in P, Reds(tree', P, at', NULL), IsRed(tree', at'),
             NEW J, Levels(tree', P, J, NULL, "left")
      PROVE  IndInv'
  <2>1. Searching(F)'
    BY <1>2, <1>3, <1>8 DEF Searching, InDescend, InSeek, InClimb, InSplice, InRepair
  <2>2. PICK Q : Q = P
    OBVIOUS
  <2>3. Q \subseteq Elements /\ pc' = "insert_color" /\ Levels(tree', Q, J, NULL, "left")
        /\ Reds(tree', Q, at', NULL) /\ F[tree'.root] = Q
    BY <1>2, <1>4, <1>8, <2>2
  <2> QED BY <1>8, <2>1, <2>3, InsertingColored, Established
<1>11. ASSUME pc' = pc, at' \in P, Ended(tree', P, at', "left")
       PROVE  IndInv' /\ \E F : Shape(tree', F) /\ F[tree'.root] = P
  <2>1. PICK F, J : Shape(tree', F) /\ F[tree'.root] = P /\ Levels(tree', P, J, NULL, "left")
    BY <1>11 DEF Ended
  <2>2. Reds(tree', P, at', NULL) /\ IsRed(tree', at')
    BY <1>11 DEF Ended
  <2> QED BY <1>8, <1>11, <2>1, <2>2
<1>9. CASE IsRed(tree, v)
  <2>1. tree' = Recolored(tree, p, g, v) /\ at' = g /\ pc' = pc
    BY <1>7, <1>9 DEF InsertColor
  <2>2. at' \in P /\ Ended(tree', P, at', "left")
    BY <1>1, <1>2, <1>3, <1>5, <1>6, <1>9, <2>1, RecoloredColored
  <2> QED BY <1>11, <2>1, <2>2
<1>10. CASE ~IsRed(tree, v)
  <2>1. tree' = Rotated(tree, at, p, g, s).tree /\ at' = Rotated(tree, at, p, g, s).at /\ pc' = pc
    BY <1>7, <1>10 DEF InsertColor
  <2>2. at' \in P /\ Ended(tree', P, at', "left")
    BY <1>1, <1>2, <1>3, <1>5, <1>6, <1>10, <2>1, RotatedColored
  <2> QED BY <1>11, <2>1, <2>2
<1> QED BY <1>9, <1>10

\* The end of RB_INSERT_COLOR.
LEMMA InsertEndKeeps ==
  ASSUME NEW D, NEW H, Whole(D, H), InsertEnd
  PROVE  IndInv' /\ Shape(tree', D) /\ tree'.root = tree.root
<1> DEFINE P == D[tree.root]
<1>1. Shape(tree, D) /\ Searching(D) /\ Colored(P, H)
  BY DEF Whole
<1>2. /\ pc = "insert_color" /\ ~IsRed(tree, Parent(tree, at)) /\ tree' = SetColor(tree, tree.root, "black")
      /\ pc' = "idle"
  BY DEF InsertEnd, Return
<1>3. at \in P
  BY <1>1, <1>2 DEF Searching, InRepair
<1>4. P \subseteq Elements /\ tree.root \in P
  BY <1>1, <1>3, ShapeTypes
<1>5. Levels(tree, P, H, NULL, "left") /\ Reds(tree, P, at, NULL)
  <2>1. Levels(tree, P, H, NULL, SideOf(tree, at, up))
    BY <1>1, <1>2 DEF Colored
  <2>2. Reds(tree, P, at, NULL)
    BY <1>1, <1>2 DEF Colored
  <2> QED BY <1>4, <2>1, <2>2, NoHole
<1>6. \A z \in P : IsRed(tree, z) /\ z # tree.root => ~IsRed(tree, Parent(tree, z))
  BY <1>1, <1>2, <1>5, RedsAre
<1>7. Shape(tree', D) /\ tree'.root = tree.root /\ Settled(tree', P)
  <2>1. LastAt(tree, P, H, NULL, "left", tree.root)
    BY <1>4, <1>5, <1>6 DEF LastAt
  <2> QED BY <1>1, <1>2, <2>1, BlackenedColored
<1>8. PICK J : Levels(tree', P, J, NULL, "left") /\ Reds(tree', P, NULL, NULL)
  BY <1>7 DEF Settled
<1>9. PICK Q : Q = P
  OBVIOUS
<1>10. Colored(Q, J)'
  BY <1>2, <1>4, <1>7, <1>8, <1>9, Resting DEF Calm
<1>11. Searching(D)'
  BY <1>2, Idle
<1>12. D[tree'.root] = Q
  BY <1>7, <1>9
<1> QED BY <1>7, <1>10, <1>11, <1>12, Established

-----------------------------------------------------------------------------
(***************************************************************************)
(* The steps of a removal.                                                 *)
(***************************************************************************)
\* What has to be shown when a removal begins or goes on repairing.
LEMMA RemovingColored ==
  ASSUME NEW P, P \subseteq Elements, NEW H, pc' = "remove_color", Reds(tree', P, at', at'),
         at' = tree'.root => Levels(tree', P, H, NULL, "left"),
         at' # tree'.root => /\ up' \in P /\ Child(tree', up', SideOf(tree', at', up')) = at'
                             /\ Levels(tree', P, H, up', SideOf(tree', at', up'))
  PROVE  Colored(P, H)'
<1>1. CASE at' = tree'.root
  <2>1. Levels(tree', P, H, NULL, SideOf(tree', at', up'))
    BY <1>1, NoHole
  <2> QED BY <1>1, <2>1 DEF Colored
<1>2. CASE at' # tree'.root
  BY <1>2 DEF Colored
<1> QED BY <1>1, <1>2

\* What a removal leaves: the paths through c, the child of q at side s, are short
\* unless the element that was unlinked was red.
Spliced(u, R, red, c, q, s) ==
  /\ \E F : Shape(u, F) /\ F[u.root] = R
  /\ \E J : Levels(u, R, J, IF red THEN NULL ELSE q, s)
  /\ Reds(u, R, IF red THEN NULL ELSE c, NULL)
  /\ c \in R \cup {NULL}
  /\ q = NULL => u.root = c
  /\ q # NULL => q \in R /\ s \in Sides /\ Child(u, q, s) = c /\ c # u.root

\* A child is not the root, and neither is NULL where there are elements.
LEMMA ChildNotRoot ==
  ASSUME NEW t, NEW D, Shape(t, D), NEW q \in D[t.root], NEW s \in Sides, NEW c, Child(t, q, s) = c
  PROVE  c # t.root
<1>1. c # NULL => c # t.root
  BY ChildFacts
<1>2. t.root # NULL
  BY ShapeTypes
<1> QED BY <1>1, <1>2

\* A removal of an element with one child at most.
LEMMA SpliceOne ==
  ASSUME NEW t, NEW D, Shape(t, D), NEW x \in D[t.root], ~HasTwo(t, x),
         NEW H, NEW e, Levels(t, D[t.root], H, NULL, e), Reds(t, D[t.root], NULL, NULL),
         NEW u, u = Cleared(Without(t, x), x)
  PROVE  Spliced(u, D[t.root] \ {x}, IsRed(t, x), OnlyChild(t, x), Parent(t, x), SideOf(t, x, Parent(t, x)))
<1> DEFINE P == D[t.root]
           R == P \ {x}
           p == Parent(t, x)
           s == SideOf(t, x, p)
           c == OnlyChild(t, x)
           cut == Without(t, x)
           E == WithoutIt(D, x)
           red == IsRed(t, x)
<1>1. CutOut(t, cut, x, c) /\ Shape(cut, E) /\ E[cut.root] = R /\ c \in P \cup {NULL}
  BY CutShape
<1>2. Levels(cut, R, H, IF red THEN NULL ELSE p, s) /\ Reds(cut, R, IF red THEN NULL ELSE c, NULL)
  BY CutColored
<1>3. P \subseteq Elements /\ Elements \subseteq Nat \ {NULL} /\ x \in Elements
  BY ShapeTypes
<1>4. /\ p = NULL <=> x = t.root
      /\ p # NULL => p \in R /\ p \in Elements /\ s \in Sides /\ Child(t, p, s) = x
  BY ParentFacts
<1>5. c # x
  <2>1. \A r \in Sides : Child(t, x, r) # x
    BY ChildFacts
  <2> QED BY <2>1 DEF OnlyChild, Sides
<1> HIDE DEF P, R, p, s, c, cut, E, red
<1>6. x \notin E[cut.root]
  BY <1>1 DEF R
<1>7. Shape(u, E) /\ SameLinks(cut, u, R) /\ \A z \in R : Color(u, z) = Color(cut, z)
  BY <1>1, <1>3, <1>6, ClearShape DEF cut
<1>8. u.root = cut.root /\ E[u.root] = R
  BY <1>1, <1>7 DEF SameLinks
<1>9. R \subseteq Elements /\ NULL \notin R /\ c \in R \cup {NULL}
  BY <1>1, <1>3, <1>5 DEF R
<1>10. \A z \in R : /\ IsRed(u, z) <=> IsRed(cut, z)
                    /\ Parent(u, z) = Parent(cut, z) /\ \A r \in Sides : Child(u, z, r) = Child(cut, z, r)
  BY <1>7, RedIs DEF SameLinks
<1>11. Levels(u, R, H, IF red THEN NULL ELSE p, s)
  BY <1>2, <1>10 DEF Levels
<1>12. \A z \in R : z # u.root => Parent(u, z) \in R
  BY <1>7, <1>8, ParentFacts
<1>13. Reds(u, R, IF red THEN NULL ELSE c, NULL)
  BY <1>2, <1>8, <1>10, <1>12 DEF Reds
<1>14. p = NULL => u.root = c
  BY <1>1, <1>8 DEF CutOut, p
<1>15. ASSUME p # NULL
       PROVE  p \in R /\ s \in Sides /\ Child(u, p, s) = c /\ c # u.root
  <2>1. p \in R /\ p \in Elements /\ s \in Sides
    BY <1>4, <1>15
  <2>2. Child(cut, p, s) = c
    BY <1>1, <2>1 DEF CutOut, p, s
  <2>3. Child(u, p, s) = c
    BY <1>10, <2>1, <2>2
  <2> QED BY <1>7, <1>8, <2>1, <2>3, ChildNotRoot
<1> QED BY <1>7, <1>8, <1>9, <1>11, <1>13, <1>14, <1>15 DEF Spliced, P, R, p, s, c, red

\* A removal of an element whose place the next one takes.
LEMMA SpliceTwo ==
  ASSUME NEW t, NEW D, Shape(t, D), NEW x \in D[t.root], ~HasTwo(t, x),
         NEW H, NEW e, Levels(t, D[t.root], H, NULL, e), Reds(t, D[t.root], NULL, NULL),
         NEW old \in D[t.root], old # x, OnlyChild(t, x) # old,
         \A z \in D[t.root], r \in Sides : z # old /\ z # x => (On(r, x, z) <=> On(r, old, z)),
         NEW u, u = Cleared(TakePlace(Without(t, x), x, old), old)
  PROVE  Spliced(u, D[t.root] \ {old}, IsRed(t, x), OnlyChild(t, x), New(Parent(t, x), x, old),
                 SideOf(t, x, Parent(t, x)))
<1> DEFINE P == D[t.root]
           R == P \ {x}
           Q == P \ {old}
           p == Parent(t, x)
           s == SideOf(t, x, p)
           c == OnlyChild(t, x)
           cut == Without(t, x)
           E == WithoutIt(D, x)
           F == Renamed(E, x, old)
           red == IsRed(t, x)
           q == IF red THEN NULL ELSE p
           a == IF red THEN NULL ELSE c
           new == New(p, x, old)
<1>1. CutOut(t, cut, x, c) /\ Shape(cut, E) /\ E[cut.root] = R /\ c \in P \cup {NULL}
  BY CutShape
<1>2. Levels(cut, R, H, q, s) /\ Reds(cut, R, a, NULL)
  BY CutColored
<1>3. P \subseteq Elements /\ Elements \subseteq Nat \ {NULL} /\ x \in Elements
  BY ShapeTypes
<1>4. /\ p = NULL <=> x = t.root
      /\ p # NULL => p \in R /\ p \in Elements /\ s \in Sides /\ Child(t, p, s) = x
  BY ParentFacts
<1>5. c # x
  <2>1. \A r \in Sides : Child(t, x, r) # x
    BY ChildFacts
  <2> QED BY <2>1 DEF OnlyChild, Sides
<1>6. c # old /\ old \in R /\ old # NULL /\ old # x
  BY <1>3
<1>7. \A z \in R, r \in Sides : z # old => (On(r, x, z) <=> On(r, old, z))
  OBVIOUS
<1>8. (R \ {old}) \cup {x} = Q
  BY <1>6
<1> HIDE DEF P, R, Q, p, s, c, cut, E, red, F, q, a, new
<1>9. x \in Elements \ E[cut.root] /\ old \in E[cut.root]
  BY <1>1, <1>3, <1>6 DEF R
<1>10. Renames(cut, u, R, x, old) /\ Shape(u, F) /\ F[u.root] = Q
  <2>1. \A z \in E[cut.root], r \in Sides : z # old => (On(r, x, z) <=> On(r, old, z))
    BY <1>1, <1>7
  <2>2. u = Cleared(TakePlace(cut, x, old), old)
    BY DEF cut
  <2>3. Renames(cut, u, E[cut.root], x, old) /\ Shape(u, F) /\ F[u.root] = (E[cut.root] \ {old}) \cup {x}
    BY <1>1, <1>9, <2>1, <2>2, PlaceShape DEF F
  <2> QED BY <1>1, <1>8, <2>3
<1>11. q \in R \cup {NULL} /\ a # old
  BY <1>4, <1>6 DEF q, a
<1>12. (\E J : Levels(u, Q, J, New(q, x, old), s)) /\ Reds(u, Q, a, NULL)
  <2>1. q \in E[cut.root] \cup {NULL} /\ Levels(cut, E[cut.root], H, q, s) /\ Reds(cut, E[cut.root], a, NULL)
        /\ Renames(cut, u, E[cut.root], x, old)
    BY <1>1, <1>2, <1>10, <1>11
  <2>2. /\ \E J : Levels(u, (E[cut.root] \ {old}) \cup {x}, J, New(q, x, old), s)
        /\ Reds(u, (E[cut.root] \ {old}) \cup {x}, a, NULL)
    BY <1>1, <1>9, <1>11, <2>1, PlaceColored
  <2> QED BY <1>1, <1>8, <2>2
<1>13. New(q, x, old) = IF red THEN NULL ELSE new
  BY <1>6 DEF q, new, New
<1>14. new = NULL => p = NULL
  BY <1>3 DEF new, New
<1>15. new = NULL => u.root = c
  <2>1. p = NULL => cut.root = c
    BY <1>1 DEF CutOut, p
  <2> QED BY <1>6, <1>10, <1>14, <2>1 DEF Renames, New
<1>16. ASSUME new # NULL
       PROVE  new \in Q /\ s \in Sides /\ Child(u, new, s) = c /\ c # u.root
  <2>1. p # NULL
    BY <1>6, <1>16 DEF new, New
  <2>2. p \in R /\ p \in Elements /\ s \in Sides
    BY <1>4, <2>1
  <2>3. Child(cut, p, s) = c
    BY <1>1, <2>2 DEF CutOut, p, s
  <2>4. Child(u, new, s) = New(c, x, old)
    BY <1>10, <2>2, <2>3 DEF Renames, new
  <2>5. Child(u, new, s) = c
    BY <1>6, <2>4 DEF New
  <2>6. new \in Q
    BY <1>8, <2>2 DEF new, New
  <2> QED BY <1>10, <2>2, <2>5, <2>6, ChildNotRoot
<1>17. c \in Q \cup {NULL}
  BY <1>1, <1>6 DEF Q
<1>18. (\E J : Levels(u, Q, J, IF red THEN NULL ELSE new, s)) /\ Reds(u, Q, IF red THEN NULL ELSE c, NULL)
  BY <1>12, <1>13 DEF a
<1> QED BY <1>10, <1>15, <1>16, <1>17, <1>18 DEF Spliced, P, Q, p, s, c, red, new

\* The element a removal finds for the place of elm is the next one.
LEMMA SoughtNext ==
  ASSUME NEW D, Shape(tree, D), InSeek(D), pc = "seek", op = "remove", Child(tree, at, SeekSide) = NULL
  PROVE  /\ at \in D[tree.root] /\ elm \in D[tree.root] /\ elm # at /\ OnlyChild(tree, at) # elm
         /\ ~HasTwo(tree, at)
         /\ \A z \in D[tree.root], r \in Sides : z # elm /\ z # at => (On(r, at, z) <=> On(r, elm, z))
<1> DEFINE P == D[tree.root]
<1>1. SeekSide = "left" /\ Child(tree, at, "left") = NULL
  BY DEF SeekSide
<1>2. /\ elm \in P /\ at \in P /\ \A y \in D[at] : elm < y
      /\ \A y \in P : elm < y => y \in D[at] \/ at < y
  BY <1>1 DEF InSeek, On
<1>3. /\ P \subseteq Elements /\ Elements \subseteq Nat \ {NULL} /\ D[NULL] = {}
      /\ elm \in Nat /\ at \in Nat /\ elm # NULL /\ \A y \in P : y \in Nat
  <2>1. P \subseteq Elements /\ Elements \subseteq Nat \ {NULL} /\ D[NULL] = {}
    BY ShapeTypes
  <2> QED BY <1>2, <2>1
<1> HIDE DEF P
<1>4. at \in D[at] /\ NodeIn(tree, D, at)
  BY <1>2 DEF Shape, NodeIn, P
<1>5. elm < at
  BY <1>2, <1>4
<1>6. \A y \in D[at] : y # at => at < y
  <2> SUFFICES ASSUME NEW y \in D[at], y # at PROVE at < y
    OBVIOUS
  <2>1. y \in D[Child(tree, at, SideTo(y, at))] /\ y \in P
    BY <1>4 DEF NodeIn, P
  <2>2. SideTo(y, at) # "left"
    BY <1>1, <1>3, <2>1
  <2>3. ~(y < at) /\ y \in Nat
    BY <1>3, <2>1, <2>2 DEF SideTo
  <2> QED BY <1>3, <2>3
<1>7. \A z \in P : z # at => (at < z <=> elm < z)
  BY <1>2, <1>3, <1>5, <1>6
<1>8. OnlyChild(tree, at) # elm
  <2>1. OnlyChild(tree, at) = Child(tree, at, "right")
    BY <1>1 DEF OnlyChild
  <2>2. "right" \in Sides
    BY DEF Sides
  <2>3. Child(tree, at, "right") # NULL => Child(tree, at, "right") \in D[at]
    BY <1>2, <2>2, ChildFacts DEF P
  <2>4. elm \notin D[at]
    BY <1>2, <1>3
  <2> QED BY <1>3, <2>1, <2>3, <2>4
<1>9. ~HasTwo(tree, at)
  BY <1>1 DEF HasTwo, Sides
<1>10. ASSUME NEW z \in P, NEW r \in Sides, z # elm, z # at
       PROVE  On(r, at, z) <=> On(r, elm, z)
  BY <1>2, <1>3, <1>7, <1>10 DEF On, Sides
<1> QED BY <1>2, <1>3, <1>5, <1>8, <1>9, <1>10 DEF P

\* Both are what RB_REMOVE does.
LEMMA SpliceIs ==
  ASSUME NEW D, NEW H, Whole(D, H), Splice
  PROVE  /\ elm \in D[tree.root] /\ at \in D[tree.root] /\ op = "remove"
         /\ Spliced(tree', D[tree.root] \ {elm}, IsRed(tree, at), OnlyChild(tree, at), ParentLeft(at),
                    SideOf(tree, at, Parent(tree, at)))
<1> DEFINE P == D[tree.root]
           placed == IF at = elm THEN Without(tree, at) ELSE TakePlace(Without(tree, at), at, elm)
<1>1. Shape(tree, D) /\ Searching(D) /\ Colored(P, H)
  BY DEF Whole
<1>2. pc = "splice" \/ (pc = "seek" /\ op = "remove" /\ Child(tree, at, SeekSide) = NULL)
  BY DEF Splice
<1>3. tree' = Cleared(placed, elm)
  BY DEF Splice, Cleared
<1>4. Levels(tree, P, H, NULL, "left") /\ Reds(tree, P, NULL, NULL)
  <2>1. P \subseteq Elements
    BY <1>1, ShapeTypes
  <2> QED BY <1>1, <1>2, <2>1, Resting DEF Calm
<1>5. ParentLeft(at) = New(Parent(tree, at), at, elm)
  BY DEF ParentLeft, New
<1>6. CASE pc = "splice"
  <2>1. op = "remove" /\ elm \in P /\ at = elm /\ ~HasTwo(tree, at)
    BY <1>1, <1>6 DEF Searching, InSplice
  <2>2. tree' = Cleared(Without(tree, at), at)
    BY <1>3, <2>1
  <2>3. Spliced(tree', P \ {at}, IsRed(tree, at), OnlyChild(tree, at), Parent(tree, at), SideOf(tree, at, Parent(tree, at)))
    BY <1>1, <1>4, <2>1, <2>2, SpliceOne
  <2>4. ParentLeft(at) = Parent(tree, at)
    BY <2>1 DEF ParentLeft
  <2> QED BY <2>1, <2>3, <2>4
<1>7. CASE pc = "seek" /\ op = "remove" /\ Child(tree, at, SeekSide) = NULL
  <2>1. InSeek(D)
    BY <1>1 DEF Searching
  <2>2. /\ at \in P /\ elm \in P /\ elm # at /\ OnlyChild(tree, at) # elm /\ ~HasTwo(tree, at)
        /\ \A z \in P, r \in Sides : z # elm /\ z # at => (On(r, at, z) <=> On(r, elm, z))
    BY <1>1, <1>7, <2>1, SoughtNext
  <2>3. tree' = Cleared(TakePlace(Without(tree, at), at, elm), elm)
    BY <1>3, <2>2
  <2>4. Spliced(tree', P \ {elm}, IsRed(tree, at), OnlyChild(tree, at), New(Parent(tree, at), at, elm),
                SideOf(tree, at, Parent(tree, at)))
    BY <1>1, <1>4, <2>2, <2>3, SpliceTwo
  <2> QED BY <1>5, <1>7, <2>2, <2>4
<1> QED BY <1>2, <1>6, <1>7

\* RB_REMOVE unlinks its element.
LEMMA SpliceKeeps ==
  ASSUME NEW D, NEW H, Whole(D, H), Splice
  PROVE  /\ IndInv' /\ elm \in D[tree.root] /\ op = "remove"
         /\ \E F : Shape(tree', F) /\ F[tree'.root] = D[tree.root] \ {elm}
<1>1. PICK R, s, c, q : R = D[tree.root] \ {elm} /\ s = SideOf(tree, at, Parent(tree, at))
                        /\ c = OnlyChild(tree, at) /\ q = ParentLeft(at)
  OBVIOUS
<1>2. elm \in D[tree.root] /\ op = "remove" /\ Spliced(tree', R, IsRed(tree, at), c, q, s)
  BY <1>1, SpliceIs
<1>3. D[tree.root] \subseteq Elements
  BY ShapeTypes DEF Whole
<1>4. PICK F : Shape(tree', F) /\ F[tree'.root] = R
  BY <1>2 DEF Spliced
<1>5. \E E : Shape(tree', E) /\ E[tree'.root] = D[tree.root] \ {elm}
  BY <1>1, <1>4
<1>6. R \subseteq Elements /\ elm \in Elements \ R
  BY <1>1, <1>2, <1>3
<1>7. CASE IsRed(tree, at)
  <2>1. pc' = "idle"
    BY <1>7 DEF Splice, Return
  <2>2. PICK J : Levels(tree', R, J, NULL, s)
    BY <1>2, <1>7 DEF Spliced
  <2>3. Reds(tree', R, NULL, NULL)
    BY <1>2, <1>7 DEF Spliced
  <2>4. Levels(tree', R, J, NULL, "left")
    BY <1>6, <2>2, NoHole
  <2>5. Colored(R, J)'
    BY <1>6, <2>1, <2>3, <2>4, Resting DEF Calm
  <2>6. Searching(F)'
    BY <2>1, Idle
  <2>7. IndInv'
    BY <1>4, <2>5, <2>6, Established
  <2> QED BY <1>2, <1>5, <2>7
<1>8. CASE ~IsRed(tree, at)
  <2>1. /\ pc' = "remove_color" /\ result' = elm /\ at' = c /\ up' = q /\ op' = op /\ elm' = elm
    BY <1>1, <1>8 DEF Splice
  <2>2. PICK J : Levels(tree', R, J, q, s)
    BY <1>2, <1>8 DEF Spliced
  <2>3. Reds(tree', R, c, NULL)
    BY <1>2, <1>8 DEF Spliced
  <2>4. /\ c \in R \cup {NULL} /\ (q = NULL => tree'.root = c)
        /\ q # NULL => q \in R /\ s \in Sides /\ Child(tree', q, s) = c /\ c # tree'.root
    BY <1>2 DEF Spliced
  <2>5. Reds(tree', R, c, c)
    BY <2>3, <1>4, RedsAre DEF Reds
  <2>6. c = tree'.root => Levels(tree', R, J, NULL, "left")
    BY <1>6, <2>2, <2>4, NoHole
  <2>7. ASSUME c # tree'.root
        PROVE  q \in R /\ Child(tree', q, SideOf(tree', c, q)) = c /\ Levels(tree', R, J, q, SideOf(tree', c, q))
    <3>1. q \in R /\ s \in Sides /\ Child(tree', q, s) = c
      BY <2>4, <2>7
    <3>2. q \in F[tree'.root] /\ Levels(tree', F[tree'.root], J, q, s) /\ Shape(tree', F)
      BY <1>4, <2>2, <3>1
    <3>3. SideOf(tree', c, q) = s
      BY <3>1, <3>2, HoleSide DEF Sided
    <3> QED BY <2>2, <3>1, <3>3
  <2>8. Colored(R, J)'
    BY <1>6, <2>1, <2>5, <2>6, <2>7, RemovingColored
  <2>9. q \in Slots
    BY <1>6, <2>4 DEF Slots
  <2>10. Searching(F)'
    BY <1>2, <1>4, <1>6, <2>1, <2>4, <2>9 DEF Searching, InDescend, InSeek, InClimb, InSplice, InRepair
  <2>11. IndInv'
    BY <1>4, <2>8, <2>10, Established
  <2> QED BY <1>2, <1>5, <2>11
<1> QED BY <1>7, <1>8

\* The sibling of the short paths, when a red one has been rotated away.
LEMMA SiblingFound ==
  ASSUME NEW t, NEW D, Shape(t, D), NEW H, NEW x, NEW q, NEW s, ShortAt(t, D[t.root], H, x, q, s), x # t.root,
         NEW first, first = Child(t, q, Other(s)),
         NEW turned, turned = IF IsRed(t, first) THEN Rotate(BlackRed(t, first, q), q, s) ELSE t
  PROVE  /\ first # NULL /\ TurnedAway(turned, D[t.root], x, q, s)
         /\ ~IsRed(turned, Child(turned, q, Other(s)))
<1>0. q \in D[t.root] /\ s \in Sides /\ Levels(t, D[t.root], H, q, s)
  BY DEF ShortAt
<1>1. first # NULL
  <2>1. Sided(t, H, q, s)
    BY <1>0, HoleSide
  <2> QED BY <2>1 DEF Sided
<1>2. CASE IsRed(t, first)
  <2>1. turned = Rotate(BlackRed(t, first, q), q, s)
    BY <1>2
  <2>2. TurnedAway(turned, D[t.root], x, q, s) /\ IsRed(turned, q)
    BY <1>2, <2>1, SiblingTurned
  <2>3. PICK F, J : Shape(turned, F) /\ F[turned.root] = D[t.root] /\ ShortAt(turned, D[t.root], J, x, q, s)
    BY <2>2 DEF TurnedAway
  <2>4. Reds(turned, F[turned.root], NULL, NULL) /\ q \in F[turned.root] /\ Other(s) \in Sides
    BY <1>0, <2>3, SideFacts DEF ShortAt
  <2>5. PICK y : y = Child(turned, q, Other(s))
    OBVIOUS
  <2>6. y # NULL => y \in F[turned.root] /\ Parent(turned, y) = q
    BY <2>3, <2>4, <2>5, ChildFacts
  <2>7. ~IsRed(turned, y)
    <3>1. y # NULL /\ IsRed(turned, y) => ~IsRed(turned, Parent(turned, y))
      <4>1. NULL \notin F[turned.root]
        BY <2>3, ShapeTypes
      <4> QED BY <2>3, <2>4, <2>6, <4>1, RedsAre
    <3>2. ~IsRed(turned, NULL)
      BY DEF IsRed
    <3> QED BY <2>2, <2>6, <3>1, <3>2
  <2> QED BY <1>1, <2>2, <2>5, <2>7
<1>3. CASE ~IsRed(t, first)
  <2>1. turned = t
    BY <1>3
  <2>2. TurnedAway(t, D[t.root], x, q, s)
    BY DEF TurnedAway
  <2> QED BY <1>1, <1>3, <2>1, <2>2
<1> QED BY <1>2, <1>3

\* What a pass of the repair leaves: it has moved up to e, or is over at the root.
Passed(u, P, e, q) ==
  /\ \E F : Shape(u, F) /\ F[u.root] = P
  /\ e \in P \cup {NULL}
  /\ Reds(u, P, e, e)
  /\ \E J : /\ e = u.root => Levels(u, P, J, NULL, "left")
            /\ e # u.root => /\ q \in P /\ Child(u, q, SideOf(u, e, q)) = e
                             /\ Levels(u, P, J, q, SideOf(u, e, q))

\* A pass that colors the sibling red moves up.
LEMMA BlackPassed ==
  ASSUME NEW t, NEW P, NEW x, NEW q, NEW s, TurnedAway(t, P, x, q, s),
         NEW y, y = Child(t, q, Other(s)), ~IsRed(t, y), BothBlack(t, y),
         NEW u, u = SetColor(t, y, "red")
  PROVE  Passed(u, P, q, Parent(t, q))
<1>1. PICK F, J : Shape(t, F) /\ F[t.root] = P /\ ShortAt(t, P, J, x, q, s)
  BY DEF TurnedAway
<1>2. q \in P /\ s \in Sides
  BY <1>1 DEF ShortAt
<1>3. PICK o, near, far : o = Other(s) /\ near = Child(t, y, s) /\ far = Child(t, y, o)
  OBVIOUS
<1>4. BlackSibling(t, F[t.root], J, x, q, s, o, y, near, far)
  BY <1>1, <1>3, SiblingIs
<1>5. ~IsRed(t, near) /\ ~IsRed(t, far)
  BY <1>2, <1>3, SideFacts DEF BothBlack
<1>6. Shape(u, F) /\ u.root = t.root /\ Parent(u, q) = Parent(t, q) /\ MovedUp(u, F[t.root], q)
  BY <1>1, <1>4, <1>5, BothBlackColored
<1>7. PICK p : p = Parent(u, q)
  OBVIOUS
<1>8. q # u.root => p \in P /\ Child(u, p, SideOf(u, q, p)) = q
  BY <1>1, <1>2, <1>6, <1>7, ParentFacts
<1> QED BY <1>1, <1>2, <1>6, <1>7, <1>8 DEF Passed, MovedUp

\* A pass that rotates ends at the root.
LEMMA RedPassed ==
  ASSUME NEW t, NEW P, NEW x, NEW q, NEW s, TurnedAway(t, P, x, q, s),
         NEW y, y = Child(t, q, Other(s)), ~IsRed(t, y), ~BothBlack(t, y),
         NEW u, u = RotatedIn(FarRed(t, q, s), q, s), NEW z
  PROVE  Passed(u, P, u.root, z)
<1>1. PICK F, J : Shape(t, F) /\ F[t.root] = P /\ ShortAt(t, P, J, x, q, s)
  BY DEF TurnedAway
<1>2. q \in P /\ s \in Sides
  BY <1>1 DEF ShortAt
<1>3. PICK o, near, far : o = Other(s) /\ near = Child(t, y, s) /\ far = Child(t, y, o)
  OBVIOUS
<1>4. BlackSibling(t, F[t.root], J, x, q, s, o, y, near, far)
  BY <1>1, <1>3, SiblingIs
<1>5. IsRed(t, near) \/ IsRed(t, far)
  BY <1>2, <1>3, SideFacts DEF BothBlack
<1>6. PICK v : v = FarRed(t, q, s)
  OBVIOUS
<1>7. FarIsRed(v, P, x, q, s, o)
  <2>1. CASE IsRed(t, far)
    <3>1. v = t
      BY <1>3, <1>6, <2>1 DEF FarRed
    <3>2. FarIsRed(t, P, x, q, s, o)
      BY <1>1, <1>3, <1>4, <2>1 DEF FarIsRed
    <3> QED BY <3>1, <3>2
  <2>2. CASE ~IsRed(t, far)
    <3>1. v = Rotate(BlackRed(t, near, y), y, o)
      BY <1>3, <1>6, <2>2 DEF FarRed
    <3> QED BY <1>1, <1>4, <1>5, <2>2, <3>1, NearTurned
  <2> QED BY <2>1, <2>2
<1>8. PICK E : Shape(v, E) /\ E[v.root] = P
  BY <1>7 DEF FarIsRed
<1>9. PICK w, n, f : w = Child(v, q, o) /\ n = Child(v, w, s) /\ f = Child(v, w, o)
  OBVIOUS
<1>10. PICK K : BlackSibling(v, P, K, x, q, s, o, w, n, f)
  BY <1>7, <1>9 DEF FarIsRed
<1>11. IsRed(v, f) /\ u = RotatedIn(v, q, s)
  BY <1>6, <1>7, <1>9 DEF FarIsRed
<1>12. /\ \E G : Shape(u, G) /\ G[u.root] = P
       /\ \E I : Levels(u, P, I, NULL, "left")
       /\ Reds(u, P, NULL, NULL)
  BY <1>8, <1>10, <1>11, RotatedInColored
<1>13. Reds(u, P, u.root, u.root)
  <2>1. PICK G : Shape(u, G) /\ G[u.root] = P
    BY <1>12
  <2>2. NULL \notin P
    BY <2>1, ShapeTypes
  <2>3. \A r \in P : IsRed(u, r) => r # u.root /\ ~IsRed(u, Parent(u, r))
    BY <1>12, <2>1, <2>2, RedsAre
  <2> QED BY <2>3 DEF Reds
<1>14. u.root \in P \cup {NULL}
  BY <1>12, ShapeTypes
<1> QED BY <1>12, <1>13, <1>14 DEF Passed

\* A pass of RB_REMOVE_COLOR.
LEMMA RemoveColorKeeps ==
  ASSUME NEW D, NEW H, Whole(D, H), RemoveColor
  PROVE  IndInv' /\ \E F : Shape(tree', F) /\ F[tree'.root] = D[tree.root]
<1> DEFINE P == D[tree.root]
           s == SideOf(tree, at, up)
           first == Child(tree, up, Other(s))
           turned == IF IsRed(tree, first) THEN Rotate(BlackRed(tree, first, up), up, s) ELSE tree
           sibling == Child(turned, up, Other(s))
<1>1. Shape(tree, D) /\ Searching(D) /\ Colored(P, H)
  BY DEF Whole
<1>2. /\ pc = "remove_color" /\ ~IsRed(tree, at) /\ at # tree.root
      /\ op' = op /\ elm' = elm /\ result' = result
  BY DEF RemoveColor
<1>3. /\ result = elm /\ op = "remove" /\ elm \in Elements \ P
      /\ at \in P \cup {NULL} /\ up \in Slots
  BY <1>1, <1>2 DEF Searching, InRepair
<1>4. P \subseteq Elements /\ Elements \subseteq Nat \ {NULL}
  BY <1>1, ShapeTypes
<1>5. up \in P /\ Child(tree, up, s) = at /\ Levels(tree, P, H, up, s) /\ Reds(tree, P, at, at)
  BY <1>1, <1>2 DEF Colored
<1>6. s \in Sides
  BY DEF SideOf, Sides
<1>7. ShortAt(tree, P, H, at, up, s)
  <2>1. Reds(tree, P, NULL, NULL)
    <3>1. \A z \in P : IsRed(tree, z) /\ z # tree.root /\ Parent(tree, z) = at => ~IsRed(tree, Parent(tree, z))
      BY <1>2
    <3> QED BY <1>2, <1>5, <3>1 DEF Reds
  <2> QED BY <1>2, <1>5, <1>6, <2>1 DEF ShortAt
<1> HIDE DEF s, first, turned, sibling
<1>8. first # NULL /\ TurnedAway(turned, P, at, up, s) /\ ~IsRed(turned, sibling)
  <2>1. PICK f, v : f = first /\ v = turned
    OBVIOUS
  <2>2. f = Child(tree, up, Other(s)) /\ v = IF IsRed(tree, f) THEN Rotate(BlackRed(tree, f, up), up, s) ELSE tree
    BY <2>1 DEF first, turned
  <2>3. f # NULL /\ TurnedAway(v, P, at, up, s) /\ ~IsRed(v, Child(v, up, Other(s)))
    BY <1>1, <1>2, <1>7, <2>2, SiblingFound
  <2> QED BY <2>1, <2>3 DEF sibling
<1>9. up # NULL /\ sibling # NULL
  <2>1. up # NULL
    BY <1>4, <1>5
  <2>2. PICK F, J : Shape(turned, F) /\ F[turned.root] = P /\ ShortAt(turned, P, J, at, up, s)
    BY <1>8 DEF TurnedAway
  <2>3. up \in F[turned.root] /\ Levels(turned, F[turned.root], J, up, s)
    BY <1>5, <2>2 DEF ShortAt
  <2>4. Sided(turned, J, up, s)
    BY <1>6, <2>2, <2>3, HoleSide
  <2> QED BY <2>1, <2>4 DEF Sided, sibling
<1>10. pc' = pc /\ Passed(tree', P, at', up') /\ up' \in Slots
  <2>1. CASE BothBlack(turned, sibling)
    <3>1. pc' = pc /\ tree' = SetColor(turned, sibling, "red") /\ at' = up /\ up' = Parent(turned, up)
      BY <1>8, <1>9, <2>1 DEF RemoveColor, MoveUp, s, first, turned, sibling
    <3>2. Passed(tree', P, up, Parent(turned, up))
      BY <1>8, <2>1, <3>1, BlackPassed DEF sibling
    <3>3. up' \in Slots
      <4>1. PICK F : Shape(turned, F) /\ F[turned.root] = P
        BY <1>8 DEF TurnedAway
      <4> QED BY <1>4, <1>5, <3>1, <4>1, ShapeTypes, FieldTypes
    <3> QED BY <3>1, <3>2, <3>3
  <2>2. CASE ~BothBlack(turned, sibling)
    <3>1. pc' = pc /\ tree' = RotatedIn(FarRed(turned, up, s), up, s) /\ at' = tree'.root /\ up' = up
      BY <1>8, <1>9, <2>2 DEF RemoveColor, s, first, turned, sibling
    <3>2. Passed(tree', P, tree'.root, up')
      BY <1>8, <2>2, <3>1, RedPassed DEF sibling
    <3> QED BY <1>3, <3>1, <3>2
  <2> QED BY <2>1, <2>2
<1>11. PICK F, J, Q : /\ Q = P /\ Shape(tree', F) /\ F[tree'.root] = Q
                      /\ at' = tree'.root => Levels(tree', Q, J, NULL, "left")
                      /\ at' # tree'.root => /\ up' \in Q /\ Child(tree', up', SideOf(tree', at', up')) = at'
                                             /\ Levels(tree', Q, J, up', SideOf(tree', at', up'))
  BY <1>10 DEF Passed
<1>12. Q \subseteq Elements /\ Reds(tree', Q, at', at') /\ at' \in Q \cup {NULL} /\ pc' = "remove_color"
       /\ elm \in Elements \ Q
  BY <1>2, <1>3, <1>4, <1>10, <1>11 DEF Passed
<1>13. Colored(Q, J)'
  BY <1>11, <1>12, RemovingColored
<1>14. Searching(F)'
  BY <1>2, <1>3, <1>10, <1>11, <1>12 DEF Searching, InDescend, InSeek, InClimb, InSplice, InRepair
<1> QED BY <1>11, <1>13, <1>14, Established

\* The end of RB_REMOVE_COLOR.
LEMMA RemoveEndKeeps ==
  ASSUME NEW D, NEW H, Whole(D, H), RemoveEnd
  PROVE  IndInv' /\ Shape(tree', D) /\ tree'.root = tree.root
<1> DEFINE P == D[tree.root]
           s == SideOf(tree, at, up)
<1>1. Shape(tree, D) /\ Searching(D) /\ Colored(P, H)
  BY DEF Whole
<1>2. /\ pc = "remove_color" /\ (IsRed(tree, at) \/ at = tree.root)
      /\ tree' = SetColor(tree, at, "black") /\ pc' = "idle"
  BY DEF RemoveEnd, Return
<1>3. at \in P \cup {NULL}
  BY <1>1, <1>2 DEF Searching, InRepair
<1>4. P \subseteq Elements /\ Elements \subseteq Nat \ {NULL} /\ D[NULL] = {}
  BY <1>1, ShapeTypes
<1>5. Reds(tree, P, at, at)
  BY <1>1, <1>2 DEF Colored
<1>6. at = tree.root => Levels(tree, P, H, NULL, s)
  BY <1>1, <1>2 DEF Colored
<1>7. at # tree.root => Levels(tree, P, H, up, s) /\ up \in P /\ Child(tree, up, s) = at
  BY <1>1, <1>2 DEF Colored
<1>8. s \in Sides
  BY DEF SideOf, Sides
<1> HIDE DEF s
<1>9. Shape(tree', D) /\ tree'.root = tree.root /\ Settled(tree', P)
  <2>1. CASE at = NULL
    <3>1. tree.root = NULL /\ tree' = tree
      BY <1>2, <2>1 DEF IsRed, SetColor
    <3>2. P = {}
      BY <1>4, <3>1
    <3>3. Levels(tree, P, H, NULL, "left") /\ Reds(tree, P, NULL, NULL)
      BY <1>6, <2>1, <3>1, <3>2 DEF Levels, Reds
    <3> QED BY <1>1, <3>1, <3>3 DEF Settled
  <2>2. CASE at # NULL
    <3>1. at \in P
      BY <1>3, <2>2
    <3>2. \A z \in P : IsRed(tree, z) /\ z # at =>
            z # tree.root /\ (Parent(tree, z) = at \/ ~IsRed(tree, Parent(tree, z)))
      BY <1>5 DEF Reds
    <3>3. CASE at = tree.root
      <4>1. Levels(tree, P, H, NULL, s)
        BY <1>6, <3>3
      <4>2. LastAt(tree, P, H, NULL, s, at)
        BY <3>1, <3>2, <3>3, <4>1 DEF LastAt
      <4> QED BY <1>1, <1>2, <4>2, BlackenedColored
    <3>4. CASE at # tree.root
      <4>1. IsRed(tree, at) /\ Levels(tree, P, H, up, s) /\ up \in P /\ Child(tree, up, s) = at
        BY <1>2, <1>7, <3>4
      <4>2. LastAt(tree, P, H, up, s, at)
        BY <1>8, <3>1, <3>2, <4>1 DEF LastAt
      <4> QED BY <1>1, <1>2, <4>2, BlackenedColored
    <3> QED BY <3>3, <3>4
  <2> QED BY <2>1, <2>2
<1>10. PICK J : Levels(tree', P, J, NULL, "left") /\ Reds(tree', P, NULL, NULL)
  BY <1>9 DEF Settled
<1>11. PICK Q : Q = P
  OBVIOUS
<1>12. Colored(Q, J)'
  BY <1>2, <1>4, <1>9, <1>10, <1>11, Resting DEF Calm
<1>13. Searching(D)'
  BY <1>2, Idle
<1>14. D[tree'.root] = Q
  BY <1>9, <1>11
<1> QED BY <1>9, <1>12, <1>13, <1>14, Established

-----------------------------------------------------------------------------
(***************************************************************************)
(* The invariant of the specification.                                     *)
(***************************************************************************)
\* A subtree is what the properties call reached.
LEMMA ReachedIs ==
  ASSUME NEW t, NEW D, Shape(t, D)
  PROVE  /\ Reachable({t.root}, KidsOf(t)) = D[t.root]
         /\ \A x \in D[t.root] \cup {NULL} : Reachable({x}, KidsOf(t)) = D[x]
<1>1. IsTree(Elements, t.root, KidsOf(t), D)
  BY ShapeIsTree
<1>2. ASSUME NEW x \in D[t.root] \cup {NULL} PROVE Reachable({x}, KidsOf(t)) = D[x]
  <2>1. PICK kids : kids = KidsOf(t) /\ IsTree(Elements, t.root, kids, D)
    BY <1>1
  <2>2. Reachable({x}, kids) = D[x]
    BY <2>1, SubtreeReached
  <2> QED BY <2>1, <2>2
<1>3. t.root \in D[t.root] \cup {NULL}
  BY ShapeTypes
<1> QED BY <1>2, <1>3

\* The elements of the tree.
LEMMA InTreeIs ==
  ASSUME NEW D, Shape(tree, D)
  PROVE  InTree = D[tree.root] /\ \A x \in InTree \cup {NULL} : Below(x) = D[x]
<1>1. Kids = KidsOf(tree)
  BY DEF Kids, KidsOf
<1>2. InTree = D[tree.root]
  BY <1>1, ReachedIs DEF InTree
<1>3. \A x \in D[tree.root] \cup {NULL} : Below(x) = D[x]
  BY <1>1, ReachedIs DEF Below
<1> QED BY <1>2, <1>3

\* And after a step.
LEMMA InTreeNext ==
  ASSUME NEW D, Shape(tree', D)
  PROVE  InTree' = D[tree'.root]
<1>1. Kids' = KidsOf(tree')
  BY DEF Kids, KidsOf
<1> QED BY <1>1, ReachedIs DEF InTree

\* An empty tree has empty subtrees.
LEMMA InitInv == Init => IndInv
<1> SUFFICES ASSUME Init PROVE IndInv
  OBVIOUS
<1> DEFINE D == [x \in Slots |-> {}]
           H == [x \in Slots |-> 0]
<1>1. /\ tree = [root |-> NULL, node |-> [x \in Elements |-> NoEntry]]
      /\ pc = "idle"
  BY DEF Init
<1>2. NoEntry \in Entry
  BY DEF NoEntry, Entry, NoKids, Slots, Colors
<1>3. tree \in Pointers /\ tree.root = NULL
  BY <1>1, <1>2 DEF Pointers, Slots
<1>4. /\ D \in [Slots -> SUBSET Elements] /\ \A x \in Slots : D[x] = {}
      /\ NULL \in Slots /\ Elements \subseteq Slots
  BY DEF Slots
<1>5. H \in [Slots -> Nat] /\ H[NULL] = 0
  BY DEF Slots
<1> HIDE DEF D, H
<1>6. Shape(tree, D) /\ D[tree.root] = {}
  BY <1>3, <1>4 DEF Shape
<1>7. Colored({}, H)
  BY <1>1, <1>5 DEF Colored, Levels, Reds
<1>8. Searching(D)
  BY <1>1 DEF Searching, InDescend, InSeek, InClimb, InSplice, InRepair
<1> QED BY <1>6, <1>7, <1>8 DEF IndInv, Whole

\* Every step keeps the invariant.
LEMMA NextInv == IndInv /\ [Next]_vars => IndInv'
<1> SUFFICES ASSUME IndInv, [Next]_vars PROVE IndInv'
  OBVIOUS
<1>1. PICK D, H : Whole(D, H)
  BY DEF IndInv
<1>2. InTree = D[tree.root]
  BY <1>1, InTreeIs DEF Whole
<1>3. CASE CallSearch \/ CallNeighbour \/ CallRemove \/ Descend \/ Seek \/ Climb \/ Found \/ NotFound \/ Sought
  BY <1>1, <1>2, <1>3, SearchesKeep
<1>4. CASE Link
  BY <1>1, <1>4, LinkKeeps
<1>5. CASE InsertColor
  BY <1>1, <1>5, InsertColorKeeps
<1>6. CASE InsertEnd
  BY <1>1, <1>6, InsertEndKeeps
<1>7. CASE Splice
  BY <1>1, <1>7, SpliceKeeps
<1>8. CASE RemoveColor
  BY <1>1, <1>8, RemoveColorKeeps
<1>9. CASE RemoveEnd
  BY <1>1, <1>9, RemoveEndKeeps
<1>10. CASE UNCHANGED vars
  BY <1>10 DEF vars, IndInv, Whole, Searching, InDescend, InSeek, InClimb, InSplice, InRepair, Colored,
               SeekSide, Toward
<1> QED BY <1>3, <1>4, <1>5, <1>6, <1>7, <1>8, <1>9, <1>10 DEF Next, Step

\* Every state of every run shows a search tree, of any finite set of elements.
THEOREM InvariantHolds == Spec => []IndInv
<1> QED BY InitInv, NextInv, PTL DEF Spec

\* No rotation, repair or climb of tree.h reads a field of NULL: where one goes
\* from an element to a sibling, a parent or a grandparent there is one.
THEOREM NoNullReadCorrect == Spec => []NoNullRead
<1>1. IndInv => NoNullRead
  BY DEF IndInv, Whole, Searching, NoNullRead
<1> QED BY <1>1, InvariantHolds, PTL

\* In every state, between two passes of a repair too, the parent of a child is
\* the element it is a child of.
THEOREM LinksAgreeCorrect == Spec => []LinksAgree
<1>1. IndInv => LinksAgree
  <2> SUFFICES ASSUME NEW D, Shape(tree, D) PROVE LinksAgree
    BY DEF IndInv, Whole
  <2>1. InTree = D[tree.root]
    BY InTreeIs
  <2>2. tree.root # NULL => Parent(tree, tree.root) = NULL
    BY DEF Shape
  <2>3. ASSUME NEW x \in InTree, NEW s \in Sides, Child(tree, x, s) # NULL
        PROVE  Parent(tree, Child(tree, x, s)) = x /\ Child(tree, x, s) # Child(tree, x, Other(s))
    BY <2>1, <2>3, ChildFacts
  <2> QED BY <2>2, <2>3 DEF LinksAgree
<1> QED BY <1>1, InvariantHolds, PTL

\* Insertions, removals and rotations keep the tree a search tree: what is below
\* the left child of an element is smaller, what is below its right child larger.
THEOREM OrderedCorrect == Spec => []Ordered
<1>1. IndInv => Ordered
  <2> SUFFICES ASSUME NEW D, Shape(tree, D), NEW x \in InTree
               PROVE  /\ \A y \in Below(Child(tree, x, "left")) : y < x
                      /\ \A y \in Below(Child(tree, x, "right")) : x < y
    BY DEF IndInv, Whole, Ordered
  <2>1. InTree = D[tree.root] /\ \A c \in InTree \cup {NULL} : Below(c) = D[c]
    BY InTreeIs
  <2>2. \A s \in Sides : /\ Child(tree, x, s) \in InTree \cup {NULL}
                         /\ \A y \in D[Child(tree, x, s)] : On(s, y, x)
    BY <2>1, ChildFacts
  <2>3. \A s \in Sides : \A y \in Below(Child(tree, x, s)) : On(s, y, x)
    BY <2>1, <2>2
  <2> QED BY <2>3 DEF On, Sides
<1> QED BY <1>1, InvariantHolds, PTL

-----------------------------------------------------------------------------
(***************************************************************************)
(* The rules of a red-black tree follow from the counts.                   *)
(***************************************************************************)
\* What holds of the root and goes from an element to its children holds of all.
LEMMA DownTheTree ==
  ASSUME NEW t, NEW D, Shape(t, D), NEW S, S \subseteq D[t.root], t.root \in S \cup {NULL},
         \A x \in S, s \in Sides : Child(t, x, s) \in S \cup {NULL}
  PROVE  D[t.root] \subseteq S
<1>1. PICK kids : kids = KidsOf(t)
  OBVIOUS
<1>2. /\ t \in Pointers /\ t.root \in Elements \cup {NULL} /\ D[t.root] \subseteq Elements
  BY ShapeTypes DEF Slots
<1>3. kids \in [Elements -> [Sides -> Elements \cup {NULL}]]
  BY <1>1, <1>2 DEF KidsOf, Pointers, Entry, Slots
<1>4. Closed(S, kids)
  <2>1. ASSUME NEW x \in S, NEW s \in Sides PROVE kids[x][s] = Child(t, x, s)
    BY <1>1, <1>2 DEF KidsOf, Child
  <2> QED BY <2>1 DEF Closed
<1>5. {t.root} \ {NULL} \subseteq S /\ Closed(S, kids) => Reachable({t.root}, kids) \subseteq S
  <2>1. PICK x : x = t.root
    OBVIOUS
  <2>2. {x} \subseteq Elements \cup {NULL} /\ IsFiniteSet(Elements) /\ NULL \notin Elements
    BY <1>2, <2>1, NoNull
  <2>3. \A R : {x} \ {NULL} \subseteq R /\ Closed(R, kids) => Reachable({x}, kids) \subseteq R
    BY <1>3, <2>2, ReachableIs
  <2> QED BY <2>1, <2>3
<1>6. Reachable({t.root}, kids) = D[t.root]
  BY <1>1, ReachedIs
<1> QED BY <1>4, <1>5, <1>6

\* The way to the root, and to a child.
LEMMA AboveIs ==
  ASSUME NEW D, Shape(tree, D), NEW x \in D[tree.root]
  PROVE  /\ Above(x) = {y \in D[tree.root] : x \in D[y]}
         /\ x = tree.root => Above(x) = {x}
         /\ \A s \in Sides : Child(tree, x, s) # NULL =>
              /\ Above(Child(tree, x, s)) = Above(x) \cup {Child(tree, x, s)}
              /\ Child(tree, x, s) \notin Above(x)
<1> DEFINE P == D[tree.root]
<1>1. InTree = P /\ \A y \in P : Below(y) = D[y]
  BY InTreeIs
<1>2. \A z : Above(z) = {y \in P : z \in D[y]}
  BY <1>1 DEF Above
<1>3. \A y \in P : y \in D[y] /\ \A z \in D[y] : D[z] \subseteq D[y]
  <2>1. \A y \in P : y \in D[y]
    BY DEF Shape, NodeIn
  <2> QED BY <2>1, ShapeIsTree, Nested
<1>4. ASSUME x = tree.root PROVE Above(x) = {x}
  <2>1. ASSUME NEW y \in P, x \in D[y] PROVE y = x
    <3>1. P \subseteq D[y]
      BY <1>3, <1>4, <2>1
    <3>2. y # tree.root => Parent(tree, y) \in P /\ Parent(tree, y) \notin D[y]
      BY ParentFacts
    <3> QED BY <1>4, <3>1, <3>2
  <2> QED BY <1>2, <1>3, <2>1
<1>5. ASSUME NEW s \in Sides, NEW c, c = Child(tree, x, s), c # NULL
      PROVE  Above(c) = Above(x) \cup {c} /\ c \notin Above(x)
  <2>1. c \in P /\ c \in D[x] /\ x \notin D[c] /\ Parent(tree, c) = x
    BY <1>5, ChildFacts
  <2>2. \A y \in P : c \in D[y] /\ c # y => x \in D[y]
    BY <2>1, ParentBelow
  <2>3. \A y \in P : x \in D[y] => c \in D[y]
    BY <1>3, <2>1
  <2> QED BY <1>2, <1>3, <2>1, <2>2, <2>3
<1> QED BY <1>2, <1>4, <1>5

\* Whether x counts one more.
In(x, S) == IF x \in S THEN 1 ELSE 0

\* c is the child of p at side e, or there is neither.
Hung(t, P, p, e, c) ==
  \/ p = NULL /\ c = NULL
  \/ p \in P /\ e \in Sides /\ Child(t, p, e) = c

\* What is above and what is below an element, together.
Summed(P, S, H) ==
  \A x \in P : /\ Blacks(x) \in Nat /\ Blacks(x) <= Cardinality(Elements)
              /\ Blacks(x) + H[x] + In(x, S) = H[tree.root] + Black(tree, x)

\* The black elements above an element and the count below it make the same sum
\* everywhere, when those below c, the short child of p, count one more.
LEMMA BlacksAre ==
  ASSUME NEW D, Shape(tree, D), NEW H, NEW p, NEW e, Levels(tree, D[tree.root], H, p, e),
         NEW c, Hung(tree, D[tree.root], p, e, c)
  PROVE  Summed(D[tree.root], D[c], H)
<1> DEFINE P == D[tree.root]
           S == {x \in P : Blacks(x) + H[x] + In(x, D[c]) = H[tree.root] + Black(tree, x)}
<1>0. \/ p = NULL /\ c = NULL
      \/ p \in P /\ e \in Sides /\ Child(tree, p, e) = c
  BY DEF Hung
<1>1. /\ P \subseteq Elements /\ Elements \subseteq Nat \ {NULL} /\ P \subseteq Slots /\ D[NULL] = {}
      /\ tree.root \in P \cup {NULL} /\ tree.root \in Slots /\ IsFiniteSet(Elements)
  BY ShapeTypes, NoNull DEF Slots
<1>2. /\ H \in [Slots -> Nat] /\ H[NULL] = 0
      /\ \A z \in P, r \in Sides : Counts(tree, H, z, r, p, e)
  BY LevelsCount
<1>3. \A x \in P : /\ IsFiniteSet(Above(x)) /\ Above(x) \subseteq Elements
                   /\ IsFiniteSet({y \in Above(x) : ~IsRed(tree, y)})
                   /\ Blacks(x) \in Nat /\ Blacks(x) <= Cardinality(Elements)
  <2> SUFFICES ASSUME NEW x \in P
               PROVE  /\ IsFiniteSet(Above(x)) /\ Above(x) \subseteq Elements
                      /\ IsFiniteSet({y \in Above(x) : ~IsRed(tree, y)})
                      /\ Blacks(x) \in Nat /\ Blacks(x) <= Cardinality(Elements)
    OBVIOUS
  <2>1. Above(x) \subseteq Elements
    BY <1>1, AboveIs
  <2>2. {y \in Above(x) : ~IsRed(tree, y)} \subseteq Elements
    BY <2>1
  <2> QED BY <1>1, <2>1, <2>2, FS_Subset, FS_CardinalityType DEF Blacks
<1>4. ASSUME NEW x \in P, NEW r \in Sides, NEW d, d = Child(tree, x, r), d # NULL
      PROVE  Blacks(d) = Blacks(x) + Black(tree, d)
  <2> DEFINE B == {y \in Above(x) : ~IsRed(tree, y)}
             C == {y \in Above(d) : ~IsRed(tree, y)}
  <2>1. Above(d) = Above(x) \cup {d} /\ d \notin Above(x)
    BY <1>4, AboveIs
  <2>2. IsFiniteSet(B) /\ d \notin B /\ Cardinality(B) = Blacks(x) /\ Cardinality(C) = Blacks(d)
    BY <1>3, <2>1 DEF Blacks
  <2>3. C = IF IsRed(tree, d) THEN B ELSE B \cup {d}
    BY <2>1
  <2> HIDE DEF B, C
  <2>4. Blacks(x) \in Nat
    BY <1>3
  <2>5. CASE IsRed(tree, d)
    BY <2>2, <2>3, <2>4, <2>5 DEF Black
  <2>6. CASE ~IsRed(tree, d)
    <3>1. Cardinality(B \cup {d}) = Cardinality(B) + 1
      BY <2>2, FS_AddElement
    <3> QED BY <2>2, <2>3, <2>4, <2>6, <3>1 DEF Black
  <2> QED BY <2>5, <2>6
<1>5. tree.root \in P => tree.root \in S
  <2> SUFFICES ASSUME tree.root \in P
               PROVE  Blacks(tree.root) + H[tree.root] + In(tree.root, D[c]) = H[tree.root] + Black(tree, tree.root)
    OBVIOUS
  <2>1. Above(tree.root) = {tree.root}
    BY AboveIs
  <2>2. Blacks(tree.root) = Black(tree, tree.root)
    <3>1. CASE IsRed(tree, tree.root)
      <4>1. {y \in Above(tree.root) : ~IsRed(tree, y)} = {}
        BY <2>1, <3>1
      <4> QED BY <3>1, <4>1, FS_EmptySet DEF Blacks, Black
    <3>2. CASE ~IsRed(tree, tree.root)
      <4>1. {y \in Above(tree.root) : ~IsRed(tree, y)} = {tree.root}
        BY <2>1, <3>2
      <4> QED BY <3>2, <4>1, FS_Singleton DEF Blacks, Black
    <3> QED BY <3>1, <3>2
  <2>3. tree.root \notin D[c]
    <3>1. CASE c = NULL
      BY <1>1, <3>1
    <3>2. CASE c # NULL
      <4>1. p \in P /\ p \notin D[c] /\ c \in P
        BY <1>0, <3>2, ChildFacts
      <4>2. tree.root \in D[c] => P \subseteq D[c]
        BY <4>1, ShapeIsTree, Nested
      <4> QED BY <4>1, <4>2
    <3> QED BY <3>1, <3>2
  <2>4. H[tree.root] \in Nat /\ Black(tree, tree.root) \in Nat
    BY <1>1, <1>2 DEF Black
  <2> QED BY <2>2, <2>3, <2>4 DEF In
<1>6. ASSUME NEW x \in S, NEW r \in Sides PROVE Child(tree, x, r) \in S \cup {NULL}
  <2>1. PICK d : d = Child(tree, x, r)
    OBVIOUS
  <2> SUFFICES ASSUME d # NULL PROVE d \in S
    BY <2>1
  <2>2. x \in P /\ Blacks(x) + H[x] + In(x, D[c]) = H[tree.root] + Black(tree, x)
    OBVIOUS
  <2>3. d \in P /\ d \in D[x] /\ x \notin D[d] /\ Parent(tree, d) = x /\ SideTo(d, x) = r
    BY <2>1, <2>2, ChildFacts
  <2>4. Blacks(d) = Blacks(x) + Black(tree, d)
    BY <1>4, <2>1, <2>2
  <2>5. H[x] = H[d] + Hole(x, r, p, e) + Black(tree, x)
    BY <1>2, <2>1, <2>2 DEF Counts
  <2>6. In(d, D[c]) = Hole(x, r, p, e) + In(x, D[c])
    <3>1. CASE x = p /\ r = e
      <4>1. c = d /\ p \in P
        BY <1>0, <1>1, <2>1, <2>2, <3>1
      <4>2. d \in D[d]
        BY <2>3 DEF Shape, NodeIn
      <4> QED BY <2>3, <3>1, <4>1, <4>2 DEF Hole, In
    <3>2. CASE ~(x = p /\ r = e)
      <4>1. Hole(x, r, p, e) = 0
        BY <3>2 DEF Hole
      <4>2. d \in D[c] <=> x \in D[c]
        <5>1. CASE c = NULL
          BY <1>1, <5>1
        <5>2. CASE c # NULL
          <6>1. p \in P /\ c \in P /\ Parent(tree, c) = p /\ SideTo(c, p) = e
            BY <1>0, <5>2, ChildFacts
          <6>2. d # c
            BY <2>3, <3>2, <6>1
          <6>3. d \in D[c] => x \in D[c]
            BY <2>3, <6>1, <6>2, ParentBelow
          <6>4. x \in D[c] => D[x] \subseteq D[c]
            BY <6>1, ShapeIsTree, Nested
          <6> QED BY <2>3, <6>3, <6>4
        <5> QED BY <5>1, <5>2
      <4> QED BY <4>1, <4>2 DEF In
    <3> QED BY <3>1, <3>2
  <2>7. /\ Blacks(x) \in Nat /\ H[x] \in Nat /\ H[d] \in Nat /\ H[tree.root] \in Nat
        /\ Black(tree, x) \in Nat /\ Black(tree, d) \in Nat /\ Hole(x, r, p, e) \in Nat /\ In(x, D[c]) \in Nat
    BY <1>1, <1>2, <1>3, <2>2, <2>3 DEF Black, Hole, In
  <2>8. Blacks(d) + H[d] + In(d, D[c]) = H[tree.root] + Black(tree, d)
    BY <2>2, <2>4, <2>5, <2>6, <2>7
  <2> QED BY <2>3, <2>8
<1>7. P \subseteq S
  <2>1. S \subseteq P /\ tree.root \in S \cup {NULL}
    BY <1>1, <1>5
  <2> HIDE DEF S
  <2> QED BY <1>6, <2>1, DownTheTree
<1> QED BY <1>3, <1>7 DEF Summed

\* Red elements are below black ones, but for the one that is being repaired.
LEMMA RedRule ==
  ASSUME NEW D, NEW H, Whole(D, H), NEW x \in InTree, IsRed(tree, x)
  PROVE  \/ x # tree.root /\ ~IsRed(tree, Parent(tree, x))
         \/ pc \in {"insert_color", "remove_color"} /\ x = at
         \/ pc = "remove_color" /\ x # tree.root /\ Parent(tree, x) = at
<1>1. Shape(tree, D) /\ Colored(D[tree.root], H)
  BY DEF Whole
<1>2. x \in D[tree.root] /\ x # NULL
  BY <1>1, InTreeIs, ShapeTypes
<1>3. x # tree.root => Parent(tree, x) # NULL
  BY <1>1, <1>2, ParentFacts
<1>4. PICK a, b : /\ Reds(tree, D[tree.root], a, b)
                  /\ a = IF pc \in {"insert_color", "remove_color"} THEN at ELSE NULL
                  /\ b = IF pc = "remove_color" THEN at ELSE NULL
  BY <1>1 DEF Colored
<1>5. \/ x # tree.root /\ ~IsRed(tree, Parent(tree, x))
      \/ x = a
      \/ x # tree.root /\ Parent(tree, x) = b
  BY <1>2, <1>4 DEF Reds
<1> QED BY <1>2, <1>3, <1>4, <1>5

\* The weight of the ways to the ends of the tree.
Weight(x) == Blacks(x) + (IF Short(x) THEN 1 ELSE 0)
\* An element with a place for another below it.
IsEnd(x) == \E s \in Sides : Child(tree, x, s) = NULL

\* All ends weigh the same when no path is short.
LEMMA WeightWhole ==
  ASSUME NEW D, NEW H, Whole(D, H), pc = "remove_color" => at = tree.root
  PROVE  \A x \in D[tree.root] : IsEnd(x) => Weight(x) = H[tree.root] + (IF pc = "remove_color" THEN 1 ELSE 0)
<1> DEFINE P == D[tree.root]
<1>1. Shape(tree, D) /\ Colored(P, H)
  BY DEF Whole
<1>2. Levels(tree, P, H, NULL, "left")
  <2>1. Levels(tree, P, H, NULL, SideOf(tree, at, up))
    BY <1>1 DEF Colored
  <2>2. P \subseteq Elements
    BY <1>1, ShapeTypes
  <2> QED BY <2>1, <2>2, NoHole
<1>3. D[NULL] = {} /\ P \subseteq Elements /\ tree.root \in Slots /\ (tree.root # NULL => tree.root \in P)
      /\ NULL \notin P
  BY <1>1, ShapeTypes
<1>4. \A x \in P : Blacks(x) \in Nat /\ Blacks(x) + H[x] + In(x, D[NULL]) = H[tree.root] + Black(tree, x)
  <2>1. PICK p, e, c : p = NULL /\ c = NULL /\ Levels(tree, P, H, p, e) /\ Hung(tree, P, p, e, c)
    BY <1>2 DEF Hung
  <2>2. \A x \in P : Blacks(x) \in Nat /\ Blacks(x) + H[x] + In(x, D[c]) = H[tree.root] + Black(tree, x)
    <3>1. Summed(P, D[c], H)
      BY <1>1, <2>1, BlacksAre
    <3> QED BY <3>1 DEF Summed
  <2> QED BY <2>1, <2>2
<1> SUFFICES ASSUME NEW x \in P, NEW s \in Sides, Child(tree, x, s) = NULL
             PROVE  Weight(x) = H[tree.root] + (IF pc = "remove_color" THEN 1 ELSE 0)
  BY DEF IsEnd
<1>5. H \in [Slots -> Nat] /\ H[NULL] = 0 /\ Counts(tree, H, x, s, NULL, "left")
  BY <1>2, LevelsCount
<1>6. H[x] = Black(tree, x)
  <2>1. Hole(x, s, NULL, "left") = 0 /\ Black(tree, x) \in Nat
    BY <1>3 DEF Hole, Black
  <2> QED BY <1>5, <2>1 DEF Counts
<1>7. Blacks(x) = H[tree.root]
  <2>1. In(x, D[NULL]) = 0 /\ Black(tree, x) \in Nat
    BY <1>3 DEF In, Black
  <2>2. H[tree.root] \in Nat
    BY <1>3, <1>5
  <2> QED BY <1>4, <1>6, <2>1, <2>2
<1>8. Short(x) <=> pc = "remove_color"
  <2> SUFFICES ASSUME pc = "remove_color" PROVE Short(x)
    BY DEF Short
  <2>1. tree.root # NULL
    BY <1>3
  <2>2. tree.root \in Above(x)
    BY <1>1, <1>3, <2>1, AboveIs
  <2> QED BY <2>1, <2>2 DEF Short
<1> QED BY <1>7, <1>8 DEF Weight

\* All ends weigh the same when those below one place are one short.
LEMMA WeightShort ==
  ASSUME NEW D, NEW H, Whole(D, H), pc = "remove_color", at # tree.root
  PROVE  \A x \in D[tree.root] : IsEnd(x) => Weight(x) = H[tree.root]
<1> DEFINE P == D[tree.root]
           e == SideOf(tree, at, up)
<1>1. Shape(tree, D) /\ Colored(P, H)
  BY DEF Whole
<1>2. Levels(tree, P, H, up, e) /\ up \in P /\ Child(tree, up, e) = at
  BY <1>1 DEF Colored
<1>3. e \in Sides
  BY DEF SideOf, Sides
<1> HIDE DEF e
<1>4. D[NULL] = {} /\ P \subseteq Elements /\ tree.root \in Slots /\ NULL \notin P
  BY <1>1, ShapeTypes
<1>5. \A x \in P : Blacks(x) \in Nat /\ Blacks(x) + H[x] + In(x, D[at]) = H[tree.root] + Black(tree, x)
  <2>1. Hung(tree, P, up, e, at)
    BY <1>2, <1>3 DEF Hung
  <2>2. Summed(P, D[at], H)
    BY <1>1, <1>2, <2>1, BlacksAre
  <2> QED BY <2>2 DEF Summed
<1> SUFFICES ASSUME NEW x \in P, NEW s \in Sides, Child(tree, x, s) = NULL
             PROVE  Weight(x) = H[tree.root]
  BY DEF IsEnd
<1>6. H \in [Slots -> Nat] /\ H[NULL] = 0 /\ Counts(tree, H, x, s, up, e)
  BY <1>2, LevelsCount
<1>7. Blacks(x) + Hole(x, s, up, e) + In(x, D[at]) = H[tree.root]
  <2>1. In(x, D[at]) \in Nat /\ Black(tree, x) \in Nat /\ Hole(x, s, up, e) \in Nat /\ Blacks(x) \in Nat
    BY <1>5 DEF In, Black, Hole
  <2>2. H[tree.root] \in Nat
    BY <1>4, <1>6
  <2>3. H[x] = Hole(x, s, up, e) + Black(tree, x)
    BY <1>6, <2>1 DEF Counts
  <2>4. Blacks(x) + H[x] + In(x, D[at]) = H[tree.root] + Black(tree, x)
    BY <1>5
  <2> QED BY <2>1, <2>2, <2>3, <2>4
<1>8. Hole(x, s, up, e) + In(x, D[at]) = IF Short(x) THEN 1 ELSE 0
  <2>1. CASE at = NULL
    <3>1. Sided(tree, H, up, e)
      BY <1>1, <1>2, <1>3, HoleSide
    <3>2. x = up => s = e
      BY <1>3, <3>1, SideFacts DEF Sided
    <3>3. In(x, D[at]) = 0 /\ (Short(x) <=> x = up)
      BY <1>4, <2>1 DEF In, Short
    <3> QED BY <3>2, <3>3 DEF Hole
  <2>2. CASE at # NULL
    <3>1. Hole(x, s, up, e) = 0
      BY <1>2, <2>2 DEF Hole
    <3>2. at \in P
      BY <1>1, <1>2, <1>3, <2>2, ChildFacts
    <3>3. Short(x) <=> x \in D[at]
      BY <1>1, <2>2, <3>2, AboveIs DEF Short
    <3> QED BY <3>1, <3>3 DEF In
  <2> QED BY <2>1, <2>2
<1>9. Blacks(x) \in Nat /\ Hole(x, s, up, e) \in Nat /\ In(x, D[at]) \in Nat
  BY <1>5 DEF Hole, In
<1> QED BY <1>7, <1>8, <1>9 DEF Weight

\* Between calls, and during a repair up to the place it is at, a red element is
\* below a black one, and all ways from the root to an end pass the same number of
\* black elements.
THEOREM RedBlackCorrect == Spec => []RedBlack
<1>1. IndInv => RedBlack
  <2> SUFFICES ASSUME NEW D, NEW H, Whole(D, H) PROVE RedBlack
    BY DEF IndInv
  <2>1. InTree = D[tree.root] /\ Shape(tree, D) /\ Colored(D[tree.root], H)
    BY InTreeIs DEF Whole
  <2>2. PICK h : \A x \in InTree : IsEnd(x) => Weight(x) = h
    BY <2>1, WeightWhole, WeightShort
  <2>3. \A x \in InTree : Weight(x) \in 0 .. Cardinality(Elements) + 1
    <3>1. PICK p, e : /\ Levels(tree, D[tree.root], H, p, e)
                      /\ \/ p = NULL
                         \/ p \in D[tree.root] /\ e \in Sides
      BY <2>1 DEF Colored, SideOf, Sides
    <3>2. PICK c : Hung(tree, D[tree.root], p, e, c)
      BY <3>1 DEF Hung
    <3>3. \A x \in D[tree.root] : Blacks(x) \in Nat /\ Blacks(x) <= Cardinality(Elements)
      BY <2>1, <3>1, <3>2, BlacksAre DEF Summed
    <3>4. Cardinality(Elements) \in Nat
      BY NoNull, FS_CardinalityType
    <3> QED BY <2>1, <3>3, <3>4 DEF Weight
  <2>4. \E height \in 0 .. Cardinality(Elements) + 1 : \A x \in InTree : IsEnd(x) => Weight(x) = height
    <3>1. CASE \E x \in InTree : IsEnd(x)
      BY <2>2, <2>3, <3>1
    <3>2. CASE ~\E x \in InTree : IsEnd(x)
      <4>1. 0 \in 0 .. Cardinality(Elements) + 1
        BY NoNull, FS_CardinalityType
      <4> QED BY <3>2, <4>1
    <3> QED BY <3>1, <3>2
  <2>5. \A x \in InTree : IsRed(tree, x) =>
          \/ x # tree.root /\ ~IsRed(tree, Parent(tree, x))
          \/ pc \in {"insert_color", "remove_color"} /\ x = at
          \/ pc = "remove_color" /\ x # tree.root /\ Parent(tree, x) = at
    BY RedRule
  <2> QED BY <2>4, <2>5 DEF RedBlack, Weight, IsEnd
<1> QED BY <1>1, InvariantHolds, PTL

-----------------------------------------------------------------------------
(***************************************************************************)
(* The tree implements the ordered set.                                    *)
(***************************************************************************)
\* What the caller sees the tree asked.
Request == CASE pc = "idle" -> <<"idle", NULL>>
             [] pc \in {"insert_color", "remove_color"} -> <<"answered", NULL>>
             [] OTHER -> <<op, elm>>

\* Where a call has no answer yet, and where it has.
Busy == {"descend", "seek", "climb", "splice"}
Repairs == {"insert_color", "remove_color"}

\* The least and the greatest element of a set.
LEMMA LeastIs ==
  ASSUME NEW S, S \subseteq Nat
  PROVE  /\ S = {} => Set!Least(S) = NULL /\ Set!Greatest(S) = NULL
         /\ \A m \in S : (\A y \in S : m <= y) => Set!Least(S) = m
         /\ \A m \in S : (\A y \in S : y <= m) => Set!Greatest(S) = m
<1>1. S = {} => Set!Least(S) = NULL /\ Set!Greatest(S) = NULL
  BY DEF Set!Least, Set!Greatest, Set!NULL, NULL
<1>2. ASSUME NEW m \in S, \A y \in S : m <= y PROVE Set!Least(S) = m
  <2>1. Set!Least(S) = CHOOSE x \in S : \A y \in S : x <= y
    BY <1>2 DEF Set!Least, Set!Min
  <2>2. \A z \in S : (\A y \in S : z <= y) => z = m
    BY <1>2
  <2> QED BY <1>2, <2>1, <2>2
<1>3. ASSUME NEW m \in S, \A y \in S : y <= m PROVE Set!Greatest(S) = m
  <2>1. Set!Greatest(S) = CHOOSE x \in S : \A y \in S : x >= y
    BY <1>3 DEF Set!Greatest, Set!Max
  <2>2. \A z \in S : (\A y \in S : z >= y) => z = m
    BY <1>3
  <2> QED BY <1>3, <2>1, <2>2
<1> QED BY <1>1, <1>2, <1>3

\* The request, by the place of the code.
LEMMA RequestIs ==
  /\ pc = "idle" => Request = Set!Idle
  /\ pc \in Repairs => Request = Set!Answered
  /\ pc \in Busy => Request = <<op, elm>>
  /\ Set!Idle # Set!Answered
  BY DEF Request, Set!Idle, Set!Answered, Repairs, Busy, Set!NULL, NULL

\* And after a step.
LEMMA RequestNext ==
  /\ pc' = "idle" => Request' = Set!Idle
  /\ pc' \in Repairs => Request' = Set!Answered
  /\ pc' \in Busy => Request' = <<op', elm'>>
  BY DEF Request, Set!Idle, Set!Answered, Repairs, Busy, Set!NULL, NULL

\* What can be asked.
LEMMA RequestsAre ==
  /\ \A o \in {"insert", "remove", "find", "nfind", "next", "prev"}, x \in Elements : <<o, x>> \in Set!Requests
  /\ \A o \in {"min", "max"} : <<o, NULL>> \in Set!Requests
  BY DEF Set!Requests, Set!Keyed, Set!NULL, NULL

\* What the caller sees.
LEMMA VarsAre == Set!vars = <<InTree, Request, result>>
  BY DEF Set!vars, Request

\* A call asks.
LEMMA AskStep ==
  ASSUME pc = "idle", pc' \in Busy, <<op', elm'>> \in Set!Requests, result' = NULL, InTree' = InTree
  PROVE  Set!Next
<1>1. Request = Set!Idle /\ Request' = <<op', elm'>>
  BY RequestIs, RequestNext
<1>2. Set!Ask
  BY <1>1 DEF Set!Ask, Request, Set!NULL, NULL
<1> QED BY <1>2 DEF Set!Next

\* An answer, and the change to the set with it.
LEMMA RespondStep ==
  ASSUME pc \in Busy, pc' \in {"idle", "insert_color", "remove_color"}, <<op, elm>> \in Set!Requests,
         result' = Set!Answer(op, elm),
         InTree' = CASE op = "insert" -> InTree \cup {elm}
                     [] op = "remove" -> InTree \ {elm}
                     [] OTHER -> InTree
  PROVE  Set!Next
<1>1. Request = <<op, elm>> /\ Request' \in {Set!Answered, Set!Idle}
  BY RequestIs, RequestNext DEF Repairs
<1>2. Set!Respond(op, elm)
  BY <1>1 DEF Set!Respond, Request
<1>3. \E r \in Set!Requests : Set!Respond(r[1], r[2])
  <2>1. <<op, elm>>[1] = op /\ <<op, elm>>[2] = elm
    OBVIOUS
  <2> QED BY <1>2, <2>1
<1> QED BY <1>3 DEF Set!Next

\* The call returns after the repair.
LEMMA ReturnStep ==
  ASSUME pc \in Repairs, pc' = "idle", result' = result, InTree' = InTree
  PROVE  Set!Next
<1>1. Request = Set!Answered /\ Request' = Set!Idle
  BY RequestIs, RequestNext
<1>2. Set!Return
  BY <1>1 DEF Set!Return, Request
<1> QED BY <1>2 DEF Set!Next

\* A step the caller does not see.
LEMMA SameStep ==
  ASSUME result' = result, InTree' = InTree, pc' = pc, op' = op, elm' = elm
  PROVE  UNCHANGED Set!vars
  BY DEF Set!vars

\* The answers of the walks.
LEMMA FoundAnswers ==
  ASSUME NEW D, Shape(tree, D), Searching(D), Found
  PROVE  Set!Next
<1> DEFINE P == D[tree.root]
<1>1. /\ pc = "descend" /\ at # NULL /\ at = elm /\ pc' = "idle" /\ result' = at /\ tree' = tree
  BY DEF Found, Return
<1>2. at \in P /\ op \in {"insert", "find", "nfind"} /\ elm \in Elements
  <2>1. InDescend(D)
    BY DEF Searching
  <2> QED BY <1>1, <2>1 DEF InDescend
<1>3. InTree = P /\ InTree' = InTree
  <2>1. InTree' = InTree
    BY <1>1 DEF InTree, Kids
  <2> QED BY <2>1, InTreeIs
<1>4. P \subseteq Elements /\ Elements \subseteq Nat \ {NULL}
  BY ShapeTypes
<1>5. Set!Answer(op, elm) = elm
  <2>1. CASE op \in {"insert", "find"}
    BY <1>1, <1>2, <1>3, <2>1 DEF Set!Answer
  <2>2. CASE op = "nfind"
    <3> DEFINE S == {y \in InTree : y >= elm}
    <3>0. elm \in Nat /\ elm \in InTree /\ \A y \in InTree : y \in Nat
      BY <1>1, <1>2, <1>3, <1>4
    <3>1. S \subseteq Nat /\ elm \in S /\ \A y \in S : elm <= y
      <4>1. elm >= elm
        BY <3>0
      <4>2. S \subseteq Nat /\ elm \in S
        BY <3>0, <4>1
      <4>3. ASSUME NEW y \in S PROVE elm <= y
        BY <3>0
      <4> QED BY <4>2, <4>3
    <3> HIDE DEF S
    <3>2. Set!Least(S) = elm
      BY <3>1, LeastIs
    <3> QED BY <2>2, <3>2 DEF Set!Answer, S
  <2> QED BY <1>2, <2>1, <2>2
<1>6. <<op, elm>> \in Set!Requests
  BY <1>2, RequestsAre
<1>7. InTree' = CASE op = "insert" -> InTree \cup {elm}
                  [] op = "remove" -> InTree \ {elm}
                  [] OTHER -> InTree
  BY <1>1, <1>2, <1>3
<1> QED BY <1>1, <1>5, <1>6, <1>7, RespondStep DEF Busy

\* A search that has come to an end of the tree.
LEMMA NotFoundAnswers ==
  ASSUME NEW D, Shape(tree, D), Searching(D), NotFound
  PROVE  Set!Next
<1> DEFINE P == D[tree.root]
<1>1. /\ pc = "descend" /\ at = NULL /\ op # "insert" /\ pc' = "idle" /\ tree' = tree
      /\ result' = IF op = "find" THEN NULL ELSE up
  BY DEF NotFound, Return
<1>2. InDescend(D)
  BY DEF Searching
<1>3. P \subseteq Elements /\ Elements \subseteq Nat \ {NULL} /\ D[NULL] = {} /\ NULL = 0
  BY ShapeTypes DEF NULL
<1>4. /\ up \in P \cup {NULL}
      /\ \/ op \in {"find", "nfind"} /\ elm \in Elements /\ elm \notin P
         \/ op \in {"min", "max"} /\ elm = NULL
  BY <1>1, <1>2, <1>3 DEF InDescend
<1>5. InTree = P /\ InTree' = InTree
  <2>1. InTree' = InTree
    BY <1>1 DEF InTree, Kids
  <2> QED BY <2>1, InTreeIs
<1>6. result' = Set!Answer(op, elm)
  <2>1. CASE op = "find"
    BY <1>1, <1>4, <1>5, <2>1 DEF Set!Answer, Set!NULL, NULL
  <2>2. CASE op = "nfind"
    <3> DEFINE S == {y \in InTree : y >= elm}
    <3>1. /\ up # NULL => elm < up
          /\ \A y \in P : elm <= y => up # NULL /\ up <= y
          /\ elm \in Nat
      BY <1>1, <1>2, <1>3, <1>4, <2>2 DEF InDescend
    <3>2. S \subseteq Nat
      BY <1>3, <1>5
    <3>3. up = NULL => S = {}
      BY <1>3, <1>5, <3>1
    <3>0. \A y \in InTree : y \in Nat
      BY <1>3, <1>5
    <3>4. up # NULL => up \in S /\ \A y \in S : up <= y
      <4> SUFFICES ASSUME up # NULL PROVE up \in S /\ \A y \in S : up <= y
        OBVIOUS
      <4>1. up \in InTree /\ up \in Nat /\ elm < up
        BY <1>4, <1>5, <3>0, <3>1
      <4>2. ASSUME NEW y \in S PROVE up <= y
        <5>1. y \in P /\ y \in Nat /\ elm <= y
          BY <1>5, <3>0, <3>1
        <5> QED BY <3>1, <5>1
      <4> QED BY <3>1, <4>1, <4>2
    <3> HIDE DEF S
    <3>5. Set!Least(S) = up
      BY <3>2, <3>3, <3>4, LeastIs
    <3> QED BY <1>1, <2>2, <3>5 DEF Set!Answer, S
  <2>3. CASE op \in {"min", "max"}
    <3>1. \A y \in P : up # NULL /\ ~On(Toward(up), y, up)
      BY <1>1, <1>2, <1>3, <2>3 DEF InDescend
    <3>2. up = NULL => P = {}
      BY <3>1
    <3>3. up # NULL => up \in P
      BY <1>4
    <3>4. P \subseteq Nat
      BY <1>3
    <3>5. CASE op = "min"
      <4>1. Toward(up) = "left"
        BY <3>5 DEF Toward
      <4>2. up # NULL => \A y \in P : up <= y
        BY <3>1, <3>3, <3>4, <4>1 DEF On
      <4> HIDE DEF P
      <4>3. Set!Least(P) = up
        BY <3>2, <3>3, <3>4, <4>2, LeastIs
      <4> QED BY <1>1, <1>5, <3>5, <4>3 DEF Set!Answer
    <3>6. CASE op = "max"
      <4>1. Toward(up) = "right"
        BY <3>6 DEF Toward
      <4>2. up # NULL => \A y \in P : y <= up
        BY <3>1, <3>3, <3>4, <4>1 DEF On
      <4> HIDE DEF P
      <4>3. Set!Greatest(P) = up
        BY <3>2, <3>3, <3>4, <4>2, LeastIs
      <4> QED BY <1>1, <1>5, <3>6, <4>3 DEF Set!Answer
    <3> QED BY <2>3, <3>5, <3>6
  <2> QED BY <1>4, <2>1, <2>2, <2>3
<1>7. <<op, elm>> \in Set!Requests
  BY <1>4, RequestsAre
<1>8. InTree' = CASE op = "insert" -> InTree \cup {elm}
                  [] op = "remove" -> InTree \ {elm}
                  [] OTHER -> InTree
  BY <1>4, <1>5
<1> QED BY <1>1, <1>6, <1>7, <1>8, RespondStep DEF Busy

\* The nearest element at a side is the answer of a step to a neighbour.
LEMMA NearestAnswers ==
  ASSUME op \in {"next", "prev"}, InTree \subseteq Nat, elm \in Nat, NEW m,
         m = NULL => \A y \in InTree : ~On(SeekSide, elm, y),
         m # NULL => /\ m \in InTree /\ On(SeekSide, elm, m)
                     /\ \A y \in InTree : On(SeekSide, elm, y) => y = m \/ On(SeekSide, m, y)
  PROVE  Set!Answer(op, elm) = m
<1>1. CASE op = "next"
  <2> DEFINE S == {y \in InTree : y > elm}
  <2>0. SeekSide = "left"
    BY <1>1 DEF SeekSide
  <2>1. S \subseteq Nat
    OBVIOUS
  <2>2. m = NULL => S = {}
    BY <2>0 DEF On
  <2>3. m # NULL => m \in S /\ \A y \in S : m <= y
    <3> SUFFICES ASSUME m # NULL PROVE m \in S /\ \A y \in S : m <= y
      OBVIOUS
    <3>1. m \in InTree /\ m \in Nat /\ elm < m
      BY <2>0 DEF On
    <3>2. ASSUME NEW y \in S PROVE m <= y
      <4>1. y = m \/ m < y
        BY <2>0 DEF On
      <4> QED BY <2>1, <3>1, <4>1
    <3> QED BY <3>1, <3>2
  <2> HIDE DEF S
  <2>4. Set!Least(S) = m
    BY <2>1, <2>2, <2>3, LeastIs
  <2> QED BY <1>1, <2>4 DEF Set!Answer, S
<1>2. CASE op = "prev"
  <2> DEFINE S == {y \in InTree : y < elm}
  <2>0. SeekSide = "right"
    BY <1>2 DEF SeekSide
  <2>1. S \subseteq Nat
    OBVIOUS
  <2>2. m = NULL => S = {}
    BY <2>0 DEF On
  <2>3. m # NULL => m \in S /\ \A y \in S : y <= m
    <3> SUFFICES ASSUME m # NULL PROVE m \in S /\ \A y \in S : y <= m
      OBVIOUS
    <3>1. m \in InTree /\ m \in Nat /\ m < elm
      BY <2>0 DEF On
    <3>2. ASSUME NEW y \in S PROVE y <= m
      <4>1. y = m \/ y < m
        BY <2>0 DEF On
      <4> QED BY <2>1, <3>1, <4>1
    <3> QED BY <3>1, <3>2
  <2> HIDE DEF S
  <2>4. Set!Greatest(S) = m
    BY <2>1, <2>2, <2>3, LeastIs
  <2> QED BY <1>2, <2>4 DEF Set!Answer, S
<1> QED BY <1>1, <1>2

\* The walk down has come to the neighbour.
LEMMA SoughtAnswers ==
  ASSUME NEW D, Shape(tree, D), Searching(D), Sought
  PROVE  Set!Next
<1> DEFINE P == D[tree.root]
           q == SeekSide
<1>1. /\ pc = "seek" /\ Child(tree, at, q) = NULL /\ op # "remove" /\ pc' = "idle" /\ result' = at /\ tree' = tree
  BY DEF Sought, Return
<1>2. /\ op \in {"next", "prev"} /\ elm \in P /\ at \in P
      /\ \A y \in D[at] : On(q, elm, y)
      /\ \A y \in P : On(q, elm, y) => y \in D[at] \/ On(q, at, y)
  BY <1>1 DEF Searching, InSeek
<1>3. P \subseteq Elements /\ Elements \subseteq Nat \ {NULL} /\ D[NULL] = {}
  BY ShapeTypes
<1>4. InTree = P /\ InTree' = InTree
  <2>1. InTree' = InTree
    BY <1>1 DEF InTree, Kids
  <2> QED BY <2>1, InTreeIs
<1>5. q \in Sides
  BY SideValues
<1> HIDE DEF q
<1>6. ASSUME NEW y \in P, On(q, elm, y) PROVE y = at \/ On(q, at, y)
  <2> SUFFICES ASSUME y \in D[at], y # at PROVE On(q, at, y)
    BY <1>2, <1>6
  <2>1. SideTo(y, at) \in Sides /\ y \in D[Child(tree, at, SideTo(y, at))] /\ On(SideTo(y, at), y, at)
    BY <1>2, BelowFacts
  <2>2. SideTo(y, at) = Other(q)
    BY <1>1, <1>3, <1>5, <2>1, SideFacts
  <2>3. y \in Nat /\ at \in Nat
    BY <1>2, <1>3
  <2> QED BY <1>5, <2>1, <2>2, <2>3, OnFacts
<1>7. at \in D[at]
  BY <1>2 DEF Shape, NodeIn
<1>8. Set!Answer(op, elm) = at
  <2>1. P \subseteq Nat /\ elm \in Nat /\ at # NULL /\ On(q, elm, at)
    BY <1>2, <1>3, <1>7
  <2> HIDE DEF P
  <2> QED BY <1>2, <1>4, <1>6, <2>1, NearestAnswers DEF q
<1>9. elm \in Elements
  BY <1>2, <1>3
<1>10. <<op, elm>> \in Set!Requests
  BY <1>2, <1>9, RequestsAre
<1>11. InTree' = CASE op = "insert" -> InTree \cup {elm}
                   [] op = "remove" -> InTree \ {elm}
                   [] OTHER -> InTree
  BY <1>2, <1>4
<1> QED BY <1>1, <1>8, <1>10, <1>11, RespondStep DEF Busy

\* The walk up goes on, or has come to the neighbour.
LEMMA ClimbAnswers ==
  ASSUME NEW D, Shape(tree, D), Searching(D), Climb
  PROVE  Set!Next \/ UNCHANGED Set!vars
<1> DEFINE P == D[tree.root]
           q == SeekSide
           p == Parent(tree, at)
<1>1. /\ pc = "climb" /\ tree' = tree
      /\ IF p # NULL /\ at = Child(tree, p, Other(q))
         THEN at' = p /\ UNCHANGED <<pc, op, elm, up, result>>
         ELSE pc' = "idle" /\ result' = p
  BY DEF Climb, Return
<1>2. /\ op \in {"next", "prev"} /\ elm \in P /\ at \in P /\ elm \in D[at]
      /\ \A y \in D[at] : y = elm \/ On(q, y, elm)
  BY <1>1 DEF Searching, InClimb
<1>3. P \subseteq Elements /\ Elements \subseteq Nat \ {NULL} /\ D[NULL] = {}
  BY ShapeTypes
<1>4. InTree = P /\ InTree' = InTree
  <2>1. InTree' = InTree
    BY <1>1 DEF InTree, Kids
  <2> QED BY <2>1, InTreeIs
<1>5. q \in Sides /\ Other(q) \in Sides /\ Other(Other(q)) = q
  BY SideValues, SideFacts
<1> HIDE DEF q, p
<1>6. CASE p # NULL /\ at = Child(tree, p, Other(q))
  BY <1>1, <1>4, <1>6, SameStep
<1>7. CASE ~(p # NULL /\ at = Child(tree, p, Other(q)))
  <2>1. pc' = "idle" /\ result' = p
    BY <1>1, <1>7
  <2>2. /\ p = NULL => at = tree.root
        /\ p # NULL => /\ p \in P /\ at \in D[p] /\ SideOf(tree, at, p) \in Sides
                       /\ at = Child(tree, p, SideOf(tree, at, p))
    BY <1>2, ParentFacts DEF p
  <2>3. ASSUME p = NULL, NEW y \in P PROVE ~On(q, elm, y)
    <3>1. y = elm \/ On(q, y, elm)
      BY <1>2, <2>2, <2>3
    <3>2. y \in Nat /\ elm \in Nat
      BY <1>2, <1>3
    <3> QED BY <1>5, <3>1, <3>2, OnFacts
  <2>4. ASSUME p # NULL
        PROVE  /\ p \in P /\ On(q, elm, p)
               /\ \A y \in P : On(q, elm, y) => y = p \/ On(q, p, y)
    <3>1. p \in P /\ at \in D[p] /\ SideOf(tree, at, p) \in Sides /\ at = Child(tree, p, SideOf(tree, at, p))
      BY <2>2, <2>4
    <3>2. SideOf(tree, at, p) = q
      BY <1>5, <1>7, <2>4, <3>1, SideFacts
    <3>3. at = Child(tree, p, q)
      BY <3>1, <3>2
    <3>4. D[at] \subseteq D[p] /\ \A y \in D[at] : On(q, y, p)
      BY <1>5, <3>1, <3>3, ChildFacts
    <3>5. On(q, elm, p) /\ elm \in D[p] /\ p \in D[p]
      BY <1>2, <3>1, <3>4 DEF Shape, NodeIn
    <3>6. ASSUME NEW y \in P, On(q, elm, y) PROVE y = p \/ On(q, p, y)
      <4>0. y \in Nat /\ elm \in Nat /\ p \in Nat
        BY <1>2, <1>3, <3>1
      <4>1. CASE y \in D[p] /\ y # p
        <5>1. SideTo(y, p) \in Sides /\ y \in D[Child(tree, p, SideTo(y, p))] /\ On(SideTo(y, p), y, p)
          BY <3>1, <4>1, BelowFacts
        <5>2. SideTo(y, p) # q
          <6>1. y \in D[at] => y = elm \/ On(q, y, elm)
            BY <1>2
          <6>2. ~(y = elm \/ On(q, y, elm))
            BY <1>5, <3>6, <4>0, OnFacts
          <6> QED BY <3>3, <5>1, <6>1, <6>2
        <5>3. SideTo(y, p) = Other(q)
          BY <1>5, <5>1, <5>2, SideFacts
        <5> QED BY <1>5, <4>0, <5>1, <5>3, OnFacts
      <4>2. CASE y \notin D[p]
        <5>1. On(Other(q), y, elm)
          BY <1>5, <3>6, <4>0, OnFacts
        <5>2. On(Other(q), y, p)
          BY <1>5, <3>1, <3>5, <4>2, <5>1, ShapeIsTree, Convex
        <5> QED BY <1>5, <4>0, <5>2, OnFacts
      <4> QED BY <4>1, <4>2
    <3> QED BY <3>1, <3>5, <3>6
  <2>5. Set!Answer(op, elm) = p
    <3>1. P \subseteq Nat /\ elm \in Nat
      BY <1>2, <1>3
    <3> HIDE DEF P
    <3> QED BY <1>2, <1>4, <2>3, <2>4, <3>1, NearestAnswers DEF q
  <2>6. elm \in Elements
    BY <1>2, <1>3
  <2>7. <<op, elm>> \in Set!Requests
    BY <1>2, <2>6, RequestsAre
  <2>8. InTree' = CASE op = "insert" -> InTree \cup {elm}
                    [] op = "remove" -> InTree \ {elm}
                    [] OTHER -> InTree
    BY <1>2, <1>4
  <2> QED BY <1>1, <2>1, <2>5, <2>7, <2>8, RespondStep DEF Busy
<1> QED BY <1>6, <1>7

\* A call asks for what can be asked.
LEMMA AskAnswers ==
  ASSUME NEW D, Shape(tree, D), CallSearch \/ CallNeighbour \/ CallRemove
  PROVE  Set!Next
<1>1. D[tree.root] \subseteq Elements /\ InTree = D[tree.root]
  BY ShapeTypes, InTreeIs
<1>2. /\ pc = "idle" /\ pc' \in Busy /\ result' = NULL /\ tree' = tree
      /\ \/ op' \in {"insert", "remove", "find", "nfind", "next", "prev"} /\ elm' \in Elements
         \/ op' \in {"min", "max"} /\ elm' = NULL
  <2>1. CASE CallSearch
    BY <2>1 DEF CallSearch, Enter, Busy
  <2>2. CASE CallNeighbour
    <3>1. PICK x \in InTree, o \in {"next", "prev"} :
            LET child == Child(tree, x, IF o = "next" THEN "right" ELSE "left")
            IN  IF child = NULL THEN Enter(o, x, "climb", x) ELSE Enter(o, x, "seek", child)
      BY <2>2 DEF CallNeighbour
    <3> QED BY <1>1, <3>1 DEF Enter, Busy
  <2>3. CASE CallRemove
    <3>1. PICK x \in InTree :
            IF HasTwo(tree, x) THEN Enter("remove", x, "seek", Child(tree, x, "right"))
            ELSE Enter("remove", x, "splice", x)
      BY <2>3 DEF CallRemove
    <3> QED BY <1>1, <3>1 DEF Enter, Busy
  <2> QED BY <2>1, <2>2, <2>3
<1>3. <<op', elm'>> \in Set!Requests
  BY <1>2, RequestsAre
<1>4. InTree' = InTree
  BY <1>2 DEF InTree, Kids
<1> QED BY <1>2, <1>3, <1>4, AskStep

\* The element is in the set once it is linked.
LEMMA LinkAnswers ==
  ASSUME NEW D, NEW H, Whole(D, H), Link
  PROVE  Set!Next
<1>1. elm \in Elements \ D[tree.root] /\ \E F : Shape(tree', F) /\ F[tree'.root] = D[tree.root] \cup {elm}
  BY LinkKeeps
<1>2. InTree = D[tree.root] /\ InTree' = D[tree.root] \cup {elm}
  BY <1>1, InTreeIs, InTreeNext DEF Whole
<1>3. pc = "descend" /\ op = "insert" /\ pc' = "insert_color" /\ result' = result
  BY DEF Link
<1>4. result = NULL
  BY <1>3 DEF Whole, Searching, InDescend
<1>5. Set!Answer(op, elm) = NULL
  BY <1>1, <1>2, <1>3 DEF Set!Answer, Set!NULL, NULL
<1>6. <<op, elm>> \in Set!Requests
  BY <1>1, <1>3, RequestsAre
<1>7. InTree' = CASE op = "insert" -> InTree \cup {elm}
                  [] op = "remove" -> InTree \ {elm}
                  [] OTHER -> InTree
  BY <1>2, <1>3
<1> QED BY <1>3, <1>4, <1>5, <1>6, <1>7, RespondStep DEF Busy

\* The element is out of the set once it is unlinked.
LEMMA SpliceAnswers ==
  ASSUME NEW D, NEW H, Whole(D, H), Splice
  PROVE  Set!Next
<1>1. /\ elm \in D[tree.root] /\ op = "remove"
      /\ \E F : Shape(tree', F) /\ F[tree'.root] = D[tree.root] \ {elm}
  BY SpliceKeeps
<1>2. InTree = D[tree.root] /\ InTree' = D[tree.root] \ {elm}
  BY <1>1, InTreeIs, InTreeNext DEF Whole
<1>3. pc \in {"splice", "seek"} /\ pc' \in {"idle", "remove_color"} /\ result' = elm
  BY DEF Splice, Return
<1>4. elm \in Elements
  BY <1>1, ShapeTypes DEF Whole
<1>5. Set!Answer(op, elm) = elm
  BY <1>1, <1>2 DEF Set!Answer
<1>6. <<op, elm>> \in Set!Requests
  BY <1>1, <1>4, RequestsAre
<1>7. InTree' = CASE op = "insert" -> InTree \cup {elm}
                  [] op = "remove" -> InTree \ {elm}
                  [] OTHER -> InTree
  BY <1>1, <1>2
<1> QED BY <1>3, <1>5, <1>6, <1>7, RespondStep DEF Busy

\* The repairs leave the set of elements and the answer alone.
LEMMA RepairAnswers ==
  ASSUME NEW D, NEW H, Whole(D, H), IndInv', InsertColor \/ InsertEnd \/ RemoveColor \/ RemoveEnd
  PROVE  Set!Next \/ UNCHANGED Set!vars
<1>1. InTree = D[tree.root]
  BY InTreeIs DEF Whole
<1>2. pc' # "crashed"
  BY DEF IndInv, Whole, Searching
<1>3. CASE InsertColor \/ RemoveColor
  <2>1. \E F : Shape(tree', F) /\ F[tree'.root] = D[tree.root]
    BY <1>3, InsertColorKeeps, RemoveColorKeeps
  <2>2. InTree' = InTree
    BY <1>1, <2>1, InTreeNext
  <2>3. pc' = pc /\ op' = op /\ elm' = elm /\ result' = result
    BY <1>2, <1>3 DEF InsertColor, RemoveColor
  <2> QED BY <2>2, <2>3, SameStep
<1>4. CASE InsertEnd \/ RemoveEnd
  <2>1. Shape(tree', D) /\ tree'.root = tree.root
    BY <1>4, InsertEndKeeps, RemoveEndKeeps
  <2>2. InTree' = InTree
    BY <1>1, <2>1, InTreeNext
  <2>3. pc \in Repairs /\ pc' = "idle" /\ result' = result
    <3>1. CASE InsertEnd
      <4>1. pc = "insert_color" /\ pc' = "idle" /\ result' = NULL
        BY <3>1 DEF InsertEnd, Return
      <4> QED BY <4>1 DEF Whole, Searching, InRepair, Repairs
    <3>2. CASE RemoveEnd
      <4>1. pc = "remove_color" /\ pc' = "idle" /\ result' = elm
        BY <3>2 DEF RemoveEnd, Return
      <4> QED BY <4>1 DEF Whole, Searching, InRepair, Repairs
    <3> QED BY <1>4, <3>1, <3>2
  <2> QED BY <2>2, <2>3, ReturnStep
<1> QED BY <1>3, <1>4

\* The red-black tree is the ordered set its callers see: every step of an
\* operation is a call, an answer that is the right one at that point, or invisible.
THEOREM ImplementsCorrect == Spec => Implements
<1>1. Init => Set!Init
  <2> SUFFICES ASSUME Init PROVE Set!Init
    OBVIOUS
  <2>1. PICK D : Shape(tree, D)
    BY InitInv DEF IndInv, Whole
  <2>2. InTree = {}
    BY <2>1, InTreeIs, ShapeTypes DEF Init
  <2>3. Request = Set!Idle /\ result = NULL
    BY RequestIs DEF Init
  <2> QED BY <2>2, <2>3 DEF Set!Init, Request, Set!NULL, NULL
<1>2. IndInv /\ IndInv' /\ [Next]_vars => [Set!Next]_Set!vars
  <2> SUFFICES ASSUME IndInv, IndInv', [Next]_vars PROVE Set!Next \/ UNCHANGED Set!vars
    OBVIOUS
  <2>1. PICK D, H : Whole(D, H)
    BY DEF IndInv
  <2>2. Shape(tree, D) /\ Searching(D)
    BY <2>1 DEF Whole
  <2>3. CASE CallSearch \/ CallNeighbour \/ CallRemove
    BY <2>2, <2>3, AskAnswers
  <2>4. CASE Descend \/ Seek
    <3>1. tree' = tree /\ pc' = pc /\ op' = op /\ elm' = elm /\ result' = result
      BY <2>4 DEF Descend, Seek
    <3>2. InTree' = InTree
      BY <3>1 DEF InTree, Kids
    <3> QED BY <3>1, <3>2, SameStep
  <2>5. CASE Found
    BY <2>2, <2>5, FoundAnswers
  <2>6. CASE NotFound
    BY <2>2, <2>6, NotFoundAnswers
  <2>7. CASE Sought
    BY <2>2, <2>7, SoughtAnswers
  <2>8. CASE Climb
    BY <2>2, <2>8, ClimbAnswers
  <2>9. CASE Link
    BY <2>1, <2>9, LinkAnswers
  <2>10. CASE Splice
    BY <2>1, <2>10, SpliceAnswers
  <2>11. CASE InsertColor \/ InsertEnd \/ RemoveColor \/ RemoveEnd
    BY <2>1, <2>11, RepairAnswers
  <2>12. CASE UNCHANGED vars
    <3>1. tree' = tree /\ pc' = pc /\ op' = op /\ elm' = elm /\ result' = result
      BY <2>12 DEF vars
    <3>2. InTree' = InTree
      BY <3>1 DEF InTree, Kids
    <3> QED BY <3>1, <3>2, SameStep
  <2> QED BY <2>3, <2>4, <2>5, <2>6, <2>7, <2>8, <2>9, <2>10, <2>11, <2>12 DEF Next, Step
<1> QED BY <1>1, <1>2, InvariantHolds, PTL DEF Spec, Implements, Set!Spec

=============================================================================
