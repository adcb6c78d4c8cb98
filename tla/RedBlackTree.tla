---------------------------- MODULE RedBlackTree ----------------------------
(***************************************************************************)
(* The red-black tree of libuv's tree.h (RB_GENERATE), in which libuv      *)
(* keeps the timers of a loop, those of server.c among them.  One action   *)
(* is one pass of a loop of the code.  Left and right are mirror images    *)
(* in the code, and a side here.  Reading through NULL is a crash.         *)
(***************************************************************************)
EXTENDS BinaryTree

CONSTANT Elements   \* the elements that may be in the tree

ASSUME ElementsAssumption == Elements \subseteq Nat \ {NULL} /\ IsFiniteSet(Elements)

VARIABLES
  tree,      \* root, and each element's RB_ENTRY: two children, parent, color
  pc,        \* "idle" between calls, or the loop the code is in
  op,        \* the function that was called
  elm,       \* the element it was called with
  at,        \* where the loop is
  up,        \* parent, in the code; in RB_NFIND, res
  result     \* what the last call returned

vars == <<tree, pc, op, elm, at, up, result>>

\* The fields of an element outside the tree are written before they are read;
\* they are kept at these values.
NoEntry == [child |-> NoKids, parent |-> NULL, color |-> "black"]

Init ==
  /\ tree = [root |-> NULL, node |-> [x \in Elements |-> NoEntry]]
  /\ pc = "idle" /\ op = "none"
  /\ elm = NULL /\ at = NULL /\ up = NULL /\ result = NULL

Child(t, x, s) == t.node[x].child[s]
Parent(t, x) == t.node[x].parent
IsRed(t, x) == x # NULL /\ t.node[x].color = "red"

SetColor(t, x, color) == IF x = NULL THEN t ELSE [t EXCEPT !.node[x].color = color]
SetParent(t, x, p) == IF x = NULL THEN t ELSE [t EXCEPT !.node[x].parent = p]
BlackRed(t, black, red) == SetColor(SetColor(t, black, "black"), red, "red")

SideOf(t, x, p) == IF Child(t, p, "left") = x THEN "left" ELSE "right"

\* The parent of x, or the root, points to y instead.
Replace(t, x, y) ==
  LET p == Parent(t, x)
  IN  IF p = NULL THEN [t EXCEPT !.root = y]
      ELSE [t EXCEPT !.node[p].child[SideOf(t, x, p)] = y]

\* x goes under y, at side s of it, and takes what was there.
Lowered(t, x, y, s, inner) ==
  [t EXCEPT !.node[x].child[Other(s)] = inner, !.node[x].parent = y, !.node[y].child[s] = x]

\* RB_ROTATE_LEFT, or RIGHT: x goes down to side s, its other child up.
RotateForgettingInner(t, x, s) ==                             \* variant
  LET y == Child(t, x, Other(s))
      lifted == SetParent(Replace(t, x, y), y, Parent(t, x))
  IN  Lowered(lifted, x, y, s, Child(t, y, s))
Rotate(t, x, s) ==
  LET y == Child(t, x, Other(s))
      inner == Child(t, y, s)
      lifted == SetParent(Replace(SetParent(t, inner, x), x, y), y, Parent(t, x))
  IN  Lowered(lifted, x, y, s, inner)

Kids == [x \in Elements |-> tree.node[x].child]
InTree == Reachable({tree.root}, Kids)

-----------------------------------------------------------------------------
(***************************************************************************)
(* Calls: an insertion or a search of any element, a removal or a step to  *)
(* a neighbour from an element that is in the tree.                        *)
(***************************************************************************)
Enter(o, x, loop, first) ==
  /\ pc = "idle" /\ pc' = loop
  /\ op' = o /\ elm' = x /\ at' = first /\ up' = NULL /\ result' = NULL
  /\ UNCHANGED tree

Return(found) ==
  /\ pc' = "idle" /\ result' = found
  /\ op' = "none" /\ elm' = NULL /\ at' = NULL /\ up' = NULL

CallSearch ==
  \/ \E o \in {"insert", "find", "nfind"}, x \in Elements : Enter(o, x, "descend", tree.root)
  \/ \E o \in {"min", "max"} : Enter(o, NULL, "descend", tree.root)

CallNeighbour ==
  \E x \in InTree, o \in {"next", "prev"} :
    LET child == Child(tree, x, IF o = "next" THEN "right" ELSE "left")
    IN  IF child = NULL THEN Enter(o, x, "climb", x) ELSE Enter(o, x, "seek", child)

HasTwo(t, x) == \A s \in Sides : Child(t, x, s) # NULL

CallRemove ==
  \E x \in InTree :
    IF HasTwo(tree, x) THEN Enter("remove", x, "seek", Child(tree, x, "right"))
    ELSE Enter("remove", x, "splice", x)

(* RB_INSERT, RB_FIND, RB_NFIND and RB_MINMAX go down from the root. *)
Toward(x) ==
  CASE op = "min" -> "left" [] op = "max" -> "right"
    [] OTHER -> IF elm < x THEN "left" ELSE "right"

Descend ==
  /\ pc = "descend" /\ at # NULL /\ at # elm
  /\ at' = Child(tree, at, Toward(at))
  /\ up' = IF op = "nfind" /\ Toward(at) = "right" THEN up ELSE at
  /\ UNCHANGED <<tree, pc, op, elm, result>>

Found ==
  /\ pc = "descend" /\ at # NULL /\ at = elm
  /\ Return(at)
  /\ UNCHANGED tree

NotFound ==
  /\ pc = "descend" /\ at = NULL /\ op # "insert"
  /\ Return(IF op = "find" THEN NULL ELSE up)
  /\ UNCHANGED tree

(* RB_NEXT, and RB_PREV, and RB_REMOVE when there are two children. *)
SeekFarthest == IF op = "next" THEN "left" ELSE "right"       \* variant
SeekSide == IF op = "prev" THEN "right" ELSE "left"

Seek ==
  /\ pc = "seek" /\ Child(tree, at, SeekSide) # NULL
  /\ at' = Child(tree, at, SeekSide)
  /\ UNCHANGED <<tree, pc, op, elm, up, result>>

Sought ==
  /\ pc = "seek" /\ Child(tree, at, SeekSide) = NULL /\ op # "remove"
  /\ Return(at)
  /\ UNCHANGED tree

Climb ==
  /\ pc = "climb"
  /\ LET p == Parent(tree, at)
     IN  IF p # NULL /\ at = Child(tree, p, Other(SeekSide))
         THEN at' = p /\ UNCHANGED <<pc, op, elm, up, result>>
         ELSE Return(p)
  /\ UNCHANGED tree

-----------------------------------------------------------------------------
(* RB_INSERT: RB_SET, and the link from the parent. *)
NewEntry(p) == [NoEntry EXCEPT !.parent = p, !.color = "red"]

Link ==
  /\ pc = "descend" /\ at = NULL /\ op = "insert"
  /\ LET linked == [tree EXCEPT !.node[elm] = NewEntry(up)]
     IN  tree' = IF up = NULL THEN [linked EXCEPT !.root = elm]
                 ELSE [linked EXCEPT !.node[up].child[Toward(up)] = elm]
  /\ pc' = "insert_color" /\ at' = elm
  /\ UNCHANGED <<op, elm, up, result>>

\* A pass of RB_INSERT_COLOR under a red parent p: if the uncle is red too, the
\* trouble moves up to the grandparent; if not, one or two rotations end it.
Recolored(t, p, g, uncle) == BlackRed(SetColor(t, uncle, "black"), p, g)

InnerForgotten(t, x, p, g, s) ==                              \* variant
  [tree |-> Rotate(BlackRed(t, p, g), g, Other(s)), at |-> x]
Rotated(t, x, p, g, s) ==
  IF Child(t, p, Other(s)) = x
  THEN [tree |-> Rotate(BlackRed(Rotate(t, p, s), x, g), g, Other(s)), at |-> p]
  ELSE [tree |-> Rotate(BlackRed(t, p, g), g, Other(s)), at |-> x]

InsertColor ==
  LET p == Parent(tree, at)
      g == Parent(tree, p)
      s == SideOf(tree, p, g)
      uncle == Child(tree, g, Other(s))
      rotated == Rotated(tree, at, p, g, s)
  IN  /\ pc = "insert_color" /\ IsRed(tree, p)
      /\ \/ g = NULL /\ pc' = "crashed" /\ UNCHANGED <<tree, at>>
         \/ g # NULL /\ IsRed(tree, uncle)
              /\ tree' = Recolored(tree, p, g, uncle) /\ at' = g /\ UNCHANGED pc
         \/ g # NULL /\ ~IsRed(tree, uncle)
              /\ tree' = rotated.tree /\ at' = rotated.at /\ UNCHANGED pc
      /\ UNCHANGED <<op, elm, up, result>>

InsertEnd ==
  /\ pc = "insert_color" /\ ~IsRed(tree, Parent(tree, at))
  /\ tree' = SetColor(tree, tree.root, "black")
  /\ Return(NULL)

-----------------------------------------------------------------------------
(* RB_REMOVE: an element with at most one child gives its place to that child. *)
RightChild(t, x) == Child(t, x, "right")                      \* variant
OnlyChild(t, x) ==
  IF Child(t, x, "left") = NULL THEN Child(t, x, "right") ELSE Child(t, x, "left")
Without(t, x) ==
  SetParent(Replace(t, x, OnlyChild(t, x)), OnlyChild(t, x), Parent(t, x))

\* The element takes over the place and the color of old, which has two children.
TakePlace(t, x, old) ==
  LET placed == Replace([t EXCEPT !.node[x] = t.node[old]], old, x)
  IN  SetParent(SetParent(placed, Child(t, old, "left"), x), Child(t, old, "right"), x)

ParentOf(x) == Parent(tree, x)                                \* variant
ParentLeft(x) == IF Parent(tree, x) = elm THEN x ELSE Parent(tree, x)

Splice ==
  /\ pc = "splice" \/ (pc = "seek" /\ op = "remove" /\ Child(tree, at, SeekSide) = NULL)
  /\ LET cut == Without(tree, at)
         placed == IF at = elm THEN cut ELSE TakePlace(cut, at, elm)
     IN  tree' = [placed EXCEPT !.node[elm] = NoEntry]
  /\ IF IsRed(tree, at) THEN Return(elm)
     ELSE /\ pc' = "remove_color" /\ result' = elm
          /\ at' = OnlyChild(tree, at) /\ up' = ParentLeft(at)
          /\ UNCHANGED <<op, elm>>

\* A pass of RB_REMOVE_COLOR: the paths through at, a child of up, are one black
\* element short.  A red sibling is rotated away; then the sibling turns red, and
\* the paths through up are short, or its red child is rotated in to make up.
BothBlack(t, x) == \A s \in Sides : ~IsRed(t, Child(t, x, s))

SiblingKeepsColor(t, x, s) ==                                 \* variant
  LET sibling == Child(t, x, Other(s))
      painted == SetColor(SetColor(t, x, "black"), Child(t, sibling, Other(s)), "black")
  IN  Rotate(painted, x, s)
RotatedIn(t, x, s) ==
  LET sibling == Child(t, x, Other(s))
      painted == SetColor(SetColor(SetColor(t, sibling, t.node[x].color), x, "black"),
                          Child(t, sibling, Other(s)), "black")
  IN  Rotate(painted, x, s)

FarRed(t, x, s) ==
  LET sibling == Child(t, x, Other(s))
  IN  IF IsRed(t, Child(t, sibling, Other(s))) THEN t
      ELSE Rotate(BlackRed(t, Child(t, sibling, s), sibling), sibling, Other(s))

MoveUp(t) == at' = up /\ up' = Parent(t, up)

RemoveColor ==
  LET s == SideOf(tree, at, up)
      first == Child(tree, up, Other(s))
      turned == IF IsRed(tree, first) THEN Rotate(BlackRed(tree, first, up), up, s) ELSE tree
      sibling == Child(turned, up, Other(s))
  IN  /\ pc = "remove_color" /\ ~IsRed(tree, at) /\ at # tree.root
      /\ \/ up = NULL /\ pc' = "crashed" /\ UNCHANGED <<tree, at, up>>
         \/ up # NULL /\ (first = NULL \/ sibling = NULL)
              /\ pc' = "crashed" /\ UNCHANGED <<tree, at, up>>
         \/ up # NULL /\ first # NULL /\ sibling # NULL /\ BothBlack(turned, sibling)
              /\ tree' = SetColor(turned, sibling, "red") /\ MoveUp(turned) /\ UNCHANGED pc
         \/ up # NULL /\ first # NULL /\ sibling # NULL /\ ~BothBlack(turned, sibling)
              /\ tree' = RotatedIn(FarRed(turned, up, s), up, s)
              /\ at' = tree'.root /\ UNCHANGED <<up, pc>>
      /\ UNCHANGED <<op, elm, result>>

RemoveEnd ==
  /\ pc = "remove_color" /\ (IsRed(tree, at) \/ at = tree.root)
  /\ tree' = SetColor(tree, at, "black")
  /\ Return(elm)

-----------------------------------------------------------------------------
Step ==
  \/ Descend \/ Found \/ NotFound \/ Seek \/ Sought \/ Climb
  \/ Link \/ InsertColor \/ InsertEnd \/ Splice \/ RemoveColor \/ RemoveEnd

Next == CallSearch \/ CallNeighbour \/ CallRemove \/ Step

Spec == Init /\ [][Next]_vars
FairSpec == Spec /\ WF_vars(Step)   \* a call that has begun goes on

-----------------------------------------------------------------------------
(* Properties *)

\* No grandparent or sibling that the repair of the colors reads through without a
\* test is ever NULL.
NoNullRead == pc # "crashed"

\* Children and parents agree in every state, in the middle of a repair too, and
\* no element is the child of another twice: there is one way to each.
LinksAgree ==
  /\ tree.root # NULL => Parent(tree, tree.root) = NULL
  /\ \A x \in InTree, s \in Sides :
       LET child == Child(tree, x, s)
       IN  child # NULL => Parent(tree, child) = x /\ child # Child(tree, x, Other(s))

\* What is reached from an element, and the way from the root to it.
Below(x) == Reachable({x}, Kids)
Above(x) == {y \in InTree : x \in Below(y)}

\* Rotations and removals keep the order of the elements, in the middle of a
\* repair too: a search never goes the wrong way.
Ordered ==
  \A x \in InTree :
    /\ \A y \in Below(Child(tree, x, "left")) : y < x
    /\ \A y \in Below(Child(tree, x, "right")) : x < y

\* Whether the way to an element is one that a removal has left short of black.
Short(x) == pc = "remove_color" /\ IF at = NULL THEN x = up ELSE at \in Above(x)

Blacks(x) == Cardinality({y \in Above(x) : ~IsRed(tree, y)})

\* The rules of a red-black tree (tree.h:55), and what is left of them during a
\* repair: only the element the repair is at may be a red root or next to a red
\* one, and only the ways through it may be one black element short.
RedBlack ==
  /\ \A x \in InTree : IsRed(tree, x) =>
       \/ x # tree.root /\ ~IsRed(tree, Parent(tree, x))
       \/ pc \in {"insert_color", "remove_color"} /\ x = at
       \/ pc = "remove_color" /\ x # tree.root /\ Parent(tree, x) = at
  /\ \E height \in 0 .. Cardinality(Elements) + 1 :
       \A x \in InTree : (\E s \in Sides : Child(tree, x, s) = NULL) =>
         Blacks(x) + (IF Short(x) THEN 1 ELSE 0) = height

\* With all its pointers, the tree is the ordered set its callers see: every call
\* answers from the set of elements in the tree, and only the one step that links
\* or unlinks its element changes that set; rotations never do.
Set == INSTANCE OrderedSet WITH
  present <- InTree,
  request <- CASE pc = "idle" -> <<"idle", NULL>>
               [] pc \in {"insert_color", "remove_color"} -> <<"answered", NULL>>
               [] OTHER -> <<op, elm>>
Implements == Set!Spec

\* Every call returns: the repair always moves up, or is over.
Returns == pc # "idle" ~> pc = "idle"

=============================================================================
