------------------------------ MODULE SplayTree ------------------------------
(***************************************************************************)
(* The splay tree of libuv's tree.h (SPLAY_GENERATE).  Every search        *)
(* changes the tree: it takes it apart on the way down, and puts it        *)
(* together with what was searched at the root.  One action is one pass    *)
(* of a loop, or what a function does after SPLAY.  Left and right are     *)
(* mirror images in the code, and a side here.                             *)
(***************************************************************************)
EXTENDS BinaryTree

CONSTANT Elements   \* the elements that may be in the tree

NODE == -1          \* __node, under which the parts to the left and right hang
ASSUME ElementsAssumption == Elements \subseteq Nat \ {NULL} /\ IsFiniteSet(Elements)

VARIABLES
  root,     \* sph_root
  kids,     \* SPLAY_LEFT and SPLAY_RIGHT of the elements and of __node
  ends,     \* at side "left", __left, and at "right", __right
  pc,       \* "idle", "empty", "splay", "assemble", "splayed", "seek"
  op,       \* the function that was called, "removed" in the second half of a removal
  elm,      \* the element it was called with
  tmp,      \* __tmp of SPLAY_REMOVE, or elm of SPLAY_NEXT on its way
  result    \* what the last call returned

vars == <<root, kids, ends, pc, op, elm, tmp, result>>

Init ==
  /\ root = NULL /\ kids = [x \in Elements \cup {NODE} |-> NoKids]
  /\ ends = [s \in Sides |-> NODE]
  /\ pc = "idle" /\ op = "none" /\ elm = NULL /\ tmp = NULL /\ result = NULL

-----------------------------------------------------------------------------
Called(o, x) == op' = o /\ elm' = x /\ result' = NULL

Return(found) ==
  /\ pc' = "idle" /\ result' = found
  /\ op' = "none" /\ elm' = NULL /\ tmp' = NULL

InTree == Reachable({root, tmp} \cup {kids[NODE][s] : s \in Sides}, kids)

(* SPLAY_NEXT is called with an element of the tree, the others with any. *)
Call ==
  /\ pc = "idle"
  /\ \/ \E o \in {"insert", "remove", "find"}, x \in Elements : Called(o, x)
     \/ \E x \in InTree : Called("next", x)
     \/ \E o \in {"min", "max"} : Called(o, NULL)
  /\ pc' = IF root = NULL THEN "empty" ELSE "splay"
  /\ UNCHANGED <<root, kids, ends, tmp>>

(* Nothing is in the tree: SPLAY_EMPTY. *)
Empty ==
  /\ pc = "empty"
  /\ root' = IF op = "insert" THEN elm ELSE NULL
  /\ Return(NULL)
  /\ UNCHANGED <<kids, ends>>

(***************************************************************************)
(* SPLAY and SPLAY_MINMAX: where elm is, seen from x, "here" if it is x.   *)
(***************************************************************************)
Toward(x) ==
  CASE op = "min" -> "left" [] op = "max" -> "right"
    [] OTHER -> IF elm = x THEN "here" ELSE IF elm < x THEN "left" ELSE "right"

\* SPLAY_ROTATE_RIGHT, for the child at the left, or LEFT.
RotatedKids(s) ==
  LET child == kids[root][s]
  IN  [kids EXCEPT ![root][s] = kids[child][Other(s)], ![child][Other(s)] = root]

\* SPLAY_LINKLEFT, for the way to the left, or LINKRIGHT: the root goes under the
\* end of the part at the other side, and its child at side s becomes the root.
EndStays(links, top, s) ==                                    \* variant
  /\ kids' = [links EXCEPT ![ends[Other(s)]][s] = top]
  /\ UNCHANGED ends
LinkAtNode(links, top, s) ==                                  \* variant
  /\ kids' = [links EXCEPT ![NODE][s] = top]
  /\ ends' = [ends EXCEPT ![Other(s)] = top]
Link(links, top, s) ==
  /\ kids' = [links EXCEPT ![ends[Other(s)]][s] = top]
  /\ ends' = [ends EXCEPT ![Other(s)] = top]

LinkDown(links, top, s) ==
  /\ root' = links[top][s]
  /\ Link(links, top, s)
  /\ UNCHANGED pc

(* A pass that stops at the root, for want of a child or because it is found. *)
Stop ==
  /\ pc = "splay"
  /\ LET s == Toward(root) IN s # "here" => kids[root][s] = NULL
  /\ pc' = "assemble"
  /\ UNCHANGED <<root, kids, ends, op, elm, tmp, result>>

(* A pass one step down, between the root and its child. *)
StepDown ==
  /\ pc = "splay"
  /\ LET s == Toward(root) IN
       /\ s # "here" /\ kids[root][s] # NULL
       /\ Toward(kids[root][s]) # s
       /\ LinkDown(kids, root, s)
  /\ UNCHANGED <<op, elm, tmp, result>>

AlwaysEnds(s) == TRUE                                         \* variant
EndsThere(s) == kids[kids[root][s]][s] = NULL

(* A pass that goes on in the same direction behind the child: rotated first. *)
RotateDown ==
  /\ pc = "splay"
  /\ LET s == Toward(root) IN
       /\ s # "here" /\ kids[root][s] # NULL
       /\ Toward(kids[root][s]) = s
       /\ IF EndsThere(s)
          THEN /\ root' = kids[root][s] /\ kids' = RotatedKids(s)
               /\ pc' = "assemble" /\ UNCHANGED ends
          ELSE LinkDown(RotatedKids(s), kids[root][s], s)
  /\ UNCHANGED <<op, elm, tmp, result>>

\* SPLAY_ASSEMBLE
Assembled ==
  LET hung == [kids EXCEPT ![ends["left"]]["right"] = kids[root]["left"],
                           ![ends["right"]]["left"] = kids[root]["right"]]
  IN  [hung EXCEPT ![root] = [s \in Sides |-> hung[NODE][Other(s)]], ![NODE] = NoKids]

Assemble ==
  /\ pc = "assemble" /\ pc' = "splayed"
  /\ kids' = Assembled
  /\ ends' = [s \in Sides |-> NODE]
  /\ UNCHANGED <<root, op, elm, tmp, result>>

-----------------------------------------------------------------------------
(* What is done with the element that SPLAY has brought to the root. *)
FindEnd ==
  /\ pc = "splayed" /\ op \in {"find", "min", "max"}
  /\ Return(IF Toward(root) = "here" \/ op # "find" THEN root ELSE NULL)
  /\ UNCHANGED <<root, kids, ends>>

\* The root and its part beyond the new element go to one side of it, the rest to
\* the other.
InsertEnd ==
  /\ pc = "splayed" /\ op = "insert"
  /\ LET s == Toward(root) IN
       IF s = "here" THEN Return(root) /\ UNCHANGED <<root, kids>>
       ELSE /\ kids' = [kids EXCEPT ![elm][s] = kids[root][s], ![elm][Other(s)] = root,
                                    ![root][s] = NULL]
            /\ root' = elm
            /\ Return(NULL)
  /\ UNCHANGED ends

RemoveAbsent ==
  /\ pc = "splayed" /\ op = "remove" /\ Toward(root) # "here"
  /\ Return(NULL)
  /\ UNCHANGED <<root, kids, ends>>

\* The fields of an element outside the tree are written before they are read; they
\* are kept at NULL.
Unlinked == [kids EXCEPT ![elm] = NoKids]

RemoveRoot ==
  /\ pc = "splayed" /\ op = "remove" /\ Toward(root) = "here"
  /\ kids[root]["left"] = NULL
  /\ root' = kids[root]["right"] /\ kids' = Unlinked
  /\ Return(elm)
  /\ UNCHANGED ends

\* The larger elements wait until SPLAY has brought the largest smaller one up.
RemoveAgain ==
  /\ pc = "splayed" /\ op = "remove" /\ Toward(root) = "here"
  /\ kids[root]["left"] # NULL
  /\ root' = kids[root]["left"] /\ kids' = Unlinked /\ tmp' = kids[root]["right"]
  /\ pc' = "splay" /\ op' = "removed" /\ result' = elm
  /\ UNCHANGED <<ends, elm>>

RemoveEnd ==
  /\ pc = "splayed" /\ op = "removed"
  /\ kids' = [kids EXCEPT ![root]["right"] = tmp]
  /\ Return(elm)
  /\ UNCHANGED <<root, ends>>

NextEnd ==
  /\ pc = "splayed" /\ op = "next"
  /\ IF kids[elm]["right"] = NULL THEN Return(NULL)
     ELSE pc' = "seek" /\ tmp' = kids[elm]["right"] /\ UNCHANGED <<op, elm, result>>
  /\ UNCHANGED <<root, kids, ends>>

Seek ==
  /\ pc = "seek"
  /\ IF kids[tmp]["left"] = NULL THEN Return(tmp)
     ELSE tmp' = kids[tmp]["left"] /\ UNCHANGED <<pc, op, elm, result>>
  /\ UNCHANGED <<root, kids, ends>>

-----------------------------------------------------------------------------
Step ==
  \/ Empty \/ Stop \/ StepDown \/ RotateDown \/ Assemble \/ FindEnd \/ InsertEnd
  \/ RemoveAbsent \/ RemoveRoot \/ RemoveAgain \/ RemoveEnd \/ NextEnd \/ Seek

Next == Call \/ Step

Spec == Init /\ [][Next]_vars

-----------------------------------------------------------------------------
(* Properties *)

\* What hangs at a side of the way down, without what its end still links to.
Hung(s) ==
  LET cut == [x \in Elements |->
                [t \in Sides |-> IF x = ends[Other(t)] THEN NULL ELSE kids[x][t]]]
  IN  Reachable({kids[NODE][Other(s)]}, cut)

\* On the way down what is to the left is smaller than all that is still below the
\* root, and what is to the right larger; __left is the largest on the left and
\* __right the smallest on the right, so that the next part fits under it.
Apart ==
  pc \in {"splay", "assemble"} =>
    \A s \in Sides :
      /\ \A x \in Reachable({root}, kids), y \in Hung(s) : IF s = "left" THEN y < x ELSE x < y
      /\ IF Hung(s) = {} THEN ends[s] = NODE
         ELSE ends[s] = IF s = "left" THEN Max(Hung(s)) ELSE Min(Hung(s))

\* tree.h:125 and tree.h:398: SPLAY brings the element to the root, or one next to
\* where it would be: no element is between the two.
ClosestAtRoot ==
  pc = "splayed" =>
    CASE op = "min" -> \A x \in InTree : root <= x
      [] op = "max" -> \A x \in InTree : x <= root
      [] op = "removed" -> \A x \in Reachable({root}, kids) : x <= root
      [] OTHER -> ~ \E x \in InTree : (root < x /\ x <= elm) \/ (elm <= x /\ x < root)

\* Although every search takes the tree apart, it is the ordered set its callers see.
Set == INSTANCE OrderedSet WITH
  present <- InTree,
  request <- CASE pc = "idle" -> <<"idle", NULL>>
               [] op = "removed" -> <<"answered", NULL>>
               [] OTHER -> <<op, elm>>
Implements == Set!Spec

=============================================================================
