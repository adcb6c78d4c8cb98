------------------------------ MODULE OrderedSet ------------------------------
(***************************************************************************)
(* What the trees of libuv's tree.h promise to their callers: a set of     *)
(* elements in an order, of which a caller can ask one thing at a time.    *)
(* An element is known by its key; asking to insert a key that is present  *)
(* stands for another element that compares equal to the one in the tree.  *)
(***************************************************************************)
EXTENDS FiniteSetsExt, Integers

CONSTANT Elements   \* the elements, as positive numbers

NULL == 0           \* no element

VARIABLES
  present,   \* the elements in the set
  request,   \* what is asked, or Answered, or Idle
  result     \* the answer to the last request

vars == <<present, request, result>>

Idle == <<"idle", NULL>>
Answered == <<"answered", NULL>>   \* the call has not returned yet

Keyed == {"insert", "remove", "find", "nfind", "next", "prev"}
Requests == (Keyed \X Elements) \cup ({"min", "max"} \X {NULL})

Least(S) == IF S = {} THEN NULL ELSE Min(S)
Greatest(S) == IF S = {} THEN NULL ELSE Max(S)

Answer(op, x) ==
  CASE op \in {"insert", "remove", "find"} -> IF x \in present THEN x ELSE NULL
    [] op = "nfind" -> Least({y \in present : y >= x})
    [] op = "next" -> Least({y \in present : y > x})
    [] op = "prev" -> Greatest({y \in present : y < x})
    [] op = "min" -> Least(present)
    [] op = "max" -> Greatest(present)

Init == present = {} /\ request = Idle /\ result = NULL

Ask ==
  /\ request = Idle /\ request' \in Requests
  /\ result' = NULL
  /\ UNCHANGED present

Respond(op, x) ==
  /\ request = <<op, x>> /\ request' \in {Answered, Idle}
  /\ result' = Answer(op, x)
  /\ present' = CASE op = "insert" -> present \cup {x}
                  [] op = "remove" -> present \ {x}
                  [] OTHER -> present

Return ==
  /\ request = Answered /\ request' = Idle
  /\ UNCHANGED <<present, result>>

Next == Ask \/ (\E r \in Requests : Respond(r[1], r[2])) \/ Return

Spec == Init /\ [][Next]_vars

=============================================================================
