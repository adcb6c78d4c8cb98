------------------------------ MODULE BinaryTree ------------------------------
(***************************************************************************)
(* What the two trees of libuv's tree.h have in common: elements are       *)
(* positive numbers in their order, and kids[x][s] is the child of x at    *)
(* side s.  Bounded by the number of elements, so that links which do not  *)
(* make a tree can be looked at too.                                       *)
(***************************************************************************)
EXTENDS Integers, Sequences, FiniteSets, SequencesExt

NULL == 0

Sides == {"left", "right"}
Other(s) == IF s = "left" THEN "right" ELSE "left"
NoKids == [s \in Sides |-> NULL]

\* What is reached from a set of elements.
Reachable(from, kids) ==
  LET Reach[i \in 0 .. Cardinality(DOMAIN kids)] ==
        IF i = 0 THEN from \ {NULL}
        ELSE LET reached == Reach[i - 1]
             IN  reached \cup ({kids[x][s] : x \in reached, s \in Sides} \ {NULL})
  IN  Reach[Cardinality(DOMAIN kids)]

=============================================================================
