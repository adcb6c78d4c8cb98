----------------------------- MODULE JsonGrammar -----------------------------
(***************************************************************************)
(* What a well-formed JSON object is, as tokens with their end token: which *)
(* token may follow which, in which container.  The code has no grammar:   *)
(* this is what parser.c is meant for, and its properties are stated with.  *)
(* Positions are counted from 0, as in parser.c.                           *)
(***************************************************************************)
EXTENDS JsonTokens, FiniteSets

Openers == {"{", "["}
Closers == {"}", "]"}
At(text, p) == text[p + 1]

\* How many containers are open before the token at p.
Level(text, p) ==
  Cardinality({k \in 0 .. p - 1 : At(text, k) \in Openers})
    - Cardinality({k \in 0 .. p - 1 : At(text, k) \in Closers})

\* The innermost container around the token at p is the one that begins at q.
Surrounds(text, q, p) ==
  /\ q < p /\ At(text, q) \in Openers
  /\ LET inside == Level(text, q) + 1
     IN  Level(text, p) = inside /\ \A r \in q + 1 .. p : Level(text, r) >= inside

\* The token at p may come where it is in the container that begins at q.
Follows(text, q, p) ==
  LET object == At(text, q) = "{"
      before == At(text, p - 1)
      begins == p - 1 = q \/ before = ","
      ended == \/ before \in Closers
               \/ before \in Simple /\ (object => At(text, p - 2) = ":")
  IN  \/ At(text, p) = "string" /\ object /\ begins                         \* a key
      \/ At(text, p) = ":" /\ object /\ before = "string" /\ At(text, p - 2) # ":"
      \/ At(text, p) \in Simple \cup Openers /\ IF object THEN before = ":" ELSE begins
      \/ At(text, p) = "," /\ ended
      \/ /\ <<At(text, q), At(text, p)>> \in {<<"{", "}">>, <<"[", "]">>}
         /\ p - 1 = q \/ ended

WellFormed(text) ==
  LET end == Len(text) - 1
  IN  /\ At(text, 0) = "{"
      /\ \A p \in 1 .. end - 1 : \E q \in 0 .. p - 1 : Follows(text, q, p) /\ Surrounds(text, q, p)
      /\ Level(text, end) = 0

=============================================================================
