----------------------------- MODULE JsonParser -----------------------------
(***************************************************************************)
(* json/parser.c: parseObject and parseArray, with their recursion as a    *)
(* stack of frames, and the cleanup of what they built, as main calls      *)
(* them.  One action is one pass of a member loop.  A token is its type;   *)
(* what is built is known by the positions of its tokens, counted from 0   *)
(* as in the code.  Failing malloc, realloc and strdup are left out.       *)
(***************************************************************************)
EXTENDS JsonGrammar

CONSTANT Inputs   \* token arrays: sequences that end with their only "EOF"

ASSUME InputsAssumption == \A input \in Inputs : IsTokenArray(input)

VARIABLES
  tokens,    \* TokensArray
  stage,     \* "called", "building", "cleaned", "crashed"
  stack,     \* the calls under way: where each starts, the passes it has to do
  members    \* what is built: in which container, key and value, and as what

vars == <<tokens, stage, stack, members>>

Token(i) == At(tokens, i)
EOFAt == Len(tokens) - 1
Main == -1   \* in place of a container: parseObject is called by main
NoKey == 0   \* an element of an array has no key

-----------------------------------------------------------------------------
(* _findEnclosingTokenPosition: the counters when the loop is at i. *)
Counted(open, token) ==
  CASE token = "{" -> [open EXCEPT !.brace = @ + 1]
    [] token = "[" -> [open EXCEPT !.bracket = @ + 1]
    [] token = "}" /\ open.brace > 0 -> [open EXCEPT !.brace = @ - 1]
    [] token = "]" /\ open.bracket > 0 -> [open EXCEPT !.bracket = @ - 1]
    [] OTHER -> open

NoneOpen == [brace |-> 0, bracket |-> 0]
OpenAt(start, i) ==
  LET open[k \in start + 1 .. i] ==
        IF k = start + 1 THEN NoneOpen ELSE Counted(open[k - 1], Token(k - 1))
  IN  open[i]

Encloses(start, i) ==
  /\ <<Token(start), Token(i)>> \in {<<"{", "}">>, <<"[", "]">>}
  /\ OpenAt(start, i) = NoneOpen

\* The position of the enclosing token, and of the end token if there is none.
End(start) ==
  LET stops == {i \in start + 1 .. EOFAt : i = EOFAt \/ Encloses(start, i)}
  IN  CHOOSE i \in stops : \A j \in stops : i <= j

(* _getSeparatorsData: commas that no bracket opened since start is around. *)
Excess(start, i, open, close) ==
  Cardinality({k \in start + 1 .. i : Token(k) = open})
    - Cardinality({k \in start + 1 .. i : Token(k) = close})

ScannedToEnd(start) == start + 1 .. End(start) - 1             \* variant
Scanned(start) == start + 1 .. End(start) - 2

AnyComma(start) == {i \in Scanned(start) : Token(i) = ","}     \* variant
Separators(start) ==
  { i \in Scanned(start) :
      /\ Token(i) = ","
      /\ Excess(start, i, "{", "}") <= 0 /\ Excess(start, i, "[", "]") <= 0 }

\* There is one pass for each separator, the first of them at start: so each
\* pass is at start or at a separator that another one follows.
Passes(start) ==
  LET separators == Separators(start)
  IN  {i \in {start} \cup separators : \E s \in separators : i < s}

-----------------------------------------------------------------------------
Init ==
  /\ tokens \in Inputs
  /\ stage = "called" /\ stack = << >> /\ members = {}

(***************************************************************************)
(* A value is kept with how it came out: "container" from a call that made *)
(* a frame, "NULL" from one that gave up, "simple" or, if _parseValue      *)
(* meets any other token, "untyped": its value is never initialised.       *)
(* strdup and atof do not survive a literal that is NULL.                  *)
(***************************************************************************)
Member(in, key, at, as) == [in |-> in, key |-> key, at |-> at, as |-> as]

Call(in, key, at, opener, below) ==
  IF Token(at) = opener /\ End(at) # EOFAt
  THEN /\ stack' = Append(below, [start |-> at, todo |-> Passes(at)])
       /\ members' = members \cup {Member(in, key, at, "container")}
  ELSE /\ stack' = below
       /\ members' = members \cup {Member(in, key, at, "NULL")}

ReadThroughNULL == stage' = "crashed" /\ UNCHANGED <<stack, members>>

ParseValue(in, key, at, below) ==
  \/ Token(at) = NoLiteral /\ ReadThroughNULL
  \/ /\ Token(at) # NoLiteral
     /\ stack' = below
     /\ members' = members \cup
          {Member(in, key, at, IF Token(at) \in Simple THEN "simple" ELSE "untyped")}
     /\ UNCHANGED stage

(* main calls parseObject. *)
Start ==
  /\ stage = "called"
  /\ stage' = "building"
  /\ Call(Main, NoKey, 0, "{", << >>)
  /\ UNCHANGED tokens

PassAgain(todo, i) == todo                                   \* variant
PassDone(todo, i) == todo \ {i}

\* The pass at i, the next of the call on top, and the stack without that pass.
Top == stack[Len(stack)]
NextPass(i) == i \in Top.todo /\ \A k \in Top.todo : i <= k
Below(i) == [stack EXCEPT ![Len(stack)].todo = PassDone(@, i)]

ColonTaken(i) == i + 2                                       \* variant
ValueOf(i) == i + 3

(* parseObject: strdup of the key's literal, whatever token the key is. *)
PropertyPass(i) ==
  /\ Token(Top.start) = "{"
  /\ \/ Token(i + 1) \notin Literals /\ ReadThroughNULL
     \/ /\ Token(i + 1) \in Literals /\ Token(ValueOf(i)) \in Openers
        /\ Call(Top.start, i + 1, ValueOf(i), Token(ValueOf(i)), Below(i))
        /\ UNCHANGED stage
     \/ /\ Token(i + 1) \in Literals /\ Token(ValueOf(i)) \notin Openers
        /\ ParseValue(Top.start, i + 1, ValueOf(i), Below(i))

SameAgain(i) == i                                            \* variant
Element(i) == i + 1

(* parseArray: an object is looked for one token behind its place. *)
ElementPass(i) ==
  /\ Token(Top.start) = "["
  /\ \/ /\ Token(Element(i)) = "["
        /\ Call(Top.start, NoKey, Element(i), "[", Below(i))
        /\ UNCHANGED stage
     \/ /\ Token(Element(i)) # "[" /\ Token(i + 2) = "{"
        /\ Call(Top.start, NoKey, Element(i), "{", Below(i))
        /\ UNCHANGED stage
     \/ /\ Token(Element(i)) # "[" /\ Token(i + 2) # "{"
        /\ ParseValue(Top.start, NoKey, Element(i), Below(i))

Pass ==
  /\ stage = "building" /\ stack # << >>
  /\ \E i \in Top.todo : NextPass(i) /\ (PropertyPass(i) \/ ElementPass(i))
  /\ UNCHANGED tokens

Return ==
  /\ stage = "building" /\ stack # << >> /\ Top.todo = {}
  /\ stack' = SubSeq(stack, 1, Len(stack) - 1)
  /\ UNCHANGED <<tokens, stage, members>>

(***************************************************************************)
(* jsonObjectCleanup and jsonArrayCleanup walk over all that was built:    *)
(* they read through a NULL container, and take an untyped value for       *)
(* whatever its type happens to be.                                        *)
(***************************************************************************)
Cleanup ==
  /\ stage = "building" /\ stack = << >>
  /\ LET kinds == {m.as : m \in members}
     IN  stage' \in IF "NULL" \in kinds THEN {"crashed"}
                    ELSE {"cleaned"} \cup (IF "untyped" \in kinds THEN {"crashed"} ELSE {})
  /\ UNCHANGED <<tokens, stack, members>>

Next == Start \/ Pass \/ Return \/ Cleanup

Spec == Init /\ [][Next]_vars

-----------------------------------------------------------------------------
(* Properties *)

\* The variables hold values of their types: a frame is of a container, a pass has
\* three tokens and the end of the container before it, and what main parses
\* starts with the first token.
TypeOK ==
  /\ tokens \in Seq(TokenTypes)
  /\ stage \in {"called", "building", "cleaned", "crashed"}
  /\ stack \in Seq([start : 0 .. EOFAt - 1, todo : SUBSET (0 .. EOFAt - 4)])
  /\ members \subseteq
       [in : {Main}, key : {NoKey}, at : {0}, as : {"container", "NULL"}]
         \cup [in : 0 .. EOFAt - 1, key : 0 .. EOFAt - 1, at : 1 .. EOFAt - 1,
               as : {"container", "NULL", "simple", "untyped"}]

\* What a pass reads ahead of its separator, up to three tokens, is inside the
\* container it parses, for every token array: no pass reads behind the last
\* token, however the text is malformed.
IndexesInside ==
  \A k \in 1 .. Len(stack) :
    LET start == stack[k].start
    IN  /\ End(start) < EOFAt
        /\ \A i \in stack[k].todo : start <= i /\ i + 3 <= End(start)

\* A nested call starts behind the start of the call that makes it, so that the
\* recursion is never deeper than there are tokens.
NestingAdvances ==
  \A k \in 2 .. Len(stack) : stack[k - 1].start < stack[k].start

\* A pass builds a member that was not there before.  Of a malformed text a value may
\* be built twice: behind "]", a nested array hides none of its commas from the
\* outer object, whose passes then go over it too.
PassBuilds ==
  stage' = "building" /\ Len(stack') >= Len(stack) => members' # members

-----------------------------------------------------------------------------
WellFormedInputs == {text \in Inputs : WellFormed(text)}

(* What the members of a well-formed text are, by nesting levels alone. *)
IsValue(p) == Token(p) \in Simple \cup Openers /\ Token(p + 1) # ":"
ValuesIn(q) == {p \in q + 1 .. EOFAt : IsValue(p) /\ Surrounds(tokens, q, p)}

ObjectInArray(m) == m.in # Main /\ Token(m.in) = "[" /\ Token(m.at) = "{"

\* Each member that is built is a member of that container in the text, has its own
\* key, and comes out as what it is (but for objects in arrays); no member is skipped
\* or taken from a nested container.
MembersRight ==
  \A m \in members :
    m.in # Main => LET values == ValuesIn(m.in) IN
      /\ m.at \in values
      /\ m.key = IF Token(m.in) = "{" THEN m.at - 2 ELSE NoKey
      /\ ObjectInArray(m) \/ m.as = IF Token(m.at) \in Simple THEN "simple" ELSE "container"
      /\ \A p \in values : p < m.at => \E o \in members : o.in = m.in /\ o.at = p

\* In the end nothing is missing but the last member of each container that is built
\* (which AllMembersBuilt is about).
AllButLast ==
  stage = "cleaned" =>
    \A n \in members : n.as = "container" => LET values == ValuesIn(n.at) IN
      \A p \in values :
        (\E r \in values : p < r) => \E m \in members : m.in = n.at /\ m.at = p

\* What is built of a well-formed text is what the text says: each member is right,
\* and every member that another one follows is there.
WellFormedRight == tokens \in WellFormedInputs => MembersRight /\ AllButLast

NoObjectInArray == \A i \in 1 .. EOFAt : Token(i) = "{" => Token(i - 1) = ":"

\* A well-formed text in which no array holds an object is parsed and cleaned up
\* without reading through NULL or an uninitialised value.
WellFormedSafe == tokens \in WellFormedInputs /\ NoObjectInArray => stage # "crashed"

\* No value of a well-formed text is built twice, by the container it is in and by
\* another around it, and parsing ends: each pass builds what was not there before.
WellFormedOnce == [][(tokens \in WellFormedInputs => PassBuilds)]_vars

\* Every member of a well-formed object is built, as in the text main parses
\* (parser.c:271), which ends with the member "falseValue".
AllMembersBuilt ==
  stage = "cleaned" => \A p \in ValuesIn(0) : \E m \in members : m.in = 0 /\ m.at = p

=============================================================================
