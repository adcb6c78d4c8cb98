-------------------------- MODULE JsonParserProofs --------------------------
(***************************************************************************)
(* Proofs that the parser reads inside the container it parses, and that   *)
(* its recursion is bounded, for every token array, however malformed; and *)
(* that of a well-formed text it builds what the text says, once, whatever *)
(* the length and the depth of the text.                                   *)
(***************************************************************************)
EXTENDS JsonParser, FiniteSetTheorems, WellFoundedInduction, TLAPS

Positions == 0 .. EOFAt - 1

Frames == [start : Positions, todo : SUBSET (0 .. EOFAt - 4)]

StackOK(s) ==
  /\ s \in Seq(Frames)
  /\ \A k \in 1 .. Len(s) :
       /\ End(s[k].start) < EOFAt
       /\ s[k].todo \subseteq s[k].start .. End(s[k].start) - 3
  /\ \A k \in 2 .. Len(s) : s[k - 1].start < s[k].start

Members ==
  [in : {Main}, key : {NoKey}, at : {0}, as : {"container", "NULL"}]
    \cup [in : Positions, key : Positions, at : 1 .. EOFAt - 1,
          as : {"container", "NULL", "simple", "untyped"}]

(***************************************************************************)
(* The inductive invariant.  Frames and members are in range because what  *)
(* a pass reads is inside its container, which ends before the end token.  *)
(***************************************************************************)
Inv ==
  /\ tokens \in Inputs
  /\ stage \in {"called", "building", "cleaned", "crashed"}
  /\ StackOK(stack)
  /\ members \subseteq Members

-----------------------------------------------------------------------------
(* Positions *)

\* Every set of natural numbers that is not empty has a least element.
LEMMA LeastExists ==
  ASSUME NEW S, S \subseteq Nat, S # {}
  PROVE  \E i \in S : \A j \in S : i <= j
<1> DEFINE Less == {pair \in Nat \X Nat : pair[1] < pair[2]}
<1>1. IsWellFoundedOn(Less, Nat)
  BY NatLessThanWellFounded DEF OpToRel
<1>2. PICK i \in S : \A j \in S : <<j, i>> \notin Less
  <2> HIDE DEF Less
  <2> QED BY <1>1, WFMin
<1>3. \A j \in S : ~(j < i)
  BY <1>2
<1> QED BY <1>3

\* The token array ends with its end token, and has no other.
LEMMA TokensEnd ==
  ASSUME tokens \in Inputs
  PROVE  /\ tokens \in Seq(TokenTypes) /\ EOFAt \in Nat
         /\ \A i \in 0 .. EOFAt : Token(i) = "EOF" <=> i = EOFAt
<1>1. /\ tokens \in Seq(TokenTypes) /\ Len(tokens) > 0
      /\ \A i \in 1 .. Len(tokens) : tokens[i] = "EOF" <=> i = Len(tokens)
  BY InputsAssumption DEF IsTokenArray
<1>2. EOFAt \in Nat /\ EOFAt + 1 = Len(tokens)
  BY <1>1 DEF EOFAt
<1>3. ASSUME NEW i \in 0 .. EOFAt
      PROVE  Token(i) = "EOF" <=> i = EOFAt
  BY <1>1, <1>2 DEF Token, At
<1> QED
  BY <1>1, <1>2, <1>3

\* _findEnclosingTokenPosition stops behind the opening token, at the end token
\* at the latest.
LEMMA EndInside ==
  ASSUME EOFAt \in Nat, NEW start \in 0 .. EOFAt - 1
  PROVE  End(start) \in start + 1 .. EOFAt
<1> DEFINE stops == {i \in start + 1 .. EOFAt : i = EOFAt \/ Encloses(start, i)}
<1>1. stops \subseteq Nat /\ EOFAt \in stops
  OBVIOUS
<1>2. \E i \in stops : \A j \in stops : i <= j
  <2> HIDE DEF stops
  <2> QED BY <1>1, LeastExists
<1>3. End(start) = CHOOSE i \in stops : \A j \in stops : i <= j
  BY DEF End
<1>4. End(start) \in stops
  <2> HIDE DEF stops
  <2> QED BY <1>2, <1>3
<1> QED
  BY <1>4

\* There are three tokens between a pass and the end of the container: the key,
\* the colon and the value, or what malformed input has in their place.
LEMMA PassesInside ==
  ASSUME EOFAt \in Nat, NEW start \in 0 .. EOFAt - 1
  PROVE  Passes(start) \subseteq start .. End(start) - 3
<1>1. End(start) \in start + 1 .. EOFAt
  BY EndInside
<1>2. Separators(start) \subseteq start + 1 .. End(start) - 2
  BY DEF Separators, Scanned
<1>3. ASSUME NEW i \in Passes(start)
      PROVE  i \in start .. End(start) - 3
  <2>1. i \in {start} \cup Separators(start) /\ \E s \in Separators(start) : i < s
    BY <1>3 DEF Passes
  <2> QED
    BY <2>1, <1>1, <1>2
<1> QED
  BY <1>3

\* The token array does not change while it is parsed, nor do the positions.
LEMMA EndSame ==
  ASSUME tokens' = tokens
  PROVE  EOFAt' = EOFAt /\ \A s : End(s)' = End(s)
<1>1. \A s, i : OpenAt(s, i)' = OpenAt(s, i)
  BY Zenon DEF OpenAt, Token
<1>2. \A s, i : Encloses(s, i)' = Encloses(s, i)
  BY <1>1 DEF Encloses, Token
<1>3. EOFAt' = EOFAt
  BY DEF EOFAt
<1> QED
  BY <1>2, <1>3, Zenon DEF End

-----------------------------------------------------------------------------
(* The parts of a step *)

\* What is left of a sequence when its last elements are taken away.
LEMMA Shortened ==
  ASSUME NEW S, NEW s \in Seq(S), NEW n \in Nat, n <= Len(s)
  PROVE  /\ SubSeq(s, 1, n) \in Seq(S) /\ Len(SubSeq(s, 1, n)) = n
         /\ \A i \in 1 .. n : SubSeq(s, 1, n)[i] = s[i]
<1>1. SubSeq(s, 1, n) \in Seq(S)
  BY SMT
<1>2. Len(SubSeq(s, 1, n)) = n
  BY SMT
<1>3. \A i \in 1 .. n : SubSeq(s, 1, n)[i] = s[i]
  BY SMT
<1> QED
  BY <1>1, <1>2, <1>3

\* What holds of the next stack and members in the positions of this state holds
\* in those of the next, which are the same.
LEMMA StepOK ==
  ASSUME Inv, tokens' = tokens, StackOK(stack'), members' \subseteq Members,
         stage' \in {"called", "building", "cleaned", "crashed"}
  PROVE  Inv'
<1>1. EOFAt' = EOFAt /\ \A s : End(s)' = End(s)
  BY EndSame
<1>2. Positions' = Positions /\ Frames' = Frames /\ Members' = Members
  BY <1>1 DEF Positions, Frames, Members, Main, NoKey
<1>3. StackOK(stack)'
  BY <1>1, <1>2 DEF StackOK
<1> QED
  BY <1>2, <1>3 DEF Inv

\* A pass that is taken from the frame on top leaves the stack as it should be;
\* it has three tokens behind it and then the end of the container.
LEMMA BelowOK ==
  ASSUME Inv, stack # << >>, NEW i \in Top.todo
  PROVE  /\ StackOK(Below(i)) /\ Len(Below(i)) = Len(stack) /\ Len(stack) \in Nat \ {0}
         /\ Below(i)[Len(stack)].start = Top.start
         /\ Top.start \in Positions /\ i \in Top.start .. EOFAt - 4 /\ EOFAt \in Nat
<1>1. StackOK(stack) /\ EOFAt \in Nat
  BY TokensEnd DEF Inv
<1>2. stack \in Seq(Frames) /\ Len(stack) \in Nat \ {0}
  BY <1>1 DEF StackOK
<1>3. Top = stack[Len(stack)] /\ Top \in Frames
  BY <1>2 DEF Top
<1>4. End(Top.start) \in Int /\ i \in Top.start .. End(Top.start) - 3
  <2>1. Top.start \in 0 .. EOFAt - 1
    BY <1>3 DEF Frames, Positions
  <2>2. End(Top.start) \in Int
    BY <1>1, <2>1, EndInside
  <2>3. Top.todo \subseteq Top.start .. End(Top.start) - 3
    BY <1>1, <1>2, <1>3 DEF StackOK
  <2> QED
    BY <2>2, <2>3
<1>5. Top.start \in Positions /\ i \in Top.start .. EOFAt - 4
  BY <1>1, <1>2, <1>3, <1>4 DEF StackOK, Frames, Positions
<1> DEFINE top == [Top EXCEPT !.todo = @ \ {i}]
<1>6. Below(i) = [stack EXCEPT ![Len(stack)] = top]
  BY <1>3 DEF Below, PassDone
<1>7. top \in Frames /\ top.start = Top.start /\ top.todo \subseteq Top.todo
  BY <1>3 DEF Frames
<1> HIDE DEF top
<1>8. /\ Below(i) \in Seq(Frames) /\ Len(Below(i)) = Len(stack)
      /\ Below(i)[Len(stack)] = top
      /\ \A k \in 1 .. Len(stack) : k # Len(stack) => Below(i)[k] = stack[k]
  BY <1>2, <1>6, <1>7
<1>9. \A k \in 1 .. Len(stack) : /\ Below(i)[k].start = stack[k].start
                                /\ Below(i)[k].todo \subseteq stack[k].todo
  BY <1>3, <1>7, <1>8
<1>10. StackOK(Below(i))
  BY <1>1, <1>2, <1>8, <1>9 DEF StackOK
<1> QED
  BY <1>1, <1>2, <1>5, <1>7, <1>8, <1>10

\* A call adds a frame that starts behind the others, or none, and a member.
LEMMA CallOK ==
  ASSUME EOFAt \in Nat, members \subseteq Members,
         NEW below, StackOK(below),
         NEW at \in Positions, below = << >> \/ below[Len(below)].start < at,
         NEW in, NEW key, NEW opener, Call(in, key, at, opener, below),
         \A as \in {"container", "NULL"} : Member(in, key, at, as) \in Members
  PROVE  StackOK(stack') /\ members' \subseteq Members
<1>1. members' \subseteq Members
  BY DEF Call
<1>2. CASE stack' = below
  BY <1>1, <1>2
<1>3. CASE stack' = Append(below, [start |-> at, todo |-> Passes(at)]) /\ End(at) # EOFAt
  <2> DEFINE frame == [start |-> at, todo |-> Passes(at)]
  <2>1. /\ End(at) \in at + 1 .. EOFAt /\ End(at) # EOFAt
        /\ Passes(at) \subseteq at .. End(at) - 3
    BY <1>3, EndInside, PassesInside DEF Positions
  <2>2. Passes(at) \in SUBSET (0 .. EOFAt - 4)
    BY <2>1 DEF Positions
  <2>3. frame \in Frames /\ frame.start = at /\ frame.todo = Passes(at)
    BY <2>2 DEF Frames
  <2> HIDE DEF frame
  <2>4. below \in Seq(Frames) /\ Len(below) \in Nat
    BY DEF StackOK
  <2>5. /\ stack' \in Seq(Frames) /\ Len(stack') = Len(below) + 1
        /\ stack'[Len(below) + 1] = frame
        /\ \A k \in 1 .. Len(below) : stack'[k] = below[k]
    BY <1>3, <2>3, <2>4 DEF frame
  <2>6. ASSUME NEW k \in 1 .. Len(stack')
        PROVE  /\ End(stack'[k].start) < EOFAt
               /\ stack'[k].todo \subseteq stack'[k].start .. End(stack'[k].start) - 3
    <3>1. CASE k = Len(below) + 1
      BY <3>1, <2>1, <2>3, <2>5
    <3>2. CASE k \in 1 .. Len(below)
      BY <3>2, <2>5 DEF StackOK
    <3> QED
      BY <3>1, <3>2, <2>4, <2>5
  <2>7. ASSUME NEW k \in 2 .. Len(stack')
        PROVE  stack'[k - 1].start < stack'[k].start
    <3>1. CASE k = Len(below) + 1
      <4>1. below # << >> /\ k - 1 = Len(below)
        BY <3>1, <2>4
      <4> QED
        BY <3>1, <4>1, <2>3, <2>4, <2>5
    <3>2. CASE k \in 2 .. Len(below)
      BY <3>2, <2>4, <2>5 DEF StackOK
    <3> QED
      BY <3>1, <3>2, <2>4, <2>5
  <2> QED
    BY <1>1, <2>5, <2>6, <2>7 DEF StackOK
<1> QED
  BY <1>1, <1>2, <1>3 DEF Call

-----------------------------------------------------------------------------
(* The steps *)

\* main's call, on the first token.
LEMMA StartOK ==
  ASSUME Inv, Start
  PROVE  Inv'
<1>1. /\ tokens' = tokens /\ stage' = "building"
      /\ Call(Main, NoKey, 0, "{", << >>)
  BY DEF Start
<1>2. EOFAt \in Nat /\ \A i \in 0 .. EOFAt : Token(i) = "EOF" <=> i = EOFAt
  BY TokensEnd DEF Inv
<1>3. \A as \in {"container", "NULL"} : Member(Main, NoKey, 0, as) \in Members
  BY DEF Member, Members
<1>4. StackOK(<< >>)
  BY DEF StackOK
<1>5. CASE Token(0) = "{"
  <2>1. 0 # EOFAt
    <3>1. Token(EOFAt) = "EOF"
      BY <1>2
    <3>2. Token(0) # "EOF"
      BY <1>5
    <3> QED
      BY <3>1, <3>2, Zenon
  <2>2. 0 \in Positions
    BY <1>2, <2>1 DEF Positions
  <2>3. StackOK(stack') /\ members' \subseteq Members
    BY <1>1, <1>2, <1>3, <1>4, <2>2, CallOK DEF Inv
  <2> QED
    BY <1>1, <2>3, StepOK
<1>6. CASE Token(0) # "{"
  <2>1. stack' = << >> /\ members' \subseteq Members
    BY <1>1, <1>3, <1>6 DEF Call, Inv
  <2> QED
    BY <1>1, <1>4, <2>1, StepOK
<1> QED
  BY <1>5, <1>6

\* A pass of parseObject or parseArray, with the calls it makes.
LEMMA PassOK ==
  ASSUME Inv, Pass
  PROVE  Inv'
<1>1. /\ tokens' = tokens /\ stage = "building" /\ stack # << >>
  BY DEF Pass
<1>2. PICK i \in Top.todo : PropertyPass(i) \/ ElementPass(i)
  BY DEF Pass
<1>3. /\ StackOK(Below(i)) /\ Len(Below(i)) = Len(stack) /\ Len(stack) \in Nat \ {0}
      /\ Below(i)[Len(stack)].start = Top.start
      /\ Top.start \in Positions /\ i \in Top.start .. EOFAt - 4 /\ EOFAt \in Nat
  BY <1>1, BelowOK
<1>4. /\ i + 1 \in Positions /\ i + 1 \in 1 .. EOFAt - 1 /\ Top.start < i + 1
      /\ i + 3 \in Positions /\ i + 3 \in 1 .. EOFAt - 1 /\ Top.start < i + 3
      /\ NoKey \in Positions
  BY <1>3 DEF Positions, NoKey
<1>5. \A key \in {NoKey, i + 1}, at \in {i + 1, i + 3},
         as \in {"container", "NULL", "simple", "untyped"} :
        Member(Top.start, key, at, as) \in Members
  BY <1>3, <1>4 DEF Member, Members
<1>6. ASSUME NEW key \in {NoKey, i + 1}, NEW at \in {i + 1, i + 3}, NEW opener,
             Call(Top.start, key, at, opener, Below(i))
      PROVE  StackOK(stack') /\ members' \subseteq Members
  <2>1. \A as \in {"container", "NULL"} : Member(Top.start, key, at, as) \in Members
    BY <1>5
  <2>2. at \in Positions /\ Below(i)[Len(Below(i))].start < at
    BY <1>3, <1>4
  <2>3. members \subseteq Members
    BY DEF Inv
  <2> QED
    BY <1>3, <1>6, <2>1, <2>2, <2>3, CallOK
<1>7. ASSUME NEW key \in {NoKey, i + 1}, NEW at \in {i + 1, i + 3},
             ParseValue(Top.start, key, at, Below(i))
      PROVE  /\ stage' \in {stage, "crashed"}
             /\ StackOK(stack') /\ members' \subseteq Members
  BY <1>3, <1>5, <1>7 DEF ParseValue, ReadThroughNULL, Inv
<1>8. /\ stage' \in {"called", "building", "cleaned", "crashed"}
      /\ StackOK(stack') /\ members' \subseteq Members
  <2>1. CASE PropertyPass(i) /\ Token(i + 1) \notin Literals
    BY <2>1 DEF PropertyPass, ReadThroughNULL, Inv
  <2>2. CASE PropertyPass(i) /\ Token(i + 1) \in Literals
    BY <1>1, <1>6, <1>7, <2>2 DEF PropertyPass, ValueOf
  <2>3. CASE ElementPass(i)
    BY <1>1, <1>6, <1>7, <2>3 DEF ElementPass, Element
  <2> QED
    BY <1>2, <2>1, <2>2, <2>3
<1> QED
  BY <1>1, <1>8, StepOK

\* The return of a call takes its frame from the stack.
LEMMA ReturnOK ==
  ASSUME Inv, Return
  PROVE  Inv'
<1>1. StackOK(stack) /\ stack \in Seq(Frames) /\ Len(stack) \in Nat \ {0}
  BY DEF Inv, StackOK, Return
<1>2. /\ stack' \in Seq(Frames) /\ Len(stack') = Len(stack) - 1
      /\ \A k \in 1 .. Len(stack) - 1 : stack'[k] = stack[k]
  <2> DEFINE last == Len(stack) - 1
  <2>1. stack' = SubSeq(stack, 1, last)
    BY DEF Return
  <2>2. last \in Nat /\ last <= Len(stack)
    BY <1>1
  <2> HIDE DEF last
  <2>3. /\ SubSeq(stack, 1, last) \in Seq(Frames) /\ Len(SubSeq(stack, 1, last)) = last
        /\ \A i \in 1 .. last : SubSeq(stack, 1, last)[i] = stack[i]
    BY <1>1, <2>2, Shortened, Zenon
  <2> QED
    BY <2>1, <2>3, Zenon DEF last
<1>3. StackOK(stack')
  BY <1>1, <1>2 DEF StackOK
<1> QED
  BY <1>3, StepOK DEF Return, Inv

\* The cleanup, and a step that changes nothing.
LEMMA OtherOK ==
  ASSUME Inv, Cleanup \/ UNCHANGED vars
  PROVE  Inv'
<1>1. /\ UNCHANGED <<tokens, stack, members>>
      /\ stage' \in {"called", "building", "cleaned", "crashed"}
  BY DEF Cleanup, vars, Inv
<1>2. StackOK(stack') /\ members' \subseteq Members
  BY <1>1 DEF Inv
<1> QED
  BY <1>1, <1>2, StepOK

-----------------------------------------------------------------------------
(* The theorems *)

\* The invariant holds in every reachable state of the parser.
THEOREM InvCorrect == Spec => []Inv
<1>1. Init => Inv
  BY DEF Init, Inv, StackOK
<1>2. Inv /\ [Next]_vars => Inv'
  BY StartOK, PassOK, ReturnOK, OtherOK DEF Next
<1> QED
  BY <1>1, <1>2, PTL DEF Spec

\* The parser keeps the types of its variables.
THEOREM TypeCorrect == Spec => []TypeOK
<1>1. Inv => TypeOK
  BY TokensEnd DEF Inv, StackOK, Frames, Members, Positions, TypeOK
<1> QED
  BY <1>1, InvCorrect, PTL

\* No pass of parseObject or parseArray reads behind the end of its container,
\* for a token array of any length, well-formed or not.
THEOREM IndexesCorrect == Spec => []IndexesInside
<1>1. ASSUME Inv, NEW k \in 1 .. Len(stack)
      PROVE  LET start == stack[k].start
             IN  /\ End(start) < EOFAt
                 /\ \A i \in stack[k].todo : start <= i /\ i + 3 <= End(start)
  <2>1. StackOK(stack) /\ EOFAt \in Nat
    BY <1>1, TokensEnd DEF Inv
  <2>2. stack[k] \in Frames
    BY <2>1 DEF StackOK
  <2>3. stack[k].start \in 0 .. EOFAt - 1
    BY <2>2 DEF Frames, Positions
  <2>4. End(stack[k].start) \in Int
    BY <2>1, <2>3, EndInside
  <2>5. /\ End(stack[k].start) < EOFAt
        /\ stack[k].todo \subseteq stack[k].start .. End(stack[k].start) - 3
    BY <2>1 DEF StackOK
  <2> QED
    BY <2>3, <2>4, <2>5
<1>2. Inv => IndexesInside
  BY <1>1 DEF IndexesInside
<1> QED
  BY <1>2, InvCorrect, PTL

\* The recursion goes forward in the token array, so its depth is bounded by the
\* length of the text.
THEOREM NestingCorrect == Spec => []NestingAdvances
<1>1. Inv => NestingAdvances
  BY DEF Inv, StackOK, NestingAdvances
<1> QED
  BY <1>1, InvCorrect, PTL

-----------------------------------------------------------------------------
(* Nesting levels *)

\* The text is well-formed; and the words of module JsonGrammar, by positions of it.
Fine == tokens \in WellFormedInputs
Depth(p) == Level(tokens, p)
Around(q, p) == Surrounds(tokens, q, p)
Opener(p) == Token(p) \in Openers
Closer(p) == Token(p) \in Closers

\* How many of the positions in P there are from a to b.
Count(P, a, b) == Cardinality(P \cap (a .. b))

\* A count over a stretch of positions grows with the stretch.
LEMMA CountNext ==
  ASSUME NEW P, NEW a \in Int, NEW b \in Int
  PROVE  /\ Count(P, a, b) \in Nat
         /\ b >= a - 1 => Count(P, a, b + 1) = Count(P, a, b) + IF b + 1 \in P THEN 1 ELSE 0
<1> DEFINE S == P \cap (a .. b)
<1>1. IsFiniteSet(S) /\ Cardinality(S) \in Nat
  <2>1. IsFiniteSet(a .. b)
    BY FS_Interval
  <2>2. IsFiniteSet(S)
    BY <2>1, FS_Subset
  <2> QED
    BY <2>2, FS_CardinalityType
<1>2. ASSUME b >= a - 1
      PROVE  Cardinality(P \cap (a .. b + 1)) = Cardinality(S) + IF b + 1 \in P THEN 1 ELSE 0
  <2>1. CASE b + 1 \in P
    <3>1. P \cap (a .. b + 1) = S \cup {b + 1} /\ b + 1 \notin S
      BY <1>2, <2>1
    <3> HIDE DEF S
    <3> QED
      BY <1>1, <2>1, <3>1, FS_AddElement
  <2>2. CASE b + 1 \notin P
    <3>1. P \cap (a .. b + 1) = S
      BY <1>2, <2>2
    <3> QED
      BY <1>1, <2>2, <3>1
  <2> QED
    BY <2>1, <2>2
<1> QED
  BY <1>1, <1>2 DEF Count

\* What stands at p takes the level up, down, or leaves it.
LevelStep(p) ==
  /\ Opener(p) => Depth(p + 1) = Depth(p) + 1
  /\ Closer(p) => Depth(p + 1) = Depth(p) - 1
  /\ ~Opener(p) /\ ~Closer(p) => Depth(p + 1) = Depth(p)

\* A token takes the level up, down, or leaves it.
LEMMA LevelNext ==
  ASSUME NEW p \in Nat
  PROVE  Depth(p) \in Int /\ LevelStep(p)
<1> DEFINE O == {k \in Nat : Opener(k)}
           C == {k \in Nat : Closer(k)}
<1>1. ASSUME NEW n \in Nat
      PROVE  Depth(n) = Count(O, 0, n - 1) - Count(C, 0, n - 1)
  <2>1. {k \in 0 .. n - 1 : At(tokens, k) \in Openers} = O \cap (0 .. n - 1)
    BY DEF Opener, Token
  <2>2. {k \in 0 .. n - 1 : At(tokens, k) \in Closers} = C \cap (0 .. n - 1)
    BY DEF Closer, Token
  <2> QED
    BY <2>1, <2>2 DEF Depth, Level, Count
<1>2. PICK b \in Int : b = p - 1
  OBVIOUS
<1>3. p \in O <=> Opener(p)
  OBVIOUS
<1>4. p \in C <=> Closer(p)
  OBVIOUS
<1>5. ~(Opener(p) /\ Closer(p))
  BY DEF Opener, Closer, Openers, Closers
<1>6. Depth(p) = Count(O, 0, b) - Count(C, 0, b)
  BY <1>1, <1>2
<1>7. Depth(p + 1) = Count(O, 0, b + 1) - Count(C, 0, b + 1)
  <2>1. p + 1 \in Nat /\ (p + 1) - 1 = b + 1
    BY <1>2
  <2>2. Depth(p + 1) = Count(O, 0, (p + 1) - 1) - Count(C, 0, (p + 1) - 1)
    BY <2>1, <1>1
  <2> QED
    BY <2>1, <2>2
<1> HIDE DEF O, C
<1>8. 0 \in Int /\ b >= 0 - 1 /\ b + 1 = p
  BY <1>2
<1>9. /\ Count(O, 0, b) \in Nat
      /\ Count(O, 0, b + 1) =
           Count(O, 0, b) + IF b + 1 \in O THEN 1 ELSE 0
  BY <1>8, CountNext
<1>10. /\ Count(C, 0, b) \in Nat
       /\ Count(C, 0, b + 1) =
            Count(C, 0, b) + IF b + 1 \in C THEN 1 ELSE 0
  BY <1>8, CountNext
<1> QED
  BY <1>3, <1>4, <1>5, <1>6, <1>7, <1>8, <1>9, <1>10 DEF LevelStep

\* Nothing is open before the first token.
LEMMA LevelZero == Depth(0) = 0
<1>1. {k \in 0 .. 0 - 1 : At(tokens, k) \in Openers} = {}
  OBVIOUS
<1>2. {k \in 0 .. 0 - 1 : At(tokens, k) \in Closers} = {}
  OBVIOUS
<1> QED
  BY <1>1, <1>2, FS_EmptySet DEF Depth, Level

\* What is known of a well-formed text, by positions.
LEMMA FineText ==
  ASSUME Fine
  PROVE  /\ tokens \in Inputs /\ EOFAt \in Nat \ {0}
         /\ Token(0) = "{" /\ Depth(EOFAt) = 0
         /\ \A p \in 1 .. EOFAt - 1 : \E q \in 0 .. p - 1 : Around(q, p) /\ Follows(tokens, q, p)
<1>1. tokens \in Inputs /\ WellFormed(tokens)
  BY DEF Fine, WellFormedInputs
<1>2. EOFAt \in Nat /\ (Token(0) = "EOF" <=> 0 = EOFAt)
  <2>1. EOFAt \in Nat /\ \A i \in 0 .. EOFAt : Token(i) = "EOF" <=> i = EOFAt
    BY <1>1, TokensEnd
  <2> QED
    BY <2>1
<1>3. Token(0) = "{" /\ Depth(EOFAt) = 0
  BY <1>1 DEF WellFormed, Token, Depth, EOFAt
<1>4. \A p \in 1 .. EOFAt - 1 : \E q \in 0 .. p - 1 : Around(q, p) /\ Follows(tokens, q, p)
  BY <1>1 DEF WellFormed, Around, EOFAt
<1>5. EOFAt # 0
  BY <1>2, <1>3
<1> QED
  BY <1>1, <1>2, <1>3, <1>4, <1>5

\* Surrounds, in the words of these lemmas.
LEMMA AroundIs ==
  ASSUME NEW q, NEW p
  PROVE  Around(q, p) <=> /\ q < p /\ Opener(q) /\ Depth(p) = Depth(q) + 1
                          /\ \A r \in q + 1 .. p : Depth(r) >= Depth(q) + 1
  BY DEF Around, Surrounds, Opener, Token, Depth

\* No position is in two containers that are both the innermost.
LEMMA AroundOnce ==
  ASSUME NEW q1 \in Nat, NEW q2 \in Nat, NEW p \in Nat, Around(q1, p), Around(q2, p)
  PROVE  q1 = q2
<1>1. /\ q1 < p /\ Depth(p) = Depth(q1) + 1
      /\ \A r \in q1 + 1 .. p : Depth(r) >= Depth(q1) + 1
  BY AroundIs
<1>2. /\ q2 < p /\ Depth(p) = Depth(q2) + 1
      /\ \A r \in q2 + 1 .. p : Depth(r) >= Depth(q2) + 1
  BY AroundIs
<1>3. Depth(q1) \in Int /\ Depth(q2) \in Int
  BY LevelNext
<1>4. ~(q1 < q2)
  BY <1>1, <1>2, <1>3
<1>5. ~(q2 < q1)
  BY <1>1, <1>2, <1>3
<1> QED
  BY <1>4, <1>5

\* A token follows the grammar in the container that is around it.
LEMMA FollowsAround ==
  ASSUME Fine, NEW p \in 1 .. EOFAt - 1, NEW q \in Nat, Around(q, p)
  PROVE  Follows(tokens, q, p)
<1>1. PICK o \in 0 .. p - 1 : Around(o, p) /\ Follows(tokens, o, p)
  BY FineText
<1>2. EOFAt \in Nat
  BY FineText
<1>3. o \in Nat /\ p \in Nat
  BY <1>2
<1>4. o = q
  BY <1>1, <1>3, AroundOnce
<1> QED
  BY <1>1, <1>4

\* The level is never below zero.
LEMMA LevelNat ==
  ASSUME Fine, NEW p \in 0 .. EOFAt
  PROVE  Depth(p) \in Nat
<1> DEFINE Below0 == {k \in 0 .. EOFAt : Depth(k) < 0}
<1>1. EOFAt \in Nat \ {0} /\ \A k \in 0 .. EOFAt : Depth(k) \in Int
  <2>1. EOFAt \in Nat \ {0}
    BY FineText
  <2>2. \A k \in 0 .. EOFAt : k \in Nat
    BY <2>1
  <2> QED
    BY <2>1, <2>2, LevelNext
<1>2. SUFFICES Below0 = {}
  BY <1>1
<1>3. SUFFICES ASSUME Below0 # {} PROVE FALSE
  OBVIOUS
<1>4. Below0 \subseteq Nat
  BY <1>1
<1>5. PICK k \in Below0 : \A j \in Below0 : k <= j
  <2> HIDE DEF Below0
  <2> QED BY <1>3, <1>4, LeastExists
<1>6. k # 0 /\ k # EOFAt
  <2>1. Depth(0) = 0 /\ Depth(EOFAt) = 0
    BY FineText, LevelZero
  <2>2. Depth(k) < 0
    BY <1>5
  <2> QED
    BY <2>1, <2>2
<1>7. k \in 1 .. EOFAt - 1
  BY <1>1, <1>6
<1>8. PICK q \in 0 .. k - 1 : Around(q, k)
  BY <1>7, FineText
<1>9. Depth(k) = Depth(q) + 1
  BY <1>8, AroundIs
<1>10. Depth(q) \in Int /\ q \in 0 .. EOFAt
  BY <1>1, <1>7
<1>11. Depth(q) < 0
  BY <1>9, <1>10, <1>1
<1> QED
  BY <1>5, <1>10, <1>11, <1>7

-----------------------------------------------------------------------------
(* Where a container ends *)

Pair(q, c) == <<Token(q), Token(c)>> \in {<<"{", "}">>, <<"[", "]">>}

\* The container that begins at q ends at c.
Closes(q, c) ==
  /\ q \in 0 .. EOFAt - 1 /\ c \in q + 1 .. EOFAt - 1
  /\ Opener(q) /\ Pair(q, c)
  /\ Depth(c) = Depth(q) + 1 /\ Depth(c + 1) = Depth(q)
  /\ \A r \in q + 1 .. c : Depth(r) >= Depth(q) + 1

\* A closing token is the one of the container around it.
LEMMA CloserPairs ==
  ASSUME Fine, NEW p \in 1 .. EOFAt - 1, NEW q \in Nat, Around(q, p), Closer(p)
  PROVE  Pair(q, p)
<1>1. Follows(tokens, q, p)
  BY FollowsAround
<1>2. At(tokens, p) \in Closers
  BY DEF Closer, Token
<1> QED
  BY <1>1, <1>2 DEF Follows, Pair, Token, Closers, Openers, Simple, Literals, Words

\* Every container has an end.
LEMMA ClosesExists ==
  ASSUME Fine, NEW q \in 0 .. EOFAt - 1, Opener(q)
  PROVE  \E c : Closes(q, c)
<1> DEFINE Down == {k \in q + 1 .. EOFAt - 1 : Depth(k + 1) <= Depth(q)}
<1>1. EOFAt \in Nat /\ Depth(EOFAt) = 0
  BY FineText
<1>2. \A k \in 0 .. EOFAt : Depth(k) \in Nat
  BY LevelNat
<1>3. \A k \in 0 .. EOFAt - 1 : LevelStep(k)
  BY <1>1, LevelNext
<1>4. Depth(q + 1) = Depth(q) + 1
  BY <1>3 DEF LevelStep
<1>5. q + 1 \in 1 .. EOFAt - 1
  <2>1. q + 1 # EOFAt
    BY <1>1, <1>2, <1>4
  <2> QED
    BY <2>1, <1>1
<1>6. EOFAt - 1 \in Down
  <2>1. (EOFAt - 1) + 1 = EOFAt /\ EOFAt - 1 \in q + 1 .. EOFAt - 1
    BY <1>1, <1>5
  <2>2. Depth(EOFAt) <= Depth(q)
    BY <1>1, <1>2
  <2> QED
    BY <2>1, <2>2
<1>7. Down \subseteq Nat
  OBVIOUS
<1>8. PICK c \in Down : \A k \in Down : c <= k
  <2> HIDE DEF Down
  <2> QED BY <1>6, <1>7, LeastExists
<1>9. c \in q + 1 .. EOFAt - 1 /\ c \in Nat /\ c + 1 \in 0 .. EOFAt /\ Depth(c + 1) <= Depth(q)
  BY <1>1, <1>8
<1>10. ASSUME NEW r \in q + 1 .. c
       PROVE  Depth(r) >= Depth(q) + 1
  <2>1. CASE r = q + 1
    <3>1. Depth(q) \in Nat
      BY <1>1, <1>2
    <3> QED
      BY <2>1, <3>1, <1>4
  <2>2. CASE r # q + 1
    <3>1. r - 1 \in q + 1 .. EOFAt - 1 /\ r - 1 < c /\ (r - 1) + 1 = r /\ r \in 0 .. EOFAt
      BY <2>2, <1>9, <1>1
    <3>2. ~(Depth(r) <= Depth(q))
      BY <3>1, <1>8, <1>9
    <3>3. Depth(r) \in Nat /\ Depth(q) \in Nat
      BY <3>1, <1>2, <1>1
    <3> QED
      BY <3>2, <3>3
  <2> QED
    BY <2>1, <2>2
<1>11. Depth(c) >= Depth(q) + 1 /\ Depth(c) \in Nat /\ Depth(c + 1) \in Nat /\ Depth(q) \in Nat
  <2>1. c \in q + 1 .. c /\ c \in 0 .. EOFAt /\ q \in 0 .. EOFAt
    BY <1>9, <1>1
  <2> QED
    BY <2>1, <1>2, <1>9, <1>10
<1>12. LevelStep(c)
  BY <1>3, <1>9, <1>1
<1>13. Closer(c) /\ Depth(c) = Depth(q) + 1 /\ Depth(c + 1) = Depth(q)
  BY <1>9, <1>11, <1>12 DEF LevelStep
<1>14. Around(q, c)
  <2>1. q < c
    BY <1>9
  <2> QED
    BY <2>1, <1>10, <1>13, AroundIs
<1>15. Pair(q, c)
  BY <1>9, <1>13, <1>14, CloserPairs
<1> QED
  BY <1>9, <1>10, <1>13, <1>15 DEF Closes

-----------------------------------------------------------------------------
(* The containers that are open in a scan *)

Kinds == {"{", "["}
CloseOf(kind) == IF kind = "{" THEN "}" ELSE "]"

\* The containers of a kind that open behind start and are open before i.
OpenOf(start, i, kind) ==
  {r \in start + 1 .. i - 1 : Token(r) = kind /\ \A k \in r + 1 .. i : Depth(k) > Depth(r)}

NumOpen(start, i, kind) == Cardinality(OpenOf(start, i, kind))

\* There are finitely many of them.
LEMMA OpenFinite ==
  ASSUME NEW start \in Int, NEW i \in Int, NEW kind
  PROVE  IsFiniteSet(OpenOf(start, i, kind)) /\ NumOpen(start, i, kind) \in Nat
<1>1. IsFiniteSet(start + 1 .. i - 1)
  BY FS_Interval
<1>2. IsFiniteSet(OpenOf(start, i, kind))
  BY <1>1, FS_Subset DEF OpenOf
<1> QED
  BY <1>2, FS_CardinalityType DEF NumOpen

\* The closing token of a container inside another closes what the other has open.
LEMMA ClosesInside ==
  ASSUME Fine, NEW start, NEW c, Closes(start, c), NEW i \in start + 1 .. c - 1, Closer(i)
  PROVE  \E o \in start + 1 .. i - 1 : Around(o, i) /\ Pair(o, i)
<1>1. /\ start \in 0 .. EOFAt - 1 /\ c \in start + 1 .. EOFAt - 1 /\ EOFAt \in Nat
      /\ i \in 1 .. EOFAt - 1 /\ i + 1 \in 0 .. EOFAt
  <2>1. EOFAt \in Nat
    BY FineText
  <2> QED
    BY <2>1 DEF Closes
<1>2. PICK o \in 0 .. i - 1 : Around(o, i)
  BY <1>1, FineText
<1>3. /\ Depth(i) = Depth(o) + 1
      /\ \A r \in o + 1 .. i : Depth(r) >= Depth(o) + 1
  BY <1>2, AroundIs
<1>4. Depth(i) \in Nat /\ Depth(o) \in Nat /\ Depth(start) \in Nat /\ Depth(i + 1) \in Nat
  <2>1. o \in 0 .. EOFAt /\ i \in 0 .. EOFAt /\ start \in 0 .. EOFAt
    BY <1>1
  <2> QED
    BY <1>1, <2>1, LevelNat
<1>5. Depth(i + 1) = Depth(i) - 1
  <2>1. LevelStep(i)
    BY <1>1, LevelNext
  <2> QED
    BY <2>1 DEF LevelStep
<1>6. Depth(i) >= Depth(start) + 1 /\ Depth(i + 1) >= Depth(start) + 1
  <2>1. i \in start + 1 .. c /\ i + 1 \in start + 1 .. c
    BY <1>1
  <2> QED
    BY <2>1 DEF Closes
<1>7. o # start
  BY <1>3, <1>4, <1>5, <1>6
<1>8. ~(o < start)
  <2> SUFFICES ASSUME o < start PROVE FALSE
    OBVIOUS
  <2>1. start \in o + 1 .. i
    BY <1>1
  <2>2. Depth(start) >= Depth(o) + 1
    BY <1>3, <2>1
  <2> QED
    BY <2>2, <1>3, <1>4, <1>6
<1>9. o \in start + 1 .. i - 1 /\ o \in Nat
  BY <1>1, <1>7, <1>8
<1>10. Pair(o, i)
  BY <1>1, <1>2, <1>9, CloserPairs
<1> QED
  BY <1>2, <1>9, <1>10

\* What a scan has open changes by the token it passes, and no token closes what is
\* not open.
OpenStep(start, i, kind) ==
  \/ Token(i) = kind /\ OpenOf(start, i + 1, kind) = OpenOf(start, i, kind) \cup {i}
  \/ /\ Token(i) = CloseOf(kind)
     /\ \E o \in OpenOf(start, i, kind) :
          OpenOf(start, i + 1, kind) = OpenOf(start, i, kind) \ {o}
  \/ /\ Token(i) \notin {kind, CloseOf(kind)}
     /\ OpenOf(start, i + 1, kind) = OpenOf(start, i, kind)

\* A token opens a container, closes one that is open, or does neither.
LEMMA OpenNext ==
  ASSUME Fine, NEW start, NEW c, Closes(start, c), NEW i \in start + 1 .. c - 1,
         NEW kind \in Kinds
  PROVE  OpenStep(start, i, kind)
<1>1. /\ start \in 0 .. EOFAt - 1 /\ c \in start + 1 .. EOFAt - 1 /\ EOFAt \in Nat
      /\ i \in 1 .. EOFAt - 1 /\ i + 1 \in 0 .. EOFAt /\ i \in Nat
  <2>1. EOFAt \in Nat
    BY FineText
  <2> QED
    BY <2>1 DEF Closes
<1>2. \A k \in 0 .. EOFAt : Depth(k) \in Nat
  BY LevelNat
<1>3. LevelStep(i)
  BY <1>1, LevelNext
<1>4. ASSUME NEW r
      PROVE  r \in OpenOf(start, i + 1, kind) <=>
               /\ r \in start + 1 .. i /\ Token(r) = kind
               /\ r = i \/ r \in OpenOf(start, i, kind)
               /\ Depth(i + 1) > Depth(r)
  <2>1. r \in OpenOf(start, i + 1, kind) <=>
          /\ r \in start + 1 .. i /\ Token(r) = kind
          /\ \A k \in r + 1 .. i + 1 : Depth(k) > Depth(r)
    BY <1>1 DEF OpenOf
  <2>2. r \in OpenOf(start, i, kind) <=>
          /\ r \in start + 1 .. i - 1 /\ Token(r) = kind
          /\ \A k \in r + 1 .. i : Depth(k) > Depth(r)
    BY DEF OpenOf
  <2>3. ASSUME r \in start + 1 .. i
        PROVE  (\A k \in r + 1 .. i + 1 : Depth(k) > Depth(r)) <=>
                 /\ \A k \in r + 1 .. i : Depth(k) > Depth(r)
                 /\ Depth(i + 1) > Depth(r)
    BY <2>3, <1>1
  <2>4. ASSUME r = i
        PROVE  \A k \in r + 1 .. i : Depth(k) > Depth(r)
    BY <2>4, <1>1
  <2>5. r \in start + 1 .. i <=> (r = i \/ r \in start + 1 .. i - 1)
    BY <1>1
  <2> QED
    BY <2>1, <2>2, <2>3, <2>4, <2>5
<1>5. \A r \in OpenOf(start, i, kind) :
         r \in start + 1 .. i - 1 /\ r \in 0 .. EOFAt /\ Token(r) = kind /\ Depth(i) > Depth(r)
  BY <1>1 DEF OpenOf
<1>6. kind \in Openers /\ CloseOf(kind) \in Closers
  BY DEF Kinds, CloseOf, Openers, Closers
<1>7. i \notin OpenOf(start, i, kind)
  BY <1>5, <1>1
<1>8. CASE Opener(i)
  <2>1. Depth(i + 1) = Depth(i) + 1
    BY <1>3, <1>8 DEF LevelStep
  <2>2. \A r \in OpenOf(start, i, kind) : Depth(i + 1) > Depth(r)
    BY <2>1, <1>1, <1>2, <1>5
  <2>3. Depth(i + 1) > Depth(i)
    BY <2>1, <1>1, <1>2
  <2>4. Token(i) # CloseOf(kind)
    BY <1>8 DEF Opener, Openers, CloseOf
  <2>5. CASE Token(i) = kind
    <3>1. \A r : r \in OpenOf(start, i + 1, kind) <=> r \in OpenOf(start, i, kind) \cup {i}
      BY <1>1, <1>4, <1>5, <2>2, <2>3, <2>5
    <3>2. OpenOf(start, i + 1, kind) = OpenOf(start, i, kind) \cup {i}
      BY <3>1, Zenon
    <3> QED
      BY <2>5, <3>2 DEF OpenStep
  <2>6. CASE Token(i) # kind
    <3>1. \A r : r \in OpenOf(start, i + 1, kind) <=> r \in OpenOf(start, i, kind)
      BY <1>1, <1>4, <1>5, <2>2, <2>6
    <3>2. OpenOf(start, i + 1, kind) = OpenOf(start, i, kind)
      BY <3>1, Zenon
    <3> QED
      BY <2>4, <2>6, <3>2 DEF OpenStep
  <2> QED
    BY <2>5, <2>6
<1>9. CASE Closer(i)
  <2>1. Depth(i + 1) = Depth(i) - 1
    BY <1>3, <1>9 DEF LevelStep
  <2>2. PICK o \in start + 1 .. i - 1 : Around(o, i) /\ Pair(o, i)
    BY <1>9, ClosesInside
  <2>3. Depth(i) = Depth(o) + 1 /\ \A r \in o + 1 .. i : Depth(r) >= Depth(o) + 1
    BY <2>2, AroundIs
  <2>4. o \in 0 .. EOFAt /\ o \in Nat /\ Depth(o) \in Nat /\ Depth(i) \in Nat
    BY <1>1, <1>2
  <2>5. Depth(i + 1) = Depth(o)
    BY <2>1, <2>3, <2>4
  <2>6. ASSUME NEW r \in OpenOf(start, i, kind), r # o
        PROVE  Depth(i + 1) > Depth(r)
    <3>1. /\ r \in start + 1 .. i - 1 /\ Opener(r) /\ r \in Nat /\ Depth(r) \in Nat
          /\ \A k \in r + 1 .. i : Depth(k) > Depth(r)
      BY <1>1, <1>2, <1>6 DEF OpenOf, Opener
    <3>2. CASE Depth(i) = Depth(r) + 1
      <4>1. \A k \in r + 1 .. i : Depth(k) >= Depth(r) + 1
        <5>1. \A k \in r + 1 .. i : Depth(k) \in Nat
          BY <1>1, <1>2, <3>1
        <5> QED
          BY <3>1, <5>1
      <4>2. Around(r, i)
        <5>1. r < i
          BY <3>1
        <5> QED
          BY <3>1, <3>2, <4>1, <5>1, AroundIs
      <4> QED
        BY <4>2, <2>2, <2>4, <2>6, <3>1, <1>1, AroundOnce
    <3>3. CASE Depth(i) # Depth(r) + 1
      <4>1. Depth(i) > Depth(r)
        BY <1>5
      <4> QED
        BY <3>1, <3>3, <4>1, <2>1, <2>4
    <3> QED
      BY <3>2, <3>3
  <2>7. Token(i) # kind
    BY <1>9, <1>6 DEF Closer, Closers, Openers
  <2>8. CASE Token(i) = CloseOf(kind)
    <3>1. Token(o) = kind
      BY <2>2, <2>8 DEF Pair, CloseOf, Kinds
    <3>2. o \in OpenOf(start, i, kind)
      <4>1. \A k \in o + 1 .. i : Depth(k) > Depth(o)
        <5>1. \A k \in o + 1 .. i : Depth(k) \in Nat
          BY <1>1, <1>2, <2>4
        <5> QED
          BY <2>3, <2>4, <5>1
      <4> QED
        BY <3>1, <4>1 DEF OpenOf
    <3>3. ~(Depth(i + 1) > Depth(o))
      BY <2>4, <2>5
    <3>4. \A r : r \in OpenOf(start, i + 1, kind) <=> r \in OpenOf(start, i, kind) \ {o}
      <4>1. ASSUME NEW r, r \in OpenOf(start, i + 1, kind)
            PROVE  r \in OpenOf(start, i, kind) \ {o}
        BY <4>1, <1>4, <3>3, <2>7
      <4>2. ASSUME NEW r, r \in OpenOf(start, i, kind) \ {o}
            PROVE  r \in OpenOf(start, i + 1, kind)
        <5>1. r \in start + 1 .. i /\ Token(r) = kind
          BY <4>2, <1>1, <1>5
        <5>2. Depth(i + 1) > Depth(r)
          BY <4>2, <2>6
        <5> QED
          BY <4>2, <5>1, <5>2, <1>4
      <4> QED
        BY <4>1, <4>2
    <3>5. OpenOf(start, i + 1, kind) = OpenOf(start, i, kind) \ {o}
      BY <3>4, Zenon
    <3> QED
      BY <2>8, <3>2, <3>5 DEF OpenStep
  <2>9. CASE Token(i) # CloseOf(kind)
    <3>1. Token(o) # kind
      BY <2>2, <2>9 DEF Pair, CloseOf, Kinds
    <3>2. \A r : r \in OpenOf(start, i + 1, kind) <=> r \in OpenOf(start, i, kind)
      <4>1. ASSUME NEW r, r \in OpenOf(start, i + 1, kind)
            PROVE  r \in OpenOf(start, i, kind)
        BY <4>1, <1>4, <2>7
      <4>2. ASSUME NEW r, r \in OpenOf(start, i, kind)
            PROVE  r \in OpenOf(start, i + 1, kind)
        <5>1. r \in start + 1 .. i /\ Token(r) = kind
          BY <4>2, <1>1, <1>5
        <5>2. Depth(i + 1) > Depth(r)
          BY <4>2, <2>6, <3>1, <5>1
        <5> QED
          BY <4>2, <5>1, <5>2, <1>4
      <4> QED
        BY <4>1, <4>2
    <3>3. OpenOf(start, i + 1, kind) = OpenOf(start, i, kind)
      BY <3>2, Zenon
    <3> QED
      BY <2>7, <2>9, <3>3 DEF OpenStep
  <2> QED
    BY <2>8, <2>9
<1>10. CASE ~Opener(i) /\ ~Closer(i)
  <2>1. Depth(i + 1) = Depth(i)
    BY <1>3, <1>10 DEF LevelStep
  <2>2. Token(i) # kind /\ Token(i) # CloseOf(kind)
    BY <1>6, <1>10 DEF Opener, Closer
  <2>3. \A r : r \in OpenOf(start, i + 1, kind) <=> r \in OpenOf(start, i, kind)
    <3>1. ASSUME NEW r, r \in OpenOf(start, i + 1, kind)
          PROVE  r \in OpenOf(start, i, kind)
      BY <3>1, <1>4, <2>2
    <3>2. ASSUME NEW r, r \in OpenOf(start, i, kind)
          PROVE  r \in OpenOf(start, i + 1, kind)
      <4>1. r \in start + 1 .. i /\ Token(r) = kind /\ Depth(i + 1) > Depth(r)
        BY <3>2, <1>1, <1>5, <2>1
      <4> QED
        BY <3>2, <4>1, <1>4
    <3> QED
      BY <3>1, <3>2
  <2>4. OpenOf(start, i + 1, kind) = OpenOf(start, i, kind)
    BY <2>3, Zenon
  <2> QED
    BY <2>2, <2>4 DEF OpenStep
<1> QED
  BY <1>8, <1>9, <1>10

-----------------------------------------------------------------------------
(* What the scans count *)

\* The number of open containers of a kind goes up, down or stays, as the counters do.
LEMMA NumOpenNext ==
  ASSUME Fine, NEW start, NEW c, Closes(start, c), NEW i \in start + 1 .. c - 1,
         NEW kind \in Kinds
  PROVE  /\ NumOpen(start, i, kind) \in Nat
         /\ Token(i) = kind => NumOpen(start, i + 1, kind) = NumOpen(start, i, kind) + 1
         /\ Token(i) = CloseOf(kind) =>
              /\ NumOpen(start, i, kind) > 0
              /\ NumOpen(start, i + 1, kind) = NumOpen(start, i, kind) - 1
         /\ Token(i) \notin {kind, CloseOf(kind)} =>
              NumOpen(start, i + 1, kind) = NumOpen(start, i, kind)
<1>1. start \in Int /\ i \in Int
  BY DEF Closes
<1> DEFINE S == OpenOf(start, i, kind)
<1>2. IsFiniteSet(S) /\ Cardinality(S) \in Nat /\ NumOpen(start, i, kind) = Cardinality(S)
  BY <1>1, OpenFinite DEF NumOpen
<1>3. i \notin S
  BY <1>1 DEF OpenOf
<1>4. OpenStep(start, i, kind)
  BY OpenNext
<1>5. kind # CloseOf(kind)
  BY DEF Kinds, CloseOf
<1>6. NumOpen(start, i + 1, kind) = Cardinality(OpenOf(start, i + 1, kind))
  BY DEF NumOpen
<1> HIDE DEF S
<1>7. CASE Token(i) = kind
  <2>1. OpenOf(start, i + 1, kind) = S \cup {i}
    BY <1>4, <1>5, <1>7 DEF OpenStep, S
  <2>2. Cardinality(S \cup {i}) = Cardinality(S) + 1
    BY <1>2, <1>3, FS_AddElement
  <2> QED
    BY <1>2, <1>5, <1>6, <1>7, <2>1, <2>2
<1>8. CASE Token(i) = CloseOf(kind)
  <2>1. PICK o \in S : OpenOf(start, i + 1, kind) = S \ {o}
    BY <1>4, <1>5, <1>8 DEF OpenStep, S
  <2>2. Cardinality(S \ {o}) = Cardinality(S) - 1
    BY <1>2, FS_RemoveElement
  <2>3. Cardinality(S) # 0
    BY <1>2, <2>1, FS_EmptySet
  <2>4. NumOpen(start, i + 1, kind) = NumOpen(start, i, kind) - 1
    BY <1>2, <1>6, <2>1, <2>2
  <2>5. NumOpen(start, i, kind) > 0
    BY <1>2, <2>3
  <2>6. Token(i) # kind
    BY <1>5, <1>8
  <2> QED
    BY <1>2, <1>8, <2>4, <2>5, <2>6
<1>9. CASE Token(i) \notin {kind, CloseOf(kind)}
  <2>1. OpenOf(start, i + 1, kind) = S
    BY <1>4, <1>9 DEF OpenStep, S
  <2> QED
    BY <1>2, <1>6, <1>9, <2>1
<1> QED
  BY <1>7, <1>8, <1>9

\* Nothing is open at the beginning.
LEMMA NoneAtStart ==
  ASSUME NEW start \in Int, NEW kind
  PROVE  NumOpen(start, start + 1, kind) = 0
<1>1. OpenOf(start, start + 1, kind) = {}
  BY DEF OpenOf
<1> QED
  BY <1>1, FS_EmptySet DEF NumOpen

\* No container of either kind is open exactly where the level is the one inside the
\* container that is scanned.
LEMMA NoneOpenLevel ==
  ASSUME Fine, NEW start, NEW c, Closes(start, c), NEW i \in start + 1 .. c
  PROVE  (NumOpen(start, i, "{") = 0 /\ NumOpen(start, i, "[") = 0)
           <=> Depth(i) = Depth(start) + 1
<1>1. /\ start \in 0 .. EOFAt - 1 /\ c \in start + 1 .. EOFAt - 1 /\ EOFAt \in Nat
      /\ i \in 1 .. EOFAt - 1 /\ i \in Nat /\ start \in Int /\ i \in Int
  <2>1. EOFAt \in Nat
    BY FineText
  <2> QED
    BY <2>1 DEF Closes
<1>2. \A k \in 0 .. EOFAt : Depth(k) \in Nat
  BY LevelNat
<1>3. \A r \in start + 1 .. c : Depth(r) >= Depth(start) + 1
  BY DEF Closes
<1>4. ASSUME NEW kind
      PROVE  NumOpen(start, i, kind) = 0 <=> OpenOf(start, i, kind) = {}
  <2>1. IsFiniteSet(OpenOf(start, i, kind))
    BY <1>1, OpenFinite
  <2> QED
    BY <2>1, FS_EmptySet DEF NumOpen
<1>5. ASSUME Depth(i) = Depth(start) + 1, NEW kind
      PROVE  OpenOf(start, i, kind) = {}
  <2> SUFFICES ASSUME NEW r \in OpenOf(start, i, kind) PROVE FALSE
    OBVIOUS
  <2>1. r \in start + 1 .. i - 1 /\ \A k \in r + 1 .. i : Depth(k) > Depth(r)
    BY DEF OpenOf
  <2>2. r \in start + 1 .. c /\ i \in r + 1 .. i /\ r \in 0 .. EOFAt /\ start \in 0 .. EOFAt
    BY <1>1, <2>1
  <2>3. Depth(i) > Depth(r) /\ Depth(r) >= Depth(start) + 1
    BY <1>3, <2>1, <2>2
  <2>4. Depth(r) \in Nat /\ Depth(start) \in Nat
    BY <1>2, <2>2
  <2> QED
    BY <1>5, <2>3, <2>4
<1>6. ASSUME Depth(i) # Depth(start) + 1
      PROVE  \E kind \in Kinds : OpenOf(start, i, kind) # {}
  <2>1. PICK q \in 0 .. i - 1 : Around(q, i)
    BY <1>1, FineText
  <2>2. /\ Opener(q) /\ Depth(i) = Depth(q) + 1
        /\ \A r \in q + 1 .. i : Depth(r) >= Depth(q) + 1
    BY <2>1, AroundIs
  <2>3. Depth(i) \in Nat /\ Depth(q) \in Nat /\ Depth(start) \in Nat /\ Depth(i) > Depth(start) + 1
    <3>1. q \in 0 .. EOFAt /\ i \in 0 .. EOFAt /\ start \in 0 .. EOFAt
      BY <1>1
    <3>2. Depth(i) \in Nat /\ Depth(q) \in Nat /\ Depth(start) \in Nat
      BY <1>2, <3>1
    <3> QED
      BY <1>3, <1>6, <3>2
  <2>4. q # start
    BY <2>2, <2>3
  <2>5. ~(q < start)
    <3> SUFFICES ASSUME q < start PROVE FALSE
      OBVIOUS
    <3>1. start \in q + 1 .. i
      BY <1>1
    <3> QED
      BY <2>2, <2>3, <3>1
  <2>6. q \in start + 1 .. i - 1
    BY <1>1, <2>4, <2>5
  <2>7. \A k \in q + 1 .. i : Depth(k) > Depth(q)
    <3>1. \A k \in q + 1 .. i : Depth(k) \in Nat
      BY <1>1, <1>2
    <3> QED
      BY <2>2, <2>3, <3>1
  <2>8. q \in OpenOf(start, i, Token(q)) /\ Token(q) \in Kinds
    BY <2>2, <2>6, <2>7 DEF OpenOf, Opener, Openers, Kinds
  <2> QED
    BY <2>8
<1> QED
  BY <1>4, <1>5, <1>6 DEF Kinds

\* The counters of _findEnclosingTokenPosition: in a well-formed text none of them
\* is ever kept from going below zero.
LEMMA CountersRight ==
  ASSUME Fine, NEW start, NEW c, Closes(start, c), NEW i \in start + 1 .. c
  PROVE  OpenAt(start, i) =
           [brace |-> NumOpen(start, i, "{"), bracket |-> NumOpen(start, i, "[")]
<1> DEFINE g(k) == [brace |-> NumOpen(start, k, "{"), bracket |-> NumOpen(start, k, "[")]
           Eq(f) == f = [k \in start + 1 .. i |->
                           IF k = start + 1 THEN NoneOpen ELSE Counted(f[k - 1], Token(k - 1))]
           G == [k \in start + 1 .. i |-> g(k)]
<1>1. start \in Int /\ c \in Int /\ i \in Int /\ start \in Nat
  BY DEF Closes
<1>2. g(start + 1) = NoneOpen
  BY <1>1, NoneAtStart DEF NoneOpen
<1>3. ASSUME NEW k \in start + 1 .. c - 1
      PROVE  g(k + 1) = Counted(g(k), Token(k))
  <2>1. /\ NumOpen(start, k, "{") \in Nat
        /\ Token(k) = "{" => NumOpen(start, k + 1, "{") = NumOpen(start, k, "{") + 1
        /\ Token(k) = "}" => /\ NumOpen(start, k, "{") > 0
                             /\ NumOpen(start, k + 1, "{") = NumOpen(start, k, "{") - 1
        /\ Token(k) \notin {"{", "}"} => NumOpen(start, k + 1, "{") = NumOpen(start, k, "{")
    <3>1. "{" \in Kinds /\ CloseOf("{") = "}"
      BY DEF Kinds, CloseOf
    <3> QED
      BY <3>1, NumOpenNext
  <2>2. /\ NumOpen(start, k, "[") \in Nat
        /\ Token(k) = "[" => NumOpen(start, k + 1, "[") = NumOpen(start, k, "[") + 1
        /\ Token(k) = "]" => /\ NumOpen(start, k, "[") > 0
                             /\ NumOpen(start, k + 1, "[") = NumOpen(start, k, "[") - 1
        /\ Token(k) \notin {"[", "]"} => NumOpen(start, k + 1, "[") = NumOpen(start, k, "[")
    <3>1. "[" \in Kinds /\ CloseOf("[") = "]"
      BY DEF Kinds, CloseOf
    <3> QED
      BY <3>1, NumOpenNext
  <2> QED
    BY <2>1, <2>2 DEF Counted
<1>4. Eq(G)
  <2>1. ASSUME NEW k \in start + 1 .. i
        PROVE  g(k) = IF k = start + 1 THEN NoneOpen ELSE Counted(G[k - 1], Token(k - 1))
    <3>1. CASE k = start + 1
      BY <3>1, <1>2
    <3>2. CASE k # start + 1
      <4>1. k - 1 \in start + 1 .. c - 1 /\ k - 1 \in start + 1 .. i /\ (k - 1) + 1 = k
        BY <1>1, <3>2
      <4>2. g((k - 1) + 1) = Counted(g(k - 1), Token(k - 1))
        <5> HIDE DEF g
        <5> QED
          BY <4>1, <1>3
      <4>3. G[k - 1] = g(k - 1)
        <5> HIDE DEF g
        <5> QED
          BY <4>1
      <4> QED
        <5> HIDE DEF g, G
        <5> QED
          BY <3>2, <4>1, <4>2, <4>3
    <3> QED
      BY <3>1, <3>2
  <2> HIDE DEF g
  <2> QED
    BY <2>1, Zenon
<1>5. OpenAt(start, i) = (CHOOSE f : Eq(f))[i]
  BY DEF OpenAt
<1> HIDE DEF Eq
<1>6. PICK f : f = (CHOOSE h : Eq(h)) /\ Eq(f)
  BY <1>4
<1>7. ASSUME NEW k \in start + 1 .. i
      PROVE  f[k] = IF k = start + 1 THEN NoneOpen ELSE Counted(f[k - 1], Token(k - 1))
  BY <1>6, Zenon DEF Eq
<1> HIDE DEF g, G
<1> DEFINE Bad == {k \in start + 1 .. i : f[k] # g(k)}
<1>8. Bad = {}
  <2> SUFFICES ASSUME Bad # {} PROVE FALSE
    OBVIOUS
  <2>1. Bad \subseteq Nat
    BY <1>1
  <2>2. PICK k \in Bad : \A j \in Bad : k <= j
    <3> HIDE DEF Bad
    <3> QED BY <2>1, LeastExists
  <2>3. k \in start + 1 .. i /\ f[k] # g(k)
    BY <2>2
  <2>4. k # start + 1
    BY <2>3, <1>2, <1>7
  <2>5. k - 1 \in start + 1 .. i /\ k - 1 \in start + 1 .. c - 1 /\ (k - 1) + 1 = k /\ ~(k <= k - 1)
    BY <2>3, <2>4, <1>1
  <2>6. f[k - 1] = g(k - 1)
    BY <2>2, <2>5
  <2>7. f[k] = Counted(f[k - 1], Token(k - 1))
    BY <1>7, <2>3, <2>4
  <2>8. g(k) = Counted(g(k - 1), Token(k - 1))
    BY <1>3, <2>5
  <2> QED
    BY <2>3, <2>6, <2>7, <2>8
<1>9. i \in start + 1 .. i
  BY <1>1
<1>10. f[i] = g(i)
  BY <1>8, <1>9
<1> QED
  BY <1>5, <1>6, <1>10 DEF g

-----------------------------------------------------------------------------
(* What the scans find *)

\* _findEnclosingTokenPosition finds the end of the container.
LEMMA EndRight ==
  ASSUME Fine, NEW start, NEW c, Closes(start, c)
  PROVE  End(start) = c
<1>1. /\ start \in 0 .. EOFAt - 1 /\ c \in start + 1 .. EOFAt - 1 /\ EOFAt \in Nat
      /\ start \in Nat /\ c \in Nat /\ Depth(start) \in Nat
  <2>1. EOFAt \in Nat
    BY FineText
  <2>2. start \in 0 .. EOFAt
    BY <2>1 DEF Closes
  <2> QED
    BY <2>1, <2>2, LevelNat DEF Closes
<1> DEFINE stops == {i \in start + 1 .. EOFAt : i = EOFAt \/ Encloses(start, i)}
<1>2. NoneOpen = [brace |-> 0, bracket |-> 0]
  BY DEF NoneOpen
<1>3. ASSUME NEW i \in start + 1 .. c
      PROVE  OpenAt(start, i) = NoneOpen <=> Depth(i) = Depth(start) + 1
  <2>1. OpenAt(start, i) =
          [brace |-> NumOpen(start, i, "{"), bracket |-> NumOpen(start, i, "[")]
    BY CountersRight
  <2>2. OpenAt(start, i) = NoneOpen <=>
          NumOpen(start, i, "{") = 0 /\ NumOpen(start, i, "[") = 0
    <3> DEFINE a == NumOpen(start, i, "{")
               b == NumOpen(start, i, "[")
    <3> HIDE DEF a, b
    <3>1. OpenAt(start, i) = [brace |-> a, bracket |-> b]
      BY <2>1 DEF a, b
    <3>2. OpenAt(start, i) = NoneOpen => a = 0 /\ b = 0
      BY <3>1, <1>2
    <3>3. a = 0 /\ b = 0 => OpenAt(start, i) = NoneOpen
      BY <3>1, <1>2
    <3> QED
      BY <3>2, <3>3 DEF a, b
  <2> QED
    BY <2>2, NoneOpenLevel
<1>4. c \in stops
  <2>1. OpenAt(start, c) = NoneOpen
    BY <1>1, <1>3 DEF Closes
  <2>2. Encloses(start, c)
    BY <2>1 DEF Encloses, Closes, Pair
  <2> QED
    BY <1>1, <2>2
<1>5. ASSUME NEW i \in stops, i < c
      PROVE  FALSE
  <2>1. i \in start + 1 .. c - 1 /\ Encloses(start, i) /\ i \in start + 1 .. c /\ i \in Nat
    BY <1>1, <1>5
  <2>2. Depth(i) = Depth(start) + 1
    BY <1>3, <2>1 DEF Encloses
  <2>3. Closer(i)
    BY <2>1 DEF Encloses, Closer, Closers
  <2>4. Depth(i + 1) = Depth(i) - 1
    <3>1. LevelStep(i)
      BY <2>1, LevelNext
    <3> QED
      BY <2>3, <3>1 DEF LevelStep
  <2>5. Depth(i + 1) >= Depth(start) + 1
    <3>1. i + 1 \in start + 1 .. c
      BY <2>1, <1>1
    <3> QED
      BY <3>1 DEF Closes
  <2> QED
    BY <1>1, <2>2, <2>4, <2>5
<1>6. End(start) = CHOOSE i \in stops : \A j \in stops : i <= j
  BY DEF End
<1>7. stops \subseteq Nat
  BY <1>1
<1> HIDE DEF stops
<1>8. \A j \in stops : c <= j
  BY <1>1, <1>5, <1>7
<1>9. PICK e : e = End(start) /\ e \in stops /\ \A j \in stops : e <= j
  BY <1>4, <1>6, <1>8
<1>10. e <= c /\ c <= e /\ e \in Nat /\ c \in Nat
  BY <1>4, <1>7, <1>8, <1>9
<1> QED
  BY <1>9, <1>10

\* The difference of brackets that _getSeparatorsData counts is what is open.
LEMMA ExcessRight ==
  ASSUME Fine, NEW start, NEW c, Closes(start, c), NEW kind \in Kinds, NEW i \in start .. c - 1
  PROVE  Excess(start, i, kind, CloseOf(kind)) = NumOpen(start, i + 1, kind)
<1>1. start \in Nat /\ c \in Nat /\ start < c
  <2>1. EOFAt \in Nat
    BY FineText
  <2> QED
    BY <2>1 DEF Closes
<1> DEFINE O == {k \in Nat : Token(k) = kind}
           C == {k \in Nat : Token(k) = CloseOf(kind)}
           E(j) == Excess(start, j, kind, CloseOf(kind))
           N(j) == NumOpen(start, j + 1, kind)
<1>2. ASSUME NEW j \in start .. c - 1
      PROVE  E(j) = Count(O, start + 1, j) - Count(C, start + 1, j)
  <2>1. {k \in start + 1 .. j : Token(k) = kind} = O \cap (start + 1 .. j)
    BY <1>1
  <2>2. {k \in start + 1 .. j : Token(k) = CloseOf(kind)} = C \cap (start + 1 .. j)
    BY <1>1
  <2> QED
    BY <2>1, <2>2 DEF Excess, Count
<1>3. E(start) = 0
  <2>1. /\ start \in start .. c - 1
        /\ O \cap (start + 1 .. start) = {} /\ C \cap (start + 1 .. start) = {}
    BY <1>1
  <2> HIDE DEF O, C, E
  <2>2. E(start) = Count(O, start + 1, start) - Count(C, start + 1, start)
    BY <2>1, <1>2
  <2>3. E(start) = Cardinality({}) - Cardinality({})
    BY <2>1, <2>2 DEF Count
  <2> QED
    BY <2>3, FS_EmptySet
<1>4. ASSUME NEW j \in start .. c - 2
      PROVE  /\ E(j) \in Int
             /\ Token(j + 1) = kind => E(j + 1) = E(j) + 1
             /\ Token(j + 1) = CloseOf(kind) => E(j + 1) = E(j) - 1
             /\ Token(j + 1) \notin {kind, CloseOf(kind)} => E(j + 1) = E(j)
  <2>1. /\ j \in Int /\ start + 1 \in Int /\ j >= (start + 1) - 1 /\ j + 1 \in Nat
        /\ j \in start .. c - 1 /\ j + 1 \in start .. c - 1
    BY <1>1
  <2>2. j + 1 \in O <=> Token(j + 1) = kind
    BY <2>1
  <2>3. j + 1 \in C <=> Token(j + 1) = CloseOf(kind)
    BY <2>1
  <2>4. kind # CloseOf(kind)
    BY DEF Kinds, CloseOf
  <2> HIDE DEF O, C, E
  <2> DEFINE a == start + 1
  <2>5. a \in Int /\ j \in Int /\ j >= a - 1
    BY <2>1
  <2>6. E(j) = Count(O, a, j) - Count(C, a, j)
    BY <1>2, <2>1
  <2>7. E(j + 1) = Count(O, a, j + 1) - Count(C, a, j + 1)
    BY <1>2, <2>1
  <2> HIDE DEF a
  <2>8. /\ Count(O, a, j) \in Nat
        /\ Count(O, a, j + 1) = Count(O, a, j) + IF j + 1 \in O THEN 1 ELSE 0
    <3>1. /\ Count(O, a, j) \in Nat
          /\ j >= a - 1 => Count(O, a, j + 1) =
               Count(O, a, j) + IF j + 1 \in O THEN 1 ELSE 0
      BY <2>5, CountNext, SMT
    <3> QED
      BY <2>5, <3>1
  <2>9. /\ Count(C, a, j) \in Nat
        /\ Count(C, a, j + 1) = Count(C, a, j) + IF j + 1 \in C THEN 1 ELSE 0
    <3>1. /\ Count(C, a, j) \in Nat
          /\ j >= a - 1 => Count(C, a, j + 1) =
               Count(C, a, j) + IF j + 1 \in C THEN 1 ELSE 0
      BY <2>5, CountNext, SMT
    <3> QED
      BY <2>5, <3>1
  <2> QED
    BY <2>2, <2>3, <2>4, <2>6, <2>7, <2>8, <2>9
<1>5. N(start) = 0
  BY <1>1, NoneAtStart
<1>6. ASSUME NEW j \in start .. c - 2
      PROVE  /\ Token(j + 1) = kind => N(j + 1) = N(j) + 1
             /\ Token(j + 1) = CloseOf(kind) => N(j + 1) = N(j) - 1
             /\ Token(j + 1) \notin {kind, CloseOf(kind)} => N(j + 1) = N(j)
  <2>1. j + 1 \in start + 1 .. c - 1
    BY <1>1
  <2> QED
    BY <2>1, NumOpenNext
<1> HIDE DEF E, N, O, C
<1> DEFINE Bad == {j \in start .. c - 1 : E(j) # N(j)}
<1>7. Bad = {}
  <2> SUFFICES ASSUME Bad # {} PROVE FALSE
    OBVIOUS
  <2>1. Bad \subseteq Nat
    BY <1>1
  <2>2. PICK k \in Bad : \A j \in Bad : k <= j
    <3> HIDE DEF Bad
    <3> QED BY <2>1, LeastExists
  <2>3. k \in start .. c - 1 /\ E(k) # N(k)
    BY <2>2
  <2>4. k # start
    BY <2>3, <1>3, <1>5
  <2>5. PICK j \in start .. c - 2 : k = j + 1
    <3>1. k - 1 \in start .. c - 2 /\ k = (k - 1) + 1
      BY <2>3, <2>4, <1>1
    <3> QED
      BY <3>1
  <2>6. E(j) = N(j)
    <3>1. ~(k <= j) /\ j \in start .. c - 1
      BY <2>5, <1>1
    <3> QED
      BY <2>2, <3>1
  <2> QED
    BY <2>3, <2>5, <2>6, <1>4, <1>6
<1>8. E(i) = N(i)
  BY <1>7
<1> QED
  BY <1>8 DEF E, N

IsComma(p) == Token(p) = ","

\* A comma is no other token.
LEMMA CommaOnly ==
  ASSUME NEW p, IsComma(p)
  PROVE  /\ ~Opener(p) /\ ~Closer(p) /\ Token(p) # ":"
         /\ Token(p) \notin Simple
  BY Zenon DEF IsComma, Opener, Closer, Openers, Closers, Simple, Literals, Words

\* The separators _getSeparatorsData finds are the commas of the container itself.
LEMMA SeparatorsRight ==
  ASSUME Fine, NEW start, NEW c, Closes(start, c), NEW i
  PROVE  i \in Separators(start) <=>
           i \in start + 1 .. c - 2 /\ IsComma(i) /\ Around(start, i)
<1>1. start \in Nat /\ c \in Nat /\ start < c /\ Opener(start)
      /\ \A r \in start + 1 .. c : Depth(r) >= Depth(start) + 1
  <2>1. EOFAt \in Nat
    BY FineText
  <2> QED
    BY <2>1 DEF Closes
<1> start \in Nat /\ c \in Nat /\ start < c
  BY <1>1
<1>2. Scanned(start) = start + 1 .. c - 2
  BY EndRight DEF Scanned
<1>3. ASSUME i \in start + 1 .. c - 2, IsComma(i)
      PROVE  (Excess(start, i, "{", "}") <= 0 /\ Excess(start, i, "[", "]") <= 0)
               <=> Around(start, i)
  <2>1. /\ i \in start .. c - 1 /\ i + 1 \in start + 1 .. c /\ i \in start + 1 .. c
        /\ i \in Nat /\ i + 1 \in Int /\ start \in Int
    BY <1>3
  <2>2. Excess(start, i, "{", "}") = NumOpen(start, i + 1, "{")
    <3>1. "{" \in Kinds /\ CloseOf("{") = "}"
      BY DEF Kinds, CloseOf
    <3> QED
      BY <2>1, <3>1, ExcessRight
  <2>3. Excess(start, i, "[", "]") = NumOpen(start, i + 1, "[")
    <3>1. "[" \in Kinds /\ CloseOf("[") = "]"
      BY DEF Kinds, CloseOf
    <3> QED
      BY <2>1, <3>1, ExcessRight
  <2>4. NumOpen(start, i + 1, "{") \in Nat /\ NumOpen(start, i + 1, "[") \in Nat
    BY <2>1, OpenFinite
  <2>5. (NumOpen(start, i + 1, "{") = 0 /\ NumOpen(start, i + 1, "[") = 0)
           <=> Depth(i + 1) = Depth(start) + 1
    BY <2>1, NoneOpenLevel
  <2>6. Depth(i + 1) = Depth(i)
    <3>1. LevelStep(i)
      BY <2>1, LevelNext
    <3>2. ~Opener(i) /\ ~Closer(i)
      BY <1>3, CommaOnly
    <3> QED
      BY <3>1, <3>2 DEF LevelStep
  <2>7. Around(start, i) <=> Depth(i) = Depth(start) + 1
    <3>1. start < i /\ \A r \in start + 1 .. i : r \in start + 1 .. c
      BY <1>3
    <3> QED
      BY <1>1, <3>1, AroundIs
  <2>8. (Excess(start, i, "{", "}") <= 0 /\ Excess(start, i, "[", "]") <= 0) <=>
          (NumOpen(start, i + 1, "{") = 0 /\ NumOpen(start, i + 1, "[") = 0)
    <3> DEFINE a == Excess(start, i, "{", "}")
               b == Excess(start, i, "[", "]")
    <3>1. a \in Nat /\ b \in Nat /\ a = NumOpen(start, i + 1, "{") /\ b = NumOpen(start, i + 1, "[")
      BY <2>2, <2>3, <2>4
    <3>2. a \in Nat /\ b \in Nat
      BY <3>1
    <3> HIDE DEF a, b
    <3>3. a <= 0 /\ b <= 0 <=> a = 0 /\ b = 0
      BY <3>2
    <3> QED
      BY <3>1, <3>3, Zenon DEF a, b
  <2> QED
    BY <2>5, <2>6, <2>7, <2>8
<1> QED
  <2>1. i \in Separators(start) <=>
          i \in start + 1 .. c - 2 /\ IsComma(i)
            /\ Excess(start, i, "{", "}") <= 0 /\ Excess(start, i, "[", "]") <= 0
    BY <1>2, Zenon DEF Separators, IsComma
  <2> QED
    BY <2>1, <1>3

-----------------------------------------------------------------------------
(* What follows what *)

IsColon(p) == Token(p) = ":"
IsString(p) == Token(p) = "string"
SimpleAt(p) == Token(p) \in Simple
IsObject(p) == Token(p) = "{"
IsArray(p) == Token(p) = "["

\* Each token is of one kind.
OneKind(p) ==
  /\ IsString(p) => SimpleAt(p)
  /\ IsObject(p) => Opener(p) /\ ~IsArray(p)
  /\ IsArray(p) => Opener(p)
  /\ Opener(p) => IsObject(p) \/ IsArray(p)
  /\ SimpleAt(p) => ~Opener(p) /\ ~Closer(p) /\ ~IsComma(p) /\ ~IsColon(p)
  /\ Opener(p) => ~Closer(p) /\ ~IsComma(p) /\ ~IsColon(p)
  /\ Closer(p) => ~IsComma(p) /\ ~IsColon(p)
  /\ IsComma(p) => ~IsColon(p)

\* No token type is two of the types the parser asks for.
LEMMA TokenKinds ==
  ASSUME NEW p
  PROVE  OneKind(p)
<1>1. IsString(p) => SimpleAt(p)
  BY Zenon DEF IsString, SimpleAt, Simple, Literals
<1>2. IsObject(p) => Opener(p) /\ ~IsArray(p)
  BY Zenon DEF IsObject, IsArray, Opener, Openers
<1>3. IsArray(p) => Opener(p)
  BY Zenon DEF IsArray, Opener, Openers
<1>4. Opener(p) => IsObject(p) \/ IsArray(p)
  BY Zenon DEF IsObject, IsArray, Opener, Openers
<1>5. SimpleAt(p) => ~Opener(p) /\ ~Closer(p) /\ ~IsColon(p)
  BY Zenon DEF SimpleAt, Simple, Literals, Words, Opener, Openers, Closer, Closers, IsColon
<1>6. Opener(p) => ~Closer(p) /\ ~IsColon(p)
  BY Zenon DEF Opener, Openers, Closer, Closers, IsColon
<1>7. Closer(p) => ~IsColon(p)
  BY Zenon DEF Closer, Closers, IsColon
<1>8. IsComma(p) => ~Opener(p) /\ ~Closer(p) /\ ~IsColon(p) /\ ~SimpleAt(p)
  BY CommaOnly, Zenon DEF IsColon, SimpleAt
<1> QED
  BY <1>1, <1>2, <1>3, <1>4, <1>5, <1>6, <1>7, <1>8, Zenon DEF OneKind

\* A key or an element may begin at p; a value has ended before p.
Begins(q, p) == p - 1 = q \/ IsComma(p - 1)
Ended(q, p) == Closer(p - 1) \/ (SimpleAt(p - 1) /\ (IsObject(q) => IsColon(p - 2)))

\* The grammar, in these words.
Grammar(q, p) ==
  \/ IsString(p) /\ IsObject(q) /\ Begins(q, p)
  \/ IsColon(p) /\ IsObject(q) /\ IsString(p - 1) /\ ~IsColon(p - 2)
  \/ (SimpleAt(p) \/ Opener(p)) /\ IsObject(q) /\ IsColon(p - 1)
  \/ (SimpleAt(p) \/ Opener(p)) /\ ~IsObject(q) /\ Begins(q, p)
  \/ IsComma(p) /\ Ended(q, p)
  \/ Closer(p) /\ (p - 1 = q \/ Ended(q, p))

\* A token of a well-formed text follows the grammar in these words.
LEMMA GrammarAround ==
  ASSUME Fine, NEW p \in 1 .. EOFAt - 1, NEW q \in Nat, Around(q, p)
  PROVE  Grammar(q, p)
<1>1. Follows(tokens, q, p)
  BY FollowsAround
<1>2. Begins(q, p) <=> (p - 1 = q \/ At(tokens, p - 1) = ",")
  BY Zenon DEF Begins, IsComma, Token
<1>3. Ended(q, p) <=> \/ At(tokens, p - 1) \in Closers
                      \/ /\ At(tokens, p - 1) \in Simple
                         /\ At(tokens, q) = "{" => At(tokens, p - 2) = ":"
  BY Zenon DEF Ended, Closer, SimpleAt, IsObject, IsColon, Token
<1>4. <<At(tokens, q), At(tokens, p)>> \in {<<"{", "}">>, <<"[", "]">>} => Closer(p)
  BY DEF Closer, Closers, Token
<1> QED
  BY <1>1, <1>2, <1>3, <1>4, Zenon
     DEF Follows, Grammar, IsString, IsObject, IsColon, IsComma, SimpleAt, Opener, Token

-----------------------------------------------------------------------------
(* Moving inside a container *)

\* The bounds of a container, as numbers.
LEMMA ClosesBounds ==
  ASSUME Fine, NEW start, NEW c, Closes(start, c)
  PROVE  /\ start \in Nat /\ c \in Nat /\ EOFAt \in Nat /\ start < c /\ c < EOFAt
         /\ Depth(start) \in Nat /\ Opener(start)
<1>1. EOFAt \in Nat
  BY FineText
<1>2. start \in 0 .. EOFAt /\ start \in 0 .. EOFAt - 1 /\ c \in start + 1 .. EOFAt - 1
  BY <1>1 DEF Closes
<1>3. Depth(start) \in Nat
  BY <1>2, LevelNat
<1> QED
  BY <1>1, <1>2, <1>3 DEF Closes

\* Up to its end a container surrounds what is on its level.
LEMMA AroundInside ==
  ASSUME Fine, NEW start, NEW c, Closes(start, c), NEW p \in start + 1 .. c
  PROVE  Around(start, p) <=> Depth(p) = Depth(start) + 1
<1>1. start \in Nat /\ c \in Nat /\ start < c /\ Opener(start)
  BY ClosesBounds
<1>2. start < p /\ \A r \in start + 1 .. p : r \in start + 1 .. c
  BY <1>1
<1>3. \A r \in start + 1 .. p : Depth(r) >= Depth(start) + 1
  BY <1>2 DEF Closes
<1> QED
  BY <1>1, <1>2, <1>3, AroundIs

\* The token at p leaves the level.
Flat(p) == ~Opener(p) /\ ~Closer(p)

\* The next token is in the same container, unless this one opens or closes one.
LEMMA AroundNext ==
  ASSUME Fine, NEW start, NEW c, Closes(start, c), NEW i \in start .. c - 1,
         i = start \/ (Around(start, i) /\ Flat(i))
  PROVE  Around(start, i + 1)
<1>1. start \in Nat /\ c \in Nat /\ start < c /\ Opener(start)
  BY ClosesBounds
<1>2. i \in Nat /\ i + 1 \in start + 1 .. c
  BY <1>1
<1>3. LevelStep(i)
  BY <1>2, LevelNext
<1>4. Depth(i + 1) = Depth(start) + 1
  <2>1. CASE i = start
    BY <2>1, <1>1, <1>3 DEF LevelStep
  <2>2. CASE Around(start, i) /\ Flat(i)
    <3>1. Depth(i) = Depth(start) + 1
      BY <2>2, AroundIs
    <3> QED
      BY <2>2, <3>1, <1>3 DEF LevelStep, Flat
  <2> QED
    BY <2>1, <2>2
<1> QED
  BY <1>2, <1>4, AroundInside

\* And so is the one before.
LEMMA AroundPrevious ==
  ASSUME Fine, NEW start, NEW c, Closes(start, c), NEW i \in start + 1 .. c - 1,
         Around(start, i + 1), Flat(i)
  PROVE  Around(start, i)
<1>1. start \in Nat /\ c \in Nat /\ start < c
  BY ClosesBounds
<1>2. i \in Nat /\ i \in start + 1 .. c
  BY <1>1
<1>3. LevelStep(i)
  BY <1>2, LevelNext
<1>4. Depth(i + 1) = Depth(start) + 1
  BY AroundIs
<1>5. Depth(i) = Depth(start) + 1
  BY <1>3, <1>4 DEF LevelStep, Flat
<1> QED
  BY <1>2, <1>5, AroundInside

\* What is in a container is before its end.
LEMMA AroundEnds ==
  ASSUME Fine, NEW start, NEW c, Closes(start, c), NEW p \in Nat, Around(start, p)
  PROVE  p \in start + 1 .. c
<1>1. start \in Nat /\ c \in Nat /\ start < c /\ Depth(start) \in Nat
  BY ClosesBounds
<1>2. start < p /\ \A r \in start + 1 .. p : Depth(r) >= Depth(start) + 1
  BY AroundIs
<1>3. ~(c < p)
  <2> SUFFICES ASSUME c < p PROVE FALSE
    OBVIOUS
  <2>1. c + 1 \in start + 1 .. p
    BY <1>1
  <2>2. Depth(c + 1) >= Depth(start) + 1 /\ Depth(c + 1) = Depth(start)
    BY <1>2, <2>1 DEF Closes
  <2> QED
    BY <1>1, <2>2
<1> QED
  BY <1>1, <1>2, <1>3

\* A closing token that a container surrounds is its end.
LEMMA CloserEnds ==
  ASSUME Fine, NEW start, NEW c, Closes(start, c), NEW p \in start + 1 .. c,
         Around(start, p), Closer(p)
  PROVE  p = c
<1>1. start \in Nat /\ c \in Nat /\ start < c /\ Depth(start) \in Nat
  BY ClosesBounds
<1>2. p \in Nat
  BY <1>1
<1>3. LevelStep(p)
  BY <1>2, LevelNext
<1>4. Depth(p) = Depth(start) + 1
  BY AroundIs
<1>5. Depth(p + 1) = Depth(p) - 1
  BY <1>3 DEF LevelStep
<1> SUFFICES ASSUME p # c PROVE FALSE
  OBVIOUS
<1>6. p + 1 \in start + 1 .. c
  BY <1>1
<1>7. Depth(p + 1) >= Depth(start) + 1
  BY <1>6 DEF Closes
<1> QED
  BY <1>1, <1>4, <1>5, <1>7

-----------------------------------------------------------------------------
(* What the passes read *)

\* A container ends with a closing token.
LEMMA ClosesCloser ==
  ASSUME NEW start, NEW c, Closes(start, c)
  PROVE  Closer(c)
<1>1. Pair(start, c)
  BY Zenon DEF Closes
<1> QED
  BY <1>1 DEF Pair, Closer, Closers

\* A pass begins at the start of the container or at a comma of it.
Item(start, i) == i = start \/ (IsComma(i) /\ Around(start, i))

\* Where a pass begins, the token before is none of those a value ends with.
LEMMA ItemNext ==
  ASSUME Fine, NEW start, NEW c, Closes(start, c), NEW i \in start .. c - 2, Item(start, i)
  PROVE  /\ Around(start, i + 1) /\ ~Closer(i + 1) /\ Grammar(start, i + 1)
         /\ ~IsColon(i) /\ ~SimpleAt(i) /\ ~Closer(i)
<1>1. start \in Nat /\ c \in Nat /\ EOFAt \in Nat /\ start < c /\ c < EOFAt /\ Opener(start)
  BY ClosesBounds
<1>2. i \in start .. c - 1 /\ i + 1 \in start + 1 .. c /\ i + 1 \in 1 .. EOFAt - 1 /\ i + 1 # c
  BY <1>1
<1>3. OneKind(i)
  BY TokenKinds
<1>4. IsComma(i) => Flat(i)
  BY <1>3, Zenon DEF OneKind, Flat
<1>5. ~IsColon(i) /\ ~SimpleAt(i) /\ ~Closer(i)
  BY <1>1, <1>3, Zenon DEF OneKind, Item
<1>6. Around(start, i + 1)
  BY <1>2, <1>4, AroundNext DEF Item
<1>7. ~Closer(i + 1)
  BY <1>2, <1>6, CloserEnds
<1>8. Grammar(start, i + 1)
  BY <1>1, <1>2, <1>6, GrammarAround
<1> QED
  BY <1>5, <1>6, <1>7, <1>8

\* The next token of a container, behind one that opens and closes nothing.
LEMMA FlatNext ==
  ASSUME Fine, NEW start, NEW c, Closes(start, c), NEW i \in start + 1 .. c - 1,
         Around(start, i), Flat(i)
  PROVE  Around(start, i + 1) /\ Grammar(start, i + 1)
<1>1. start \in Nat /\ c \in Nat /\ EOFAt \in Nat /\ start < c /\ c < EOFAt
  BY ClosesBounds
<1>2. i \in start .. c - 1 /\ i + 1 \in 1 .. EOFAt - 1
  BY <1>1
<1>3. Around(start, i + 1)
  BY <1>2, AroundNext
<1> QED
  BY <1>1, <1>2, <1>3, GrammarAround

\* What follows an opening token is in the container it opens: it is no colon, and
\* no container if the container is an object.
LEMMA OpenerNext ==
  ASSUME Fine, NEW p \in 1 .. EOFAt - 1, Opener(p)
  PROVE  ~IsColon(p + 1) /\ (IsObject(p) => ~IsObject(p + 1))
<1>1. EOFAt \in Nat
  BY FineText
<1>2. p \in 0 .. EOFAt - 1
  BY <1>1
<1>3. PICK c : Closes(p, c)
  BY <1>2, ClosesExists
<1>4. p \in Nat /\ c \in Nat /\ p < c /\ c < EOFAt
  BY <1>3, ClosesBounds
<1>5. p \in p .. c - 1 /\ p + 1 \in 1 .. EOFAt - 1 /\ (p + 1) - 1 = p
  BY <1>1, <1>4
<1>6. Around(p, p + 1)
  BY <1>3, <1>5, AroundNext
<1>7. Grammar(p, p + 1)
  BY <1>4, <1>5, <1>6, GrammarAround
<1>8. OneKind(p) /\ OneKind(p + 1)
  BY TokenKinds
<1> QED
  BY <1>5, <1>7, <1>8, Zenon DEF Grammar, OneKind

\* A pass of parseObject finds a key, a colon and a value.
LEMMA ObjectPass ==
  ASSUME Fine, NEW start, NEW c, Closes(start, c), IsObject(start),
         NEW i \in start .. c - 3, Item(start, i)
  PROVE  /\ IsString(i + 1) /\ (SimpleAt(i + 3) \/ Opener(i + 3))
         /\ Around(start, i + 3) /\ ~IsColon(i + 4) /\ i + 3 \in start + 1 .. c - 1
<1>1. start \in Nat /\ c \in Nat /\ EOFAt \in Nat /\ start < c /\ c < EOFAt
  BY ClosesBounds
<1>2. /\ i \in start .. c - 2 /\ i + 1 \in start + 1 .. c - 1 /\ i + 2 \in start + 1 .. c - 1
      /\ i + 3 \in start + 1 .. c /\ i + 1 # start /\ i + 2 # start
      /\ (i + 1) + 1 = i + 2 /\ (i + 2) + 1 = i + 3 /\ (i + 3) + 1 = i + 4
      /\ (i + 1) - 1 = i /\ (i + 2) - 1 = i + 1 /\ (i + 2) - 2 = i
      /\ (i + 3) - 1 = i + 2 /\ (i + 3) - 2 = i + 1
      /\ (i + 4) - 1 = i + 3 /\ (i + 4) - 2 = i + 2 /\ i + 2 \in Int
      /\ i + 2 # c
  BY <1>1
<1>3. OneKind(i + 1) /\ OneKind(i + 2) /\ OneKind(i + 3)
  BY TokenKinds
<1>4. /\ Around(start, i + 1) /\ ~Closer(i + 1) /\ Grammar(start, i + 1)
      /\ ~IsColon(i) /\ ~SimpleAt(i) /\ ~Closer(i)
  BY <1>2, ItemNext
<1>5. ~IsString(i)
  <2>1. OneKind(i)
    BY TokenKinds
  <2> QED
    BY <1>4, <2>1 DEF OneKind
<1>6. IsString(i + 1)
  BY <1>2, <1>4, <1>5, Zenon DEF Grammar, Ended
<1>7. Flat(i + 1) /\ ~IsColon(i + 1) /\ ~IsComma(i + 1) /\ SimpleAt(i + 1)
  BY <1>3, <1>6 DEF OneKind, Flat
<1>8. Around(start, i + 2) /\ Grammar(start, i + 2)
  <2>1. Around(start, (i + 1) + 1) /\ Grammar(start, (i + 1) + 1)
    BY <1>2, <1>4, <1>7, FlatNext
  <2> QED
    BY <1>2, <2>1
<1>9. ~Closer(i + 2)
  <2>1. i + 2 \in start + 1 .. c
    BY <1>1, <1>2
  <2> QED
    BY <1>2, <1>8, <2>1, CloserEnds
<1>10. IsColon(i + 2)
  BY <1>2, <1>4, <1>7, <1>8, <1>9, Zenon DEF Grammar, Ended, Begins, Flat
<1>11. Flat(i + 2) /\ ~SimpleAt(i + 2) /\ ~IsComma(i + 2) /\ ~IsString(i + 2)
  BY <1>3, <1>10 DEF OneKind, Flat
<1>12. Around(start, i + 3) /\ Grammar(start, i + 3)
  <2>1. Around(start, (i + 2) + 1) /\ Grammar(start, (i + 2) + 1)
    BY <1>2, <1>8, <1>11, FlatNext
  <2> QED
    BY <1>2, <2>1
<1>13. SimpleAt(i + 3) \/ Opener(i + 3)
  BY <1>2, <1>3, <1>11, <1>12, Zenon DEF Grammar, Ended, Begins, Flat, OneKind
<1>14. ~Closer(i + 3)
  BY <1>3, <1>13, Zenon DEF OneKind
<1>15. i + 3 \in start + 1 .. c - 1
  <2>1. Closer(c)
    BY ClosesCloser
  <2>2. i + 3 # c
    BY <1>14, <2>1, Zenon
  <2> QED
    BY <1>1, <1>2, <2>2
<1>16. ~IsColon(i + 4)
  <2>1. CASE SimpleAt(i + 3)
    <3>1. Flat(i + 3)
      BY <2>1, <1>3 DEF OneKind, Flat
    <3>2. Grammar(start, (i + 3) + 1)
      BY <1>12, <1>15, <3>1, FlatNext
    <3>3. OneKind(i + 4)
      BY TokenKinds
    <3>4. Grammar(start, i + 4)
      BY <1>2, <3>2
    <3> QED
      BY <1>2, <1>10, <3>3, <3>4, Zenon DEF Grammar, OneKind
  <2>2. CASE Opener(i + 3)
    <3>1. i + 3 \in 1 .. EOFAt - 1
      BY <1>1, <1>15
    <3>2. ~IsColon((i + 3) + 1)
      BY <2>2, <3>1, OpenerNext
    <3> QED
      BY <1>2, <3>2
  <2> QED
    BY <1>13, <2>1, <2>2
<1> QED
  BY <1>6, <1>12, <1>13, <1>15, <1>16

\* A pass of parseArray finds a value, and no object one token behind it.
LEMMA ArrayPass ==
  ASSUME Fine, NEW start, NEW c, Closes(start, c), ~IsObject(start),
         NEW i \in start .. c - 3, Item(start, i)
  PROVE  /\ SimpleAt(i + 1) \/ Opener(i + 1)
         /\ Around(start, i + 1) /\ ~IsColon(i + 2) /\ i + 1 \in start + 1 .. c - 1
         /\ ~IsArray(i + 1) => ~IsObject(i + 2)
<1>1. start \in Nat /\ c \in Nat /\ EOFAt \in Nat /\ start < c /\ c < EOFAt
  BY ClosesBounds
<1>2. /\ i \in start .. c - 2 /\ i + 1 \in start + 1 .. c - 1 /\ i + 1 # start
      /\ (i + 1) + 1 = i + 2 /\ (i + 1) - 1 = i /\ (i + 2) - 1 = i + 1
      /\ i + 1 \in 1 .. EOFAt - 1
  BY <1>1
<1>3. OneKind(i + 1) /\ OneKind(i + 2)
  BY TokenKinds
<1>4. /\ Around(start, i + 1) /\ ~Closer(i + 1) /\ Grammar(start, i + 1)
      /\ ~IsColon(i) /\ ~SimpleAt(i) /\ ~Closer(i)
  BY <1>2, ItemNext
<1>5. SimpleAt(i + 1) \/ Opener(i + 1)
  BY <1>2, <1>3, <1>4, Zenon DEF Grammar, Ended, OneKind
<1>6. CASE SimpleAt(i + 1)
  <2>1. Flat(i + 1) /\ ~IsComma(i + 1)
    BY <1>6, <1>3 DEF OneKind, Flat
  <2>2. Grammar(start, (i + 1) + 1)
    BY <1>2, <1>4, <2>1, FlatNext
  <2>3. Grammar(start, i + 2)
    BY <1>2, <2>2
  <2>4. ~IsColon(i + 2)
    BY <1>3, <2>3, Zenon DEF Grammar, OneKind
  <2>5. ~IsObject(i + 2)
    BY <1>2, <1>3, <2>1, <2>3, Zenon DEF Grammar, OneKind, Begins
  <2> QED
    BY <1>2, <1>4, <1>5, <2>4, <2>5
<1>7. CASE Opener(i + 1)
  <2>1. ~IsColon((i + 1) + 1) /\ (IsObject(i + 1) => ~IsObject((i + 1) + 1))
    BY <1>2, <1>7, OpenerNext
  <2>2. ~IsArray(i + 1) => IsObject(i + 1)
    BY <1>3, <1>7 DEF OneKind
  <2> QED
    BY <1>2, <1>4, <1>5, <2>1, <2>2
<1> QED
  BY <1>5, <1>6, <1>7

-----------------------------------------------------------------------------
(* Passes and values *)

\* The value and the key of the pass at i in the container that begins at q.
ValueAt(q, i) == IF IsObject(q) THEN i + 3 ELSE i + 1
KeyAt(q, i) == IF IsObject(q) THEN i + 1 ELSE NoKey

\* Where a container has passes.
LEMMA PassItem ==
  ASSUME Fine, NEW q, NEW c, Closes(q, c), NEW i \in Passes(q)
  PROVE  i \in q .. c - 3 /\ Item(q, i)
<1>1. /\ q \in Nat /\ c \in Nat /\ EOFAt \in Nat /\ q < c /\ c < EOFAt
  BY ClosesBounds
<1>2. q \in 0 .. EOFAt - 1 /\ End(q) = c
  BY <1>1, EndRight
<1>3. i \in q .. c - 3
  BY <1>1, <1>2, PassesInside
<1>4. i = q \/ i \in Separators(q)
  BY Zenon DEF Passes
<1>5. Item(q, i)
  BY <1>4, SeparatorsRight, Zenon DEF Item
<1> QED
  BY <1>3, <1>5

\* A value in the words of these lemmas.
LEMMA ValueIs ==
  ASSUME NEW p
  PROVE  IsValue(p) <=> (SimpleAt(p) \/ Opener(p)) /\ ~IsColon(p + 1)
BY Zenon DEF IsValue, SimpleAt, Opener, IsColon

\* What a pass reads: a value of its container, behind its key if it is an object.
LEMMA PassReads ==
  ASSUME Fine, NEW q \in Positions, Opener(q), NEW i \in Passes(q)
  PROVE  /\ q \in Nat /\ i \in Nat /\ EOFAt \in Nat
         /\ ValueAt(q, i) \in q + 1 .. EOFAt - 1 /\ Around(q, ValueAt(q, i))
         /\ IsValue(ValueAt(q, i)) /\ (SimpleAt(ValueAt(q, i)) \/ Opener(ValueAt(q, i)))
         /\ IsObject(q) => IsString(i + 1)
         /\ ~IsObject(q) /\ ~IsArray(i + 1) => ~IsObject(i + 2)
<1>1. PICK c : Closes(q, c)
  BY ClosesExists DEF Positions
<1>2. q \in Nat /\ c \in Nat /\ EOFAt \in Nat /\ q < c /\ c < EOFAt
  BY <1>1, ClosesBounds
<1>3. i \in q .. c - 3 /\ Item(q, i)
  BY <1>1, PassItem
<1>4. i \in Nat /\ (i + 3) + 1 = i + 4 /\ (i + 1) + 1 = i + 2
  BY <1>2, <1>3
<1>5. CASE IsObject(q)
  <2>1. /\ IsString(i + 1) /\ (SimpleAt(i + 3) \/ Opener(i + 3))
        /\ Around(q, i + 3) /\ ~IsColon(i + 4) /\ i + 3 \in q + 1 .. c - 1
    BY <1>1, <1>3, <1>5, ObjectPass
  <2>2. ValueAt(q, i) = i + 3
    BY <1>5 DEF ValueAt
  <2>3. IsValue(i + 3)
    BY <1>4, <2>1, ValueIs
  <2>4. i + 3 \in q + 1 .. EOFAt - 1
    BY <1>2, <1>4, <2>1
  <2> QED
    BY <1>2, <1>4, <1>5, <2>1, <2>2, <2>3, <2>4
<1>6. CASE ~IsObject(q)
  <2>1. /\ SimpleAt(i + 1) \/ Opener(i + 1)
        /\ Around(q, i + 1) /\ ~IsColon(i + 2) /\ i + 1 \in q + 1 .. c - 1
        /\ ~IsArray(i + 1) => ~IsObject(i + 2)
    BY <1>1, <1>3, <1>6, ArrayPass
  <2>2. ValueAt(q, i) = i + 1
    BY <1>6 DEF ValueAt
  <2>3. IsValue(i + 1)
    BY <1>4, <2>1, ValueIs
  <2>4. i + 1 \in q + 1 .. EOFAt - 1
    BY <1>2, <1>4, <2>1
  <2> QED
    BY <1>2, <1>4, <1>6, <2>1, <2>2, <2>3, <2>4
<1> QED
  BY <1>5, <1>6

\* A key is not a value, as a colon follows it.
LEMMA KeyNoValue ==
  ASSUME Fine, NEW q, NEW c, Closes(q, c), NEW p \in q + 1 .. c - 1,
         Around(q, p), IsString(p), IsObject(q), Begins(q, p)
  PROVE  IsColon(p + 1)
<1>1. q \in Nat /\ c \in Nat /\ EOFAt \in Nat /\ q < c /\ c < EOFAt /\ Opener(q)
  BY ClosesBounds
<1>2. /\ p # q /\ (p + 1) - 1 = p /\ (p + 1) - 2 = p - 1
      /\ p + 1 \in q + 1 .. c
  BY <1>1
<1>3. OneKind(p) /\ OneKind(p + 1) /\ OneKind(p - 1) /\ OneKind(q)
  BY TokenKinds
<1>4. Flat(p) /\ ~IsComma(p) /\ ~IsColon(p) /\ ~Closer(p)
  BY <1>3 DEF OneKind, Flat
<1>5. ~IsColon(p - 1)
  BY <1>1, <1>3, Zenon DEF OneKind, Begins
<1>6. Grammar(q, p + 1)
  BY <1>4, FlatNext
<1> QED
  BY <1>2, <1>4, <1>5, <1>6, Zenon DEF Grammar, Ended, Begins

\* The token before the first of a key or an element is where a pass begins.
LEMMA CommaItem ==
  ASSUME Fine, NEW q, NEW c, Closes(q, c), NEW p \in q + 1 .. c - 1,
         Around(q, p), Begins(q, p)
  PROVE  Item(q, p - 1)
<1>1. q \in Nat /\ c \in Nat /\ q < c
  BY ClosesBounds
<1>2. CASE p - 1 = q
  BY <1>2 DEF Item
<1>3. CASE p - 1 # q
  <2>1. IsComma(p - 1)
    BY <1>3 DEF Begins
  <2>2. Flat(p - 1)
    BY <2>1, CommaOnly, Zenon DEF Flat
  <2>3. p - 1 \in q + 1 .. c - 1 /\ (p - 1) + 1 = p
    BY <1>1, <1>3
  <2>4. Around(q, (p - 1) + 1)
    BY <2>3
  <2>5. Around(q, p - 1)
    BY <2>2, <2>3, <2>4, AroundPrevious
  <2> QED
    BY <2>1, <2>5 DEF Item
<1> QED
  BY <1>2, <1>3

\* The three tokens before the value of a property.
LEMMA ValueInObject ==
  ASSUME Fine, NEW q, NEW c, Closes(q, c), IsObject(q), NEW p \in q + 1 .. c - 1,
         Around(q, p), SimpleAt(p) \/ Opener(p), ~IsColon(p + 1)
  PROVE  p - 3 \in q .. c /\ Item(q, p - 3)
<1>1. q \in Nat /\ c \in Nat /\ EOFAt \in Nat /\ q < c /\ c < EOFAt /\ Opener(q)
  BY ClosesBounds
<1>2. /\ p \in 1 .. EOFAt - 1 /\ p \in Nat
      /\ (p - 1) - 1 = p - 2 /\ (p - 1) - 2 = p - 3 /\ (p - 2) - 1 = p - 3
      /\ (p - 1) + 1 = p /\ (p - 2) + 1 = p - 1 /\ (p - 3) + 1 = p - 2
  BY <1>1
<1>3. OneKind(p) /\ OneKind(p - 1) /\ OneKind(p - 2) /\ OneKind(p - 3) /\ OneKind(q)
  BY TokenKinds
<1>4. Grammar(q, p)
  BY <1>1, <1>2, GrammarAround
<1>5. ~IsComma(p) /\ ~Closer(p) /\ ~IsColon(p)
  BY <1>3, Zenon DEF OneKind
<1>6. IsColon(p - 1)
  <2>1. ~(IsString(p) /\ Begins(q, p))
    BY KeyNoValue
  <2> QED
    BY <1>4, <1>5, <2>1, Zenon DEF Grammar
<1>7. p - 1 # q
  BY <1>1, <1>3, <1>6, Zenon DEF OneKind
<1>8. p - 1 \in q + 1 .. c - 1 /\ p - 1 \in 1 .. EOFAt - 1
  BY <1>1, <1>2, <1>7
<1>9. Flat(p - 1) /\ ~IsString(p - 1) /\ ~SimpleAt(p - 1) /\ ~Opener(p - 1)
      /\ ~IsComma(p - 1) /\ ~Closer(p - 1)
  BY <1>3, <1>6 DEF OneKind, Flat
<1>10. Around(q, p - 1)
  <2>1. Around(q, (p - 1) + 1)
    BY <1>2
  <2> QED
    BY <2>1, <1>8, <1>9, AroundPrevious
<1>11. Grammar(q, p - 1)
  BY <1>1, <1>8, <1>10, GrammarAround
<1>12. IsString(p - 2) /\ ~IsColon(p - 3)
  BY <1>2, <1>9, <1>11, Zenon DEF Grammar
<1>13. p - 2 # q
  BY <1>1, <1>3, <1>12, Zenon DEF OneKind
<1>14. p - 2 \in q + 1 .. c - 1 /\ p - 2 \in 1 .. EOFAt - 1
  BY <1>1, <1>2, <1>8, <1>13
<1>15. /\ Flat(p - 2) /\ ~IsColon(p - 2) /\ ~Closer(p - 2) /\ ~IsComma(p - 2)
  BY <1>3, <1>12 DEF OneKind, Flat
<1>16. Around(q, p - 2)
  <2>1. Around(q, (p - 2) + 1)
    BY <1>2, <1>10
  <2> QED
    BY <2>1, <1>14, <1>15, AroundPrevious
<1>17. Grammar(q, p - 2)
  BY <1>1, <1>14, <1>16, GrammarAround
<1>18. Begins(q, p - 2)
  BY <1>2, <1>12, <1>15, <1>17, Zenon DEF Grammar
<1>19. p - 3 \in q .. c
  BY <1>1, <1>2, <1>14
<1>20. Item(q, p - 3)
  <2>1. Item(q, (p - 2) - 1)
    BY <1>14, <1>16, <1>18, CommaItem
  <2> QED
    BY <1>2, <2>1
<1> QED
  BY <1>19, <1>20

\* The token before an element of an array.
LEMMA ValueInArray ==
  ASSUME Fine, NEW q, NEW c, Closes(q, c), ~IsObject(q), NEW p \in q + 1 .. c - 1,
         Around(q, p), SimpleAt(p) \/ Opener(p)
  PROVE  p - 1 \in q .. c /\ Item(q, p - 1)
<1>1. q \in Nat /\ c \in Nat /\ EOFAt \in Nat /\ q < c /\ c < EOFAt
  BY ClosesBounds
<1>2. p \in 1 .. EOFAt - 1 /\ p - 1 \in q .. c
  BY <1>1
<1>3. OneKind(p)
  BY TokenKinds
<1>4. Grammar(q, p)
  BY <1>1, <1>2, GrammarAround
<1>5. Begins(q, p)
  BY <1>3, <1>4, Zenon DEF Grammar, OneKind
<1> QED
  BY <1>2, <1>5, CommaItem

\* Each value of a container is the one behind the start or behind a comma of it.
LEMMA ValueItem ==
  ASSUME Fine, NEW q, NEW c, Closes(q, c), NEW p \in ValuesIn(q)
  PROVE  p \in Nat /\ \E i \in q .. c - 2 : Item(q, i) /\ ValueAt(q, i) = p
<1>1. q \in Nat /\ c \in Nat /\ EOFAt \in Nat /\ q < c /\ c < EOFAt
  BY ClosesBounds
<1>2. p \in q + 1 .. EOFAt /\ Around(q, p) /\ (SimpleAt(p) \/ Opener(p)) /\ ~IsColon(p + 1)
  BY ValueIs, Zenon DEF ValuesIn, Around
<1>3. p \in Nat /\ p \in q + 1 .. c
  BY <1>1, <1>2, AroundEnds
<1>4. p # c
  <2>1. Closer(c) /\ OneKind(p)
    BY ClosesCloser, TokenKinds
  <2> QED
    BY <1>2, <2>1, Zenon DEF OneKind
<1>5. p \in q + 1 .. c - 1
  BY <1>1, <1>3, <1>4
<1>6. CASE IsObject(q)
  <2>1. p - 3 \in q .. c /\ Item(q, p - 3)
    BY <1>2, <1>5, <1>6, ValueInObject
  <2>2. p - 3 \in q .. c - 2 /\ ValueAt(q, p - 3) = p
    BY <1>1, <1>5, <1>6, <2>1 DEF ValueAt
  <2> QED
    BY <1>3, <2>1, <2>2
<1>7. CASE ~IsObject(q)
  <2>1. p - 1 \in q .. c /\ Item(q, p - 1)
    BY <1>2, <1>5, <1>7, ValueInArray
  <2>2. p - 1 \in q .. c - 2 /\ ValueAt(q, p - 1) = p
    BY <1>1, <1>5, <1>7, <2>1 DEF ValueAt
  <2> QED
    BY <1>3, <2>1, <2>2
<1> QED
  BY <1>6, <1>7

\* Each value of a container has a pass, if it is before another value of it.
LEMMA ValuePass ==
  ASSUME Fine, NEW q \in Positions, Opener(q),
         NEW p \in ValuesIn(q), NEW r \in ValuesIn(q), p < r
  PROVE  \E i \in Passes(q) : ValueAt(q, i) = p
<1>1. PICK c : Closes(q, c)
  BY ClosesExists DEF Positions
<1>2. q \in Nat /\ c \in Nat
  BY <1>1, ClosesBounds
<1>3. PICK i \in q .. c - 2 : Item(q, i) /\ ValueAt(q, i) = p
  BY <1>1, ValueItem
<1>4. PICK j \in q .. c - 2 : Item(q, j) /\ ValueAt(q, j) = r
  BY <1>1, ValueItem
<1>5. i < j
  BY <1>2, <1>3, <1>4 DEF ValueAt
<1>6. ASSUME NEW k \in q .. c - 2, Item(q, k), k # q
      PROVE  k \in Separators(q)
  <2>1. k \in q + 1 .. c - 2 /\ IsComma(k) /\ Around(q, k)
    BY <1>2, <1>6 DEF Item
  <2> QED
    BY <1>1, <2>1, SeparatorsRight
<1>7. j \in Separators(q)
  BY <1>2, <1>4, <1>5, <1>6
<1>8. i \in {q} \cup Separators(q)
  BY <1>3, <1>6
<1> QED
  BY <1>3, <1>5, <1>7, <1>8, Zenon DEF Passes

-----------------------------------------------------------------------------
(* What is built of a well-formed text *)

\* As what the value at p comes out of the container at q.
How(q, p) ==
  IF SimpleAt(p) THEN "simple"
  ELSE IF IsArray(q) /\ IsObject(p) THEN "untyped" ELSE "container"

\* The member that the pass at i in the container at q makes, and that of main's call.
Made(q, i) == Member(q, KeyAt(q, i), ValueAt(q, i), How(q, ValueAt(q, i)))
MainMember == Member(Main, NoKey, 0, "container")

\* Where the containers of the text begin.
Containers == {q \in Positions : Opener(q)}

\* The container at q is main's, or one that is a member that is built.
Reached(q, built) ==
  \/ q = 0
  \/ \E o \in Containers : \E i \in Passes(o) :
       Made(o, i) \in built /\ ValueAt(o, i) = q /\ How(o, q) = "container"

\* Passes made the members, in the order of their container, and only in containers
\* that were reached.
MembersBuilt(built) ==
  /\ \A m \in built : m = MainMember \/ \E q \in Containers : \E i \in Passes(q) : m = Made(q, i)
  /\ \A q \in Containers : \A i \in Passes(q) :
       Made(q, i) \in built =>
         /\ Reached(q, built)
         /\ \A j \in Passes(q) : j < i => Made(q, j) \in built

\* What a call has left to do is what is not built of its container.
FrameBuilt(frame, built) ==
  /\ frame.start \in Containers /\ Reached(frame.start, built)
  /\ \A i : i \in frame.todo <=> i \in Passes(frame.start) /\ Made(frame.start, i) \notin built

\* Each container that was reached has a call under way or all the members that
\* passes make.
AllBuilt(calls, built) ==
  \A q \in Containers : Reached(q, built) =>
    \/ \E k \in 1 .. Len(calls) : calls[k].start = q
    \/ \A i \in Passes(q) : Made(q, i) \in built

(***************************************************************************)
(* The invariant for well-formed texts: each member is made by a pass, in  *)
(* order, in a container that was reached, a frame has the passes left     *)
(* whose member is not there, and no pass is left without a frame.         *)
(***************************************************************************)
Built ==
  /\ stage = "called" => stack = << >> /\ members = {}
  /\ stage # "called" => AllBuilt(stack, members)
  /\ stage = "cleaned" => stack = << >>
  /\ MembersBuilt(members)
  /\ \A k \in 1 .. Len(stack) : FrameBuilt(stack[k], members)
  /\ stage = "crashed" => ~NoObjectInArray

\* All of this is the same in the next state, but for what is built.
LEMMA TextSame ==
  ASSUME tokens' = tokens
  PROVE  /\ Positions' = Positions /\ Containers' = Containers /\ MainMember' = MainMember
         /\ Fine' = Fine /\ NoObjectInArray' = NoObjectInArray
         /\ \A q : Passes(q)' = Passes(q)
         /\ \A q, i : Made(q, i)' = Made(q, i) /\ ValueAt(q, i)' = ValueAt(q, i)
         /\ \A q, p : How(q, p)' = How(q, p)
<1>1. EOFAt' = EOFAt /\ \A s : End(s)' = End(s)
  BY EndSame
<1>2. \A p : Token(p)' = Token(p)
  BY Zenon DEF Token
<1>3. Positions' = Positions /\ MainMember' = MainMember
  BY <1>1 DEF Positions, MainMember, Member, Main, NoKey
<1>4. Containers' = Containers
  BY <1>2, <1>3, Zenon DEF Containers, Opener
<1>5. Fine' = Fine
  BY Zenon DEF Fine
<1>6. NoObjectInArray' = NoObjectInArray
  BY <1>1, <1>2, Zenon DEF NoObjectInArray
<1>7. \A q : Scanned(q)' = Scanned(q)
  BY <1>1, Zenon DEF Scanned
<1>8. \A s, i, open, close : Excess(s, i, open, close)' = Excess(s, i, open, close)
  BY <1>2, Zenon DEF Excess
<1>9. \A q : Separators(q)' = Separators(q)
  BY <1>2, <1>7, <1>8, Zenon DEF Separators
<1>10. \A q : Passes(q)' = Passes(q)
  BY <1>9, Zenon DEF Passes
<1>11. \A q, i : ValueAt(q, i)' = ValueAt(q, i) /\ KeyAt(q, i)' = KeyAt(q, i)
  BY <1>2, Zenon DEF ValueAt, KeyAt, IsObject, NoKey
<1>12. \A q, p : How(q, p)' = How(q, p)
  BY <1>2, Zenon DEF How, SimpleAt, IsArray, IsObject
<1>13. \A q, i : Made(q, i)' = Made(q, i)
  BY <1>11, <1>12, Zenon DEF Made, Member
<1> QED
  BY <1>3, <1>4, <1>5, <1>6, <1>10, <1>11, <1>12, <1>13

\* A member tells which pass made it.
LEMMA MadeOnce ==
  ASSUME Fine, NEW q1 \in Containers, NEW q2 \in Containers,
         NEW i1 \in Passes(q1), NEW i2 \in Passes(q2), Made(q1, i1) = Made(q2, i2)
  PROVE  q1 = q2 /\ i1 = i2
<1>1. Made(q1, i1).in = Made(q2, i2).in /\ Made(q1, i1).at = Made(q2, i2).at
  OBVIOUS
<1>2. q1 = q2 /\ ValueAt(q1, i1) = ValueAt(q2, i2)
  BY <1>1 DEF Made, Member
<1>3. i1 \in Nat /\ i2 \in Nat
  BY PassReads DEF Containers
<1> QED
  BY <1>2, <1>3 DEF ValueAt

\* And it is not the one main makes.
LEMMA MadeNotMain ==
  ASSUME Fine, NEW q \in Containers, NEW i \in Passes(q)
  PROVE  Made(q, i) # MainMember
<1>1. q \in Nat
  BY PassReads DEF Containers
<1>2. Made(q, i).in = q /\ MainMember.in = -1
  BY DEF Made, MainMember, Member, Main
<1> QED
  BY <1>1, <1>2

\* A value is the value of one pass.
LEMMA ValueOnce ==
  ASSUME Fine, NEW q1 \in Containers, NEW q2 \in Containers,
         NEW i1 \in Passes(q1), NEW i2 \in Passes(q2), ValueAt(q1, i1) = ValueAt(q2, i2)
  PROVE  q1 = q2 /\ i1 = i2
<1>1. q1 \in Positions /\ Opener(q1) /\ q2 \in Positions /\ Opener(q2)
  BY DEF Containers
<1>2. /\ q1 \in Nat /\ i1 \in Nat /\ ValueAt(q1, i1) \in q1 + 1 .. EOFAt - 1
      /\ EOFAt \in Nat /\ Around(q1, ValueAt(q1, i1))
  BY <1>1, PassReads
<1>3. q2 \in Nat /\ i2 \in Nat /\ Around(q2, ValueAt(q2, i2))
  BY <1>1, PassReads
<1>4. ValueAt(q1, i1) \in Nat
  BY <1>2
<1>5. q1 = q2
  BY <1>2, <1>3, <1>4, AroundOnce
<1> QED
  BY <1>2, <1>3, <1>5 DEF ValueAt

-----------------------------------------------------------------------------
(* One member more *)

\* A container whose own member is not there has none inside.
LEMMA NoneInside ==
  ASSUME Fine, NEW built, MembersBuilt(built), NEW q \in Containers, NEW i \in Passes(q),
         Made(q, i) \notin built, ValueAt(q, i) \in Containers
  PROVE  \A j \in Passes(ValueAt(q, i)) : Made(ValueAt(q, i), j) \notin built
<1>1. PICK p : p = ValueAt(q, i)
  OBVIOUS
<1>2. SUFFICES ASSUME NEW j \in Passes(p), Made(p, j) \in built PROVE FALSE
  BY <1>1
<1>3. p \in Containers
  BY <1>1
<1>4. Reached(p, built)
  BY <1>2, <1>3 DEF MembersBuilt
<1>5. p # 0
  <2>1. q \in Nat /\ EOFAt \in Nat /\ ValueAt(q, i) \in q + 1 .. EOFAt - 1
    BY PassReads DEF Containers
  <2> QED
    BY <1>1, <2>1
<1>6. PICK o \in Containers : \E k \in Passes(o) : Made(o, k) \in built /\ ValueAt(o, k) = p
  BY <1>4, <1>5 DEF Reached
<1>7. PICK k \in Passes(o) : Made(o, k) \in built /\ ValueAt(o, k) = p
  BY <1>6
<1>8. o = q /\ k = i
  BY <1>1, <1>7, ValueOnce
<1> QED
  BY <1>7, <1>8

\* The member of the next pass of a container that was reached keeps the order.
LEMMA MembersAdd ==
  ASSUME Fine, NEW built, MembersBuilt(built), NEW q \in Containers, NEW i \in Passes(q),
         Reached(q, built), \A j \in Passes(q) : j < i => Made(q, j) \in built
  PROVE  /\ MembersBuilt(built \cup {Made(q, i)})
         /\ \A r : Reached(r, built) => Reached(r, built \cup {Made(q, i)})
         /\ How(q, ValueAt(q, i)) = "container" =>
              Reached(ValueAt(q, i), built \cup {Made(q, i)})
         /\ \A r : Reached(r, built \cup {Made(q, i)}) =>
              \/ Reached(r, built)
              \/ r = ValueAt(q, i) /\ How(q, r) = "container"
<1> DEFINE new == built \cup {Made(q, i)}
<1>1. built \subseteq new /\ Made(q, i) \in new
  OBVIOUS
<1>2. \A m \in new : m \in built \/ m = Made(q, i)
  OBVIOUS
<1> HIDE DEF new
<1>3. ASSUME NEW r, Reached(r, built)
      PROVE  Reached(r, new)
  BY <1>1, <1>3, Zenon DEF Reached
<1>4. How(q, ValueAt(q, i)) = "container" => Reached(ValueAt(q, i), new)
  BY <1>1, Zenon DEF Reached
<1>5. \A m \in new : m = MainMember \/ \E r \in Containers : \E k \in Passes(r) : m = Made(r, k)
  BY <1>2, Zenon DEF MembersBuilt
<1>6. ASSUME NEW r \in Containers, NEW k \in Passes(r), Made(r, k) \in new
      PROVE  Reached(r, new) /\ \A j \in Passes(r) : j < k => Made(r, j) \in new
  <2>1. CASE Made(r, k) \in built
    BY <1>1, <1>3, <2>1, Zenon DEF MembersBuilt
  <2>2. CASE Made(r, k) = Made(q, i)
    <3>1. r = q /\ k = i
      BY <2>2, MadeOnce
    <3> QED
      BY <1>1, <1>3, <3>1, Zenon
  <2> QED
    BY <1>2, <1>6, <2>1, <2>2
<1>7. MembersBuilt(new)
  BY <1>5, <1>6, Zenon DEF MembersBuilt
<1>8. ASSUME NEW r, Reached(r, new), ~Reached(r, built)
      PROVE  r = ValueAt(q, i) /\ How(q, r) = "container"
  <2>1. PICK o \in Containers : \E k \in Passes(o) :
          Made(o, k) \in new /\ ValueAt(o, k) = r /\ How(o, r) = "container"
    BY <1>8, Zenon DEF Reached
  <2>2. PICK k \in Passes(o) :
          Made(o, k) \in new /\ ValueAt(o, k) = r /\ How(o, r) = "container"
    BY <2>1
  <2>3. Made(o, k) = Made(q, i)
    BY <1>2, <1>8, <2>2, Zenon DEF Reached
  <2>4. o = q /\ k = i
    BY <2>3, MadeOnce
  <2> QED
    BY <2>2, <2>4
<1> QED
  BY <1>3, <1>4, <1>7, <1>8 DEF new

\* The frames of other containers have the passes left that they had.
LEMMA OthersBuilt ==
  ASSUME Fine, NEW built, NEW q \in Containers, NEW i \in Passes(q),
         NEW frame, FrameBuilt(frame, built), frame.start # q,
         Reached(frame.start, built \cup {Made(q, i)})
  PROVE  FrameBuilt(frame, built \cup {Made(q, i)})
<1>1. frame.start \in Containers
  BY DEF FrameBuilt
<1>2. ASSUME NEW j \in Passes(frame.start)
      PROVE  Made(frame.start, j) # Made(q, i)
  BY <1>1, MadeOnce
<1> QED
  BY <1>1, <1>2 DEF FrameBuilt

\* The frame of the container itself has one less.
LEMMA TopBuilt ==
  ASSUME Fine, NEW built, NEW q \in Containers, NEW i \in Passes(q),
         NEW frame, FrameBuilt(frame, built), frame.start = q,
         Reached(q, built \cup {Made(q, i)}),
         NEW left, left.start = q, left.todo = frame.todo \ {i}
  PROVE  FrameBuilt(left, built \cup {Made(q, i)})
<1>1. ASSUME NEW j
      PROVE  j \in left.todo <=> j \in Passes(q) /\ Made(q, j) \notin built \cup {Made(q, i)}
  <2>1. j \in left.todo <=> (j \in Passes(q) /\ Made(q, j) \notin built) /\ j # i
    BY DEF FrameBuilt
  <2>2. j \in Passes(q) => (Made(q, j) = Made(q, i) <=> j = i)
    BY MadeOnce
  <2> QED
    BY <2>1, <2>2
<1> QED
  BY <1>1 DEF FrameBuilt

\* A new frame has all its passes left.
LEMMA NewBuilt ==
  ASSUME Fine, NEW built, NEW q \in Containers, NEW i \in Passes(q),
         NEW p \in Containers, p # q, Reached(p, built \cup {Made(q, i)}),
         \A j \in Passes(p) : Made(p, j) \notin built,
         NEW frame, frame.start = p, frame.todo = Passes(p)
  PROVE  FrameBuilt(frame, built \cup {Made(q, i)})
<1>1. ASSUME NEW j \in Passes(p)
      PROVE  Made(p, j) # Made(q, i)
  BY MadeOnce
<1> QED
  BY <1>1 DEF FrameBuilt

-----------------------------------------------------------------------------
(* The steps, for a well-formed text *)

\* Each call starts behind all those that are under way, not just the one that made it.
LEMMA StartsIncrease ==
  ASSUME Inv
  PROVE  \A n \in 1 .. Len(stack), k \in 1 .. Len(stack) :
           k < n => stack[k].start < stack[n].start
<1>1. stack \in Seq(Frames) /\ Len(stack) \in Nat
  BY DEF Inv, StackOK
<1>2. \A k \in 1 .. Len(stack) : stack[k].start \in Int
  <2>1. EOFAt \in Nat
    BY TokensEnd DEF Inv
  <2>2. ASSUME NEW k \in 1 .. Len(stack)
        PROVE  stack[k].start \in 0 .. EOFAt - 1
    <3>1. stack[k] \in Frames
      BY <1>1
    <3> QED
      BY <3>1 DEF Frames, Positions
  <2> QED
    BY <2>1, <2>2
<1>3. \A k \in 2 .. Len(stack) : stack[k - 1].start < stack[k].start
  BY DEF Inv, StackOK
<1> SUFFICES ASSUME NEW k \in 1 .. Len(stack)
             PROVE  \A n \in 1 .. Len(stack) : k < n => stack[k].start < stack[n].start
  OBVIOUS
<1> DEFINE Bad == {n \in 1 .. Len(stack) : k < n /\ ~(stack[k].start < stack[n].start)}
<1>4. SUFFICES ASSUME Bad # {} PROVE FALSE
  OBVIOUS
<1>5. Bad \subseteq Nat
  BY <1>1
<1>6. PICK n \in Bad : \A m \in Bad : n <= m
  <2> HIDE DEF Bad
  <2> QED BY <1>4, <1>5, LeastExists
<1>7. /\ n \in 2 .. Len(stack) /\ n - 1 \in 1 .. Len(stack) /\ k <= n - 1 /\ n - 1 < n
      /\ ~(stack[k].start < stack[n].start)
  BY <1>1, <1>6
<1>8. n - 1 \notin Bad
  <2>1. n - 1 \in Bad => n <= n - 1
    BY <1>6
  <2> QED
    BY <2>1, <1>7
<1>9. stack[k].start <= stack[n - 1].start
  <2>1. CASE k = n - 1
    BY <2>1, <1>2
  <2>2. CASE k < n - 1
    BY <2>2, <1>2, <1>7, <1>8
  <2> QED
    BY <1>7, <2>1, <2>2
<1>10. stack[n - 1].start < stack[n].start
  BY <1>3, <1>7
<1>11. stack[k].start \in Int /\ stack[n - 1].start \in Int /\ stack[n].start \in Int
  BY <1>2, <1>7
<1> QED
  BY <1>7, <1>9, <1>10, <1>11

\* The stack without the pass at i of the call on top.
LEMMA BelowIs ==
  ASSUME Inv, stack # << >>, NEW i
  PROVE  /\ Len(stack) \in Nat \ {0} /\ Top = stack[Len(stack)] /\ Top \in Frames
         /\ Below(i) \in Seq(Frames) /\ Len(Below(i)) = Len(stack)
         /\ Below(i)[Len(stack)].start = Top.start
         /\ Below(i)[Len(stack)].todo = Top.todo \ {i}
         /\ \A k \in 1 .. Len(stack) - 1 : Below(i)[k] = stack[k]
         /\ \A k \in 1 .. Len(stack) - 1 : stack[k].start # Top.start
<1>1. stack \in Seq(Frames) /\ Len(stack) \in Nat \ {0}
  BY DEF Inv, StackOK
<1>2. Top = stack[Len(stack)] /\ Top \in Frames
  BY <1>1 DEF Top
<1> DEFINE left == [Top EXCEPT !.todo = @ \ {i}]
<1>3. Below(i) = [stack EXCEPT ![Len(stack)] = left]
  BY <1>2 DEF Below, PassDone
<1>4. left \in Frames /\ left.start = Top.start /\ left.todo = Top.todo \ {i}
  BY <1>2 DEF Frames
<1> HIDE DEF left
<1>5. /\ Below(i) \in Seq(Frames) /\ Len(Below(i)) = Len(stack)
      /\ Below(i)[Len(stack)] = left
      /\ \A k \in 1 .. Len(stack) - 1 : Below(i)[k] = stack[k]
  BY <1>1, <1>3, <1>4
<1>6. \A k \in 1 .. Len(stack) - 1 : stack[k].start < Top.start
  BY <1>1, <1>2, StartsIncrease
<1>7. EOFAt \in Nat /\ Top.start \in Int
  <2>1. EOFAt \in Nat
    BY TokensEnd DEF Inv
  <2>2. Top.start \in 0 .. EOFAt - 1
    BY <1>2 DEF Frames, Positions
  <2> QED
    BY <2>1, <2>2
<1>8. ASSUME NEW k \in 1 .. Len(stack) - 1
      PROVE  stack[k].start \in 0 .. EOFAt - 1
  <2>1. stack[k] \in Frames
    BY <1>1
  <2> QED
    BY <2>1 DEF Frames, Positions
<1>9. \A k \in 1 .. Len(stack) - 1 : stack[k].start # Top.start
  BY <1>6, <1>7, <1>8
<1> QED
  BY <1>1, <1>2, <1>4, <1>5, <1>9

\* What a pass at i in the container at q does: it makes its member, and goes into it
\* if it is a container.
Makes(q, i) ==
  /\ tokens' = tokens /\ stage' = stage /\ members' = members \cup {Made(q, i)}
  /\ \/ stack' = Below(i) /\ How(q, ValueAt(q, i)) # "container"
     \/ /\ ValueAt(q, i) \in Containers /\ How(q, ValueAt(q, i)) = "container"
        /\ stack' = Append(Below(i), [start |-> ValueAt(q, i), todo |-> Passes(ValueAt(q, i))])

\* The end of each container is found.
LEMMA CallMakes ==
  ASSUME Fine, NEW in, NEW key, NEW p \in Positions, NEW opener, NEW below,
         Call(in, key, p, opener, below), Token(p) = opener, Opener(p)
  PROVE  /\ stack' = Append(below, [start |-> p, todo |-> Passes(p)])
         /\ members' = members \cup {Member(in, key, p, "container")}
<1>1. PICK c : Closes(p, c)
  BY ClosesExists DEF Positions
<1>2. End(p) = c /\ c \in Nat /\ EOFAt \in Nat /\ c < EOFAt
  BY <1>1, EndRight, ClosesBounds
<1>3. End(p) # EOFAt
  BY <1>2
<1> QED
  BY <1>3 DEF Call

\* A simple value has the literal it needs, so _parseValue returns it.
LEMMA SimpleHasLiteral ==
  ASSUME NEW in, NEW key, NEW p, NEW below, ParseValue(in, key, p, below),
         Token(p) \in Simple \cup Openers
  PROVE  /\ stage' = stage /\ stack' = below
         /\ members' = members \cup
              {Member(in, key, p, IF SimpleAt(p) THEN "simple" ELSE "untyped")}
<1>1. Token(p) # NoLiteral
  BY Zenon DEF Simple, Literals, Words, Openers, NoLiteral
<1> QED
  BY <1>1, Zenon DEF ParseValue, SimpleAt

\* A pass of parseObject makes the property it should.
LEMMA PropertyMakes ==
  ASSUME Fine, NEW q \in Containers, Top.start = q, NEW i \in Passes(q), PropertyPass(i),
         tokens' = tokens
  PROVE  Makes(q, i)
<1>1. IsObject(q)
  BY Zenon DEF PropertyPass, IsObject
<1>2. q \in Positions /\ Opener(q) /\ EOFAt \in Nat /\ q \in Nat
  BY PassReads DEF Containers
<1>3. PICK p : p = ValueAt(q, i)
  OBVIOUS
<1>4. /\ p \in q + 1 .. EOFAt - 1 /\ (SimpleAt(p) \/ Opener(p)) /\ IsString(i + 1)
  BY <1>1, <1>2, <1>3, PassReads
<1>5. p = ValueOf(i) /\ KeyAt(q, i) = i + 1
  BY <1>1, <1>3 DEF ValueAt, ValueOf, KeyAt
<1>6. p \in Positions
  BY <1>2, <1>4 DEF Positions
<1>7. Token(i + 1) \in Literals
  BY <1>4, Zenon DEF IsString, Literals
<1>8. ~IsArray(q) /\ OneKind(p)
  <2>1. OneKind(q) /\ OneKind(p)
    BY TokenKinds
  <2> QED
    BY <1>1, <2>1 DEF OneKind
<1>9. /\ Opener(p) => stage' = stage /\ Call(q, i + 1, p, Token(p), Below(i))
      /\ ~Opener(p) => ParseValue(q, i + 1, p, Below(i))
  BY <1>5, <1>7, Zenon DEF PropertyPass, Opener
<1>10. Token(p) \in Simple \cup Openers
  BY <1>4, Zenon DEF SimpleAt, Opener
<1>11. CASE Opener(p)
  <2>1. /\ stack' = Append(Below(i), [start |-> p, todo |-> Passes(p)])
        /\ members' = members \cup {Member(q, i + 1, p, "container")}
    BY <1>6, <1>9, <1>11, CallMakes
  <2>2. How(q, p) = "container"
    BY <1>8, <1>11 DEF How, OneKind
  <2>3. p \in Containers
    BY <1>6, <1>11 DEF Containers
  <2>4. Made(q, i) = Member(q, i + 1, p, "container")
    BY <1>3, <1>5, <2>2, Zenon DEF Made
  <2> QED
    BY <1>3, <1>9, <1>11, <2>1, <2>2, <2>3, <2>4, Zenon DEF Makes
<1>12. CASE ~Opener(p)
  <2>1. SimpleAt(p)
    BY <1>4, <1>12
  <2>2. /\ stage' = stage /\ stack' = Below(i)
        /\ members' = members \cup {Member(q, i + 1, p, "simple")}
    BY <1>9, <1>10, <1>12, <2>1, SimpleHasLiteral, Zenon
  <2>3. How(q, p) = "simple"
    BY <2>1 DEF How
  <2>4. Made(q, i) = Member(q, i + 1, p, "simple")
    BY <1>3, <1>5, <2>3, Zenon DEF Made
  <2>5. How(q, ValueAt(q, i)) # "container"
    BY <1>3, <2>3
  <2> QED
    BY <2>2, <2>4, <2>5, Zenon DEF Makes
<1> QED
  BY <1>11, <1>12

\* A pass of parseArray makes the element it should; an object is left untyped.
LEMMA ElementMakes ==
  ASSUME Fine, NEW q \in Containers, Top.start = q, NEW i \in Passes(q), ElementPass(i),
         tokens' = tokens
  PROVE  Makes(q, i)
<1>1. IsArray(q) /\ ~IsObject(q)
  <2>1. IsArray(q) /\ OneKind(q)
    BY TokenKinds, Zenon DEF ElementPass, IsArray
  <2> QED
    BY <2>1 DEF OneKind
<1>2. q \in Positions /\ Opener(q) /\ EOFAt \in Nat /\ q \in Nat
  BY PassReads DEF Containers
<1>3. PICK p : p = ValueAt(q, i)
  OBVIOUS
<1>4. p = Element(i) /\ p = i + 1 /\ KeyAt(q, i) = NoKey
  BY <1>1, <1>3 DEF ValueAt, Element, KeyAt
<1>5. /\ p \in q + 1 .. EOFAt - 1 /\ (SimpleAt(p) \/ Opener(p))
      /\ ~IsArray(p) => ~IsObject(i + 2)
  BY <1>1, <1>2, <1>3, <1>4, PassReads
<1>6. p \in Positions
  BY <1>2, <1>5 DEF Positions
<1>7. OneKind(p)
  BY TokenKinds
<1>8. \/ Token(p) = "[" /\ Call(q, NoKey, p, "[", Below(i)) /\ stage' = stage
      \/ Token(p) # "[" /\ Token(i + 2) = "{"
      \/ Token(p) # "[" /\ ParseValue(q, NoKey, p, Below(i))
  BY <1>4, Zenon DEF ElementPass
<1>9. \/ IsArray(p) /\ Token(p) = "[" /\ Call(q, NoKey, p, "[", Below(i)) /\ stage' = stage
      \/ ~IsArray(p) /\ ParseValue(q, NoKey, p, Below(i))
  BY <1>5, <1>8, Zenon DEF IsArray, IsObject
<1>10. CASE IsArray(p) /\ Token(p) = "[" /\ Call(q, NoKey, p, "[", Below(i)) /\ stage' = stage
  <2>1. Opener(p) /\ ~SimpleAt(p) /\ ~IsObject(p)
    BY <1>7, <1>10 DEF OneKind
  <2>2. /\ stack' = Append(Below(i), [start |-> p, todo |-> Passes(p)])
        /\ members' = members \cup {Member(q, NoKey, p, "container")}
    BY <1>6, <1>10, <2>1, CallMakes, Zenon
  <2>3. How(q, p) = "container"
    BY <2>1 DEF How
  <2>4. p \in Containers
    BY <1>6, <2>1 DEF Containers
  <2>5. Made(q, i) = Member(q, NoKey, p, "container")
    BY <1>3, <1>4, <2>3, Zenon DEF Made
  <2> QED
    BY <1>3, <1>10, <2>2, <2>3, <2>4, <2>5, Zenon DEF Makes
<1>11. CASE ~IsArray(p) /\ ParseValue(q, NoKey, p, Below(i))
  <2>1. /\ stage' = stage /\ stack' = Below(i)
        /\ members' = members \cup
             {Member(q, NoKey, p, IF SimpleAt(p) THEN "simple" ELSE "untyped")}
    <3>1. Token(p) \in Simple \cup Openers
      BY <1>5, Zenon DEF SimpleAt, Opener
    <3> QED
      BY <1>11, <3>1, SimpleHasLiteral, Zenon
  <2>2. ~SimpleAt(p) => IsObject(p)
    BY <1>5, <1>7, <1>11 DEF OneKind
  <2>3. How(q, p) = IF SimpleAt(p) THEN "simple" ELSE "untyped"
    BY <1>1, <2>2, Zenon DEF How
  <2>4. Made(q, i) = Member(q, NoKey, p, IF SimpleAt(p) THEN "simple" ELSE "untyped")
    BY <1>3, <1>4, <2>3, Zenon DEF Made
  <2>5. How(q, ValueAt(q, i)) # "container"
    BY <1>3, <2>3
  <2> QED
    BY <2>1, <2>4, <2>5, Zenon DEF Makes
<1> QED
  BY <1>9, <1>10, <1>11

\* Each pass makes its member, the first that its container has left.
LEMMA PassMakes ==
  ASSUME Inv, Fine, Built, Pass
  PROVE  \E q \in Containers : \E i \in Passes(q) :
           /\ stack # << >> /\ Top.start = q /\ i \in Top.todo /\ \A k \in Top.todo : i <= k
           /\ FrameBuilt(Top, members) /\ Makes(q, i) /\ stage = "building"
<1>1. stack # << >> /\ tokens' = tokens /\ stage = "building"
  BY DEF Pass
<1>2. PICK i \in Top.todo : NextPass(i) /\ (PropertyPass(i) \/ ElementPass(i))
  BY DEF Pass
<1>3. FrameBuilt(Top, members)
  <2>1. Len(stack) \in Nat \ {0} /\ Top = stack[Len(stack)]
    BY <1>1, BelowIs
  <2> QED
    BY <2>1 DEF Built
<1>4. Top.start \in Containers /\ i \in Passes(Top.start)
  BY <1>2, <1>3 DEF FrameBuilt
<1>5. Makes(Top.start, i)
  BY <1>1, <1>2, <1>4, PropertyMakes, ElementMakes
<1> QED
  BY <1>1, <1>2, <1>3, <1>4, <1>5 DEF NextPass

\* What holds of the next stage, stack and members in the positions of this state
\* holds in those of the next.
LEMMA BuiltNext ==
  ASSUME tokens' = tokens, MembersBuilt(members'),
         stage' = "called" => stack' = << >> /\ members' = {},
         stage' # "called" => AllBuilt(stack', members'),
         stage' = "cleaned" => stack' = << >>,
         \A k \in 1 .. Len(stack') : FrameBuilt(stack'[k], members'),
         stage' = "crashed" => ~NoObjectInArray
  PROVE  Built'
<1>1. /\ Containers' = Containers /\ MainMember' = MainMember
      /\ NoObjectInArray' = NoObjectInArray
      /\ \A q : Passes(q)' = Passes(q)
      /\ \A q, i : Made(q, i)' = Made(q, i) /\ ValueAt(q, i)' = ValueAt(q, i)
      /\ \A q, p : How(q, p)' = How(q, p)
  BY TextSame
<1>2. \A q : Reached(q, members)' <=> Reached(q, members')
  BY <1>1, Zenon DEF Reached
<1>3. MembersBuilt(members)'
  BY <1>1, <1>2, Zenon DEF MembersBuilt
<1>4. \A k : FrameBuilt(stack[k], members)' <=> FrameBuilt(stack'[k], members')
  BY <1>1, <1>2, Zenon DEF FrameBuilt
<1>5. \A k \in 1 .. Len(stack') : FrameBuilt(stack[k], members)'
  BY <1>4
<1>6. AllBuilt(stack, members)' <=> AllBuilt(stack', members')
  BY <1>1, <1>2, Zenon DEF AllBuilt
<1> QED
  BY <1>1, <1>3, <1>5, <1>6, Zenon DEF Built

\* main's call makes the frame of the whole text.
LEMMA StartBuilt ==
  ASSUME Inv, Fine, Built, Start
  PROVE  Built' /\ members' # members
<1>1. stack = << >> /\ members = {} /\ stage' = "building" /\ tokens' = tokens
  BY DEF Built, Start
<1>2. Token(0) = "{" /\ EOFAt \in Nat \ {0}
  BY FineText
<1>3. 0 \in Positions /\ Opener(0)
  <2>1. Opener(0)
    BY <1>2, Zenon DEF Opener, Openers
  <2>2. EOFAt \in Nat \ {0}
    BY <1>2
  <2> QED
    BY <2>1, <2>2 DEF Positions
<1>4. Call(Main, NoKey, 0, "{", << >>)
  BY DEF Start
<1>5. /\ stack' = Append(<< >>, [start |-> 0, todo |-> Passes(0)])
      /\ members' = {} \cup {Member(Main, NoKey, 0, "container")}
  BY <1>1, <1>2, <1>3, <1>4, CallMakes, Zenon
<1>6. members' = {MainMember}
  BY <1>5, Zenon DEF MainMember
<1> DEFINE frame == [start |-> 0, todo |-> Passes(0)]
<1>7. Len(stack') = 1 /\ stack'[1] = frame
  BY <1>5
<1>8. frame.start = 0 /\ frame.todo = Passes(0)
  OBVIOUS
<1>9. 0 \in Containers
  BY <1>3 DEF Containers
<1> HIDE DEF frame
<1>10. \A q \in Containers : \A i \in Passes(q) : Made(q, i) \notin members'
  BY <1>6, MadeNotMain, Zenon
<1>11. MembersBuilt(members')
  BY <1>6, <1>10, Zenon DEF MembersBuilt
<1>12. FrameBuilt(frame, members')
  BY <1>8, <1>9, <1>10, Zenon DEF FrameBuilt, Reached
<1>13. \A k \in 1 .. Len(stack') : FrameBuilt(stack'[k], members')
  BY <1>7, <1>12
<1>14. AllBuilt(stack', members')
  <2>1. ASSUME NEW q \in Containers, Reached(q, members')
        PROVE  q = 0
    BY <1>10, <2>1, Zenon DEF Reached
  <2>2. 1 \in 1 .. Len(stack') /\ stack'[1].start = 0
    BY <1>7, <1>8
  <2> QED
    BY <2>1, <2>2, Zenon DEF AllBuilt
<1>15. Built'
  BY <1>1, <1>11, <1>13, <1>14, BuiltNext
<1> QED
  BY <1>1, <1>6, <1>15

\* A pass takes itself from its frame, and may add a frame for the value.
LEMMA PassBuilt ==
  ASSUME Inv, Fine, Built, Pass
  PROVE  Built' /\ members' # members
<1>1. PICK q \in Containers : \E i \in Passes(q) :
        /\ stack # << >> /\ Top.start = q /\ i \in Top.todo /\ \A k \in Top.todo : i <= k
        /\ FrameBuilt(Top, members) /\ Makes(q, i) /\ stage = "building"
  BY PassMakes
<1>2. PICK i \in Passes(q) :
        /\ stack # << >> /\ Top.start = q /\ i \in Top.todo /\ \A k \in Top.todo : i <= k
        /\ FrameBuilt(Top, members) /\ Makes(q, i) /\ stage = "building"
  BY <1>1
<1>3. Made(q, i) \notin members /\ Reached(q, members)
  BY <1>2 DEF FrameBuilt
<1>4. ASSUME NEW j \in Passes(q), j < i
      PROVE  Made(q, j) \in members
  <2>1. i \in Nat /\ j \in Nat
    BY PassReads DEF Containers
  <2>2. ~(i <= j)
    BY <1>4, <2>1
  <2>3. j \notin Top.todo
    BY <1>2, <2>2
  <2> QED
    BY <1>2, <2>3 DEF FrameBuilt
<1>5. MembersBuilt(members)
  BY DEF Built
<1> DEFINE new == members \cup {Made(q, i)}
           value == ValueAt(q, i)
           frame == [start |-> value, todo |-> Passes(value)]
<1>6. /\ MembersBuilt(new)
      /\ How(q, value) = "container" => Reached(value, new)
      /\ \A r : Reached(r, members) => Reached(r, new)
      /\ \A r : Reached(r, new) =>
           Reached(r, members) \/ (r = value /\ How(q, r) = "container")
  BY <1>3, <1>4, <1>5, MembersAdd
<1>7. tokens' = tokens /\ members' = new /\ stage' = "building"
  BY <1>2 DEF Makes
<1>8. /\ Len(stack) \in Nat \ {0} /\ Top = stack[Len(stack)]
      /\ Below(i) \in Seq(Frames) /\ Len(Below(i)) = Len(stack)
      /\ Below(i)[Len(stack)].start = Top.start
      /\ Below(i)[Len(stack)].todo = Top.todo \ {i}
      /\ \A k \in 1 .. Len(stack) - 1 : Below(i)[k] = stack[k]
      /\ \A k \in 1 .. Len(stack) - 1 : stack[k].start # Top.start
  BY <1>2, BelowIs
<1>9. ASSUME NEW k \in 1 .. Len(stack)
      PROVE  FrameBuilt(Below(i)[k], new)
  <2>1. CASE k = Len(stack)
    <3> DEFINE left == Below(i)[Len(stack)]
    <3>1. left.start = q /\ left.todo = Top.todo \ {i} /\ Reached(q, new)
      BY <1>2, <1>3, <1>6, <1>8
    <3> HIDE DEF left
    <3>2. FrameBuilt(left, new)
      BY <1>2, <3>1, TopBuilt
    <3> QED
      BY <2>1, <3>2 DEF left
  <2>2. CASE k # Len(stack)
    <3>1. k \in 1 .. Len(stack) - 1
      BY <1>8, <2>2
    <3>2. FrameBuilt(stack[k], members) /\ stack[k].start # q
      BY <1>2, <1>8, <3>1 DEF Built
    <3>3. Reached(stack[k].start, new)
      BY <1>6, <3>2, Zenon DEF FrameBuilt
    <3>4. FrameBuilt(stack[k], new)
      BY <3>2, <3>3, OthersBuilt
    <3> QED
      BY <1>8, <3>1, <3>4
  <2> QED
    BY <2>1, <2>2
<1>10. \A k \in 1 .. Len(stack') : FrameBuilt(stack'[k], new)
  <2>1. CASE stack' = Below(i)
    BY <1>8, <1>9, <2>1
  <2>2. CASE /\ value \in Containers /\ How(q, value) = "container"
             /\ stack' = Append(Below(i), frame)
    <3>1. frame.start = value /\ frame.todo = Passes(value)
      OBVIOUS
    <3>2. value # q
      <4>1. q \in Nat /\ EOFAt \in Nat /\ ValueAt(q, i) \in q + 1 .. EOFAt - 1
        BY PassReads DEF Containers
      <4> QED
        BY <4>1
    <3>3. \A j \in Passes(value) : Made(value, j) \notin members
      BY <1>3, <1>5, <2>2, NoneInside
    <3> HIDE DEF frame, value
    <3>4. FrameBuilt(frame, new)
      BY <1>6, <2>2, <3>1, <3>2, <3>3, NewBuilt
    <3> HIDE DEF new
    <3>5. /\ Len(stack') = Len(stack) + 1 /\ stack'[Len(stack) + 1] = frame
          /\ \A k \in 1 .. Len(stack) : stack'[k] = Below(i)[k]
      BY <1>8, <2>2
    <3>6. \A k \in 1 .. Len(stack') : k \in 1 .. Len(stack) \/ k = Len(stack) + 1
      BY <1>8, <3>5
    <3> QED
      BY <1>9, <3>4, <3>5, <3>6, Zenon
  <2> QED
    BY <1>2, <2>1, <2>2 DEF Makes
<1>11. AllBuilt(stack', new)
  <2>1. ASSUME NEW k \in 1 .. Len(stack)
        PROVE  k \in 1 .. Len(stack') /\ stack'[k].start = stack[k].start
    <3>1. Below(i)[k].start = stack[k].start
      BY <1>8
    <3>2. k \in 1 .. Len(stack') /\ stack'[k] = Below(i)[k]
      <4> HIDE DEF frame, value, new
      <4>1. stack' = Below(i) \/ stack' = Append(Below(i), frame)
        BY <1>2 DEF Makes, frame, value
      <4> QED
        BY <1>8, <4>1
    <3> QED
      BY <3>1, <3>2
  <2>2. How(q, value) = "container" =>
          \E k \in 1 .. Len(stack') : stack'[k].start = value
    <3> SUFFICES ASSUME How(q, value) = "container"
                 PROVE  \E k \in 1 .. Len(stack') : stack'[k].start = value
      OBVIOUS
    <3>1. stack' = Append(Below(i), frame)
      BY <1>2 DEF Makes
    <3>2. frame.start = value
      OBVIOUS
    <3> HIDE DEF frame, value, new
    <3>3. Len(stack') = Len(stack) + 1 /\ stack'[Len(stack) + 1] = frame
      BY <1>8, <3>1
    <3>4. Len(stack) + 1 \in 1 .. Len(stack')
      BY <1>8, <3>3
    <3> QED
      BY <3>2, <3>3, <3>4, Zenon
  <2>3. AllBuilt(stack, members)
    BY <1>2 DEF Built
  <2>4. members \subseteq new
    OBVIOUS
  <2> HIDE DEF value, new
  <2>5. ASSUME NEW r \in Containers, Reached(r, members)
        PROVE  \/ \E k \in 1 .. Len(stack') : stack'[k].start = r
               \/ \A j \in Passes(r) : Made(r, j) \in new
    <3>1. CASE \E k \in 1 .. Len(stack) : stack[k].start = r
      BY <2>1, <3>1, Zenon
    <3>2. CASE \A j \in Passes(r) : Made(r, j) \in members
      BY <2>4, <3>2, Zenon
    <3> QED
      BY <2>3, <2>5, <3>1, <3>2, Zenon DEF AllBuilt
  <2> QED
    BY <1>6, <2>2, <2>5, Zenon DEF AllBuilt
<1> HIDE DEF new
<1>12. Built'
  BY <1>6, <1>7, <1>10, <1>11, BuiltNext
<1>13. members' # members
  BY <1>3, <1>7 DEF new
<1> QED
  BY <1>12, <1>13

\* The calls that are under way when one returns have their passes left.
LEMMA ReturnBuilt ==
  ASSUME Inv, Fine, Built, Return
  PROVE  Built' /\ Len(stack') < Len(stack)
<1>1. /\ tokens' = tokens /\ stage' = "building" /\ members' = members
      /\ stack # << >> /\ stack' = SubSeq(stack, 1, Len(stack) - 1)
  BY DEF Return
<1>2. stack \in Seq(Frames) /\ Len(stack) \in Nat \ {0}
  BY <1>1 DEF Inv, StackOK
<1> DEFINE last == Len(stack) - 1
<1>3. last \in Nat /\ last <= Len(stack)
  BY <1>2
<1>4. stack' = SubSeq(stack, 1, last)
  BY <1>1
<1> HIDE DEF last
<1>5. Len(stack') = last /\ \A k \in 1 .. last : stack'[k] = stack[k]
  BY <1>2, <1>3, <1>4, Shortened, Zenon
<1>6. Len(stack') < Len(stack)
  BY <1>2, <1>5 DEF last
<1>7. ASSUME NEW k \in 1 .. Len(stack')
      PROVE  FrameBuilt(stack'[k], members')
  <2>1. k \in 1 .. Len(stack) /\ stack'[k] = stack[k]
    BY <1>2, <1>3, <1>5
  <2>2. FrameBuilt(stack[k], members)
    BY <2>1 DEF Built
  <2> QED
    BY <1>1, <2>1, <2>2
<1>8. MembersBuilt(members')
  BY <1>1 DEF Built
<1>9. AllBuilt(stack', members')
  <2>1. \A i \in Passes(Top.start) : Made(Top.start, i) \in members
    <3>1. FrameBuilt(Top, members) /\ Top.todo = {}
      <4>1. Len(stack) \in 1 .. Len(stack)
        BY <1>2
      <4> QED
        BY <4>1 DEF Built, Return, Top
    <3> QED
      BY <3>1 DEF FrameBuilt
  <2>2. \A k \in 1 .. Len(stack) : stack[k].start = Top.start \/ k \in 1 .. Len(stack')
    BY <1>2, <1>5 DEF Top, last
  <2>3. \A k \in 1 .. Len(stack') : stack'[k] = stack[k]
    BY <1>5
  <2>4. AllBuilt(stack, members)
    BY DEF Built, Return
  <2>5. ASSUME NEW r \in Containers, Reached(r, members)
        PROVE  \/ \E k \in 1 .. Len(stack') : stack'[k].start = r
               \/ \A j \in Passes(r) : Made(r, j) \in members
    BY <2>1, <2>2, <2>3, <2>4, <2>5, Zenon DEF AllBuilt
  <2> QED
    BY <1>1, <2>5, Zenon DEF AllBuilt
<1> QED
  BY <1>1, <1>6, <1>7, <1>8, <1>9, BuiltNext

\* An object that is the value of a pass of parseArray has no colon before it.
LEMMA ObjectInArrayIs ==
  ASSUME Fine, NEW q \in Containers, NEW i \in Passes(q),
         IsArray(q), IsObject(ValueAt(q, i))
  PROVE  ~NoObjectInArray
<1>1. q \in Nat /\ i \in Nat /\ EOFAt \in Nat /\ ValueAt(q, i) \in q + 1 .. EOFAt - 1
  BY PassReads DEF Containers
<1>2. OneKind(q)
  BY TokenKinds
<1>3. ~IsObject(q)
  BY <1>2, Zenon DEF OneKind
<1>4. ValueAt(q, i) = i + 1 /\ i + 1 \in 1 .. EOFAt /\ (i + 1) - 1 = i
  BY <1>1, <1>3 DEF ValueAt
<1>5. PICK c : Closes(q, c)
  BY ClosesExists DEF Containers, Positions
<1>6. i \in q .. c - 3 /\ Item(q, i)
  BY <1>5, PassItem
<1>7. c \in Nat
  BY <1>5, ClosesBounds
<1>8. i \in q .. c - 2
  BY <1>1, <1>6, <1>7
<1>9. ~IsColon(i)
  BY <1>5, <1>6, <1>8, ItemNext
<1> QED
  BY <1>4, <1>9, Zenon DEF NoObjectInArray, IsColon, IsObject

\* The cleanup finds no NULL, and an untyped value only for an object in an array.
LEMMA CleanupBuilt ==
  ASSUME Inv, Fine, Built, Cleanup
  PROVE  Built'
<1>1. /\ tokens' = tokens /\ stack' = stack /\ members' = members /\ stage' # "called"
      /\ stage' = "crashed" => \E m \in members : m.as \in {"NULL", "untyped"}
      /\ stage = "building" /\ stack = << >>
  BY DEF Cleanup
<1>2. /\ MembersBuilt(members') /\ AllBuilt(stack', members')
      /\ \A k \in 1 .. Len(stack') : FrameBuilt(stack'[k], members')
  BY <1>1 DEF Built
<1>3. ASSUME NEW m \in members, m.as \in {"NULL", "untyped"}
      PROVE  ~NoObjectInArray
  <2>1. m # MainMember
    BY <1>3 DEF MainMember, Member
  <2>2. PICK q \in Containers : \E i \in Passes(q) : m = Made(q, i)
    BY <2>1 DEF Built, MembersBuilt
  <2>3. PICK i \in Passes(q) : m = Made(q, i)
    BY <2>2
  <2>4. How(q, ValueAt(q, i)) \in {"NULL", "untyped"}
    BY <1>3, <2>3 DEF Made, Member
  <2>5. IsArray(q) /\ IsObject(ValueAt(q, i))
    BY <2>4 DEF How
  <2> QED
    BY <2>5, ObjectInArrayIs
<1> QED
  BY <1>1, <1>2, <1>3, BuiltNext

\* Nothing changes.
LEMMA StutterBuilt ==
  ASSUME Built, UNCHANGED vars
  PROVE  Built'
<1>1. /\ tokens' = tokens /\ stage' = stage /\ stack' = stack /\ members' = members
  BY DEF vars
<1>2. /\ MembersBuilt(members')
      /\ \A k \in 1 .. Len(stack') : FrameBuilt(stack'[k], members')
  BY <1>1, Zenon DEF Built
<1>3. /\ stage' = "called" => stack' = << >> /\ members' = {}
      /\ stage' # "called" => AllBuilt(stack', members')
      /\ stage' = "cleaned" => stack' = << >>
      /\ stage' = "crashed" => ~NoObjectInArray
  BY <1>1, Zenon DEF Built
<1> QED
  BY <1>1, <1>2, <1>3, BuiltNext

-----------------------------------------------------------------------------
(* The theorems on well-formed texts *)

\* A step of a well-formed text keeps the invariant, and what a pass makes is new.
LEMMA FineStep ==
  ASSUME Inv, Fine, Built, [Next]_vars
  PROVE  Built' /\ (vars' # vars => PassBuilds)
<1>1. CASE Start
  BY <1>1, StartBuilt DEF PassBuilds
<1>2. CASE Pass
  BY <1>2, PassBuilt DEF PassBuilds
<1>3. CASE Return
  <2>1. Built' /\ Len(stack') < Len(stack)
    BY <1>3, ReturnBuilt
  <2>2. Len(stack) \in Nat /\ Len(stack') \in Nat
    <3>1. stack \in Seq(Frames)
      BY DEF Inv, StackOK
    <3>2. Inv'
      BY <1>3, ReturnOK
    <3>3. stack' \in Seq(Frames')
      BY <3>2 DEF Inv, StackOK
    <3> QED
      BY <3>1, <3>3
  <2> QED
    BY <2>1, <2>2 DEF PassBuilds
<1>4. CASE Cleanup
  <2>1. stage' # "building"
    BY <1>4 DEF Cleanup
  <2> QED
    BY <1>4, <2>1, CleanupBuilt DEF PassBuilds
<1>5. CASE UNCHANGED vars
  <2>1. vars' = vars
    BY <1>5
  <2> QED
    BY <1>5, <2>1, StutterBuilt
<1> QED
  BY <1>1, <1>2, <1>3, <1>4, <1>5 DEF Next

\* The invariant, as the steps and the theorems have it.
FineBuilt == Fine => Built

\* The invariant for well-formed texts holds in every reachable state.
THEOREM BuiltCorrect == Spec => []FineBuilt
<1>1. Init => FineBuilt
  <2> SUFFICES ASSUME Init PROVE Built
    BY DEF FineBuilt
  <2>1. stage = "called" /\ stack = << >> /\ members = {}
    BY DEF Init
  <2>2. MembersBuilt(members)
    BY <2>1 DEF MembersBuilt
  <2> QED
    BY <2>1, <2>2 DEF Built
<1>2. Inv /\ FineBuilt /\ [Next]_vars => FineBuilt'
  <2> SUFFICES ASSUME Inv, FineBuilt, [Next]_vars, Fine' PROVE Built'
    BY DEF FineBuilt
  <2>1. tokens' = tokens
    BY DEF Next, Start, Pass, Return, Cleanup, vars
  <2>2. Fine
    BY <2>1, TextSame
  <2> QED
    BY <2>2, FineStep DEF FineBuilt
<1> QED
  BY <1>1, <1>2, InvCorrect, PTL DEF Spec

\* A well-formed text without objects in arrays, of any length and depth, is parsed
\* and cleaned up without reading through NULL or an uninitialised value.
THEOREM WellFormedSafeCorrect == Spec => []WellFormedSafe
<1>1. FineBuilt => WellFormedSafe
  BY DEF FineBuilt, Fine, Built, WellFormedSafe
<1> QED
  BY <1>1, BuiltCorrect, PTL

\* No pass over a well-formed text, of any length and depth, builds a member again.
THEOREM WellFormedOnceCorrect == Spec => WellFormedOnce
<1>1. Inv /\ FineBuilt /\ [Next]_vars => [(tokens \in WellFormedInputs => PassBuilds)]_vars
  <2> SUFFICES ASSUME Inv, FineBuilt, [Next]_vars, Fine, vars' # vars PROVE PassBuilds
    BY DEF Fine
  <2> QED
    BY FineStep DEF FineBuilt
<1> QED
  BY <1>1, InvCorrect, BuiltCorrect, PTL DEF Spec, WellFormedOnce

\* What is made of a container's values is right, and none before it is missing.
LEMMA BuiltRight ==
  ASSUME Inv, Fine, Built
  PROVE  MembersRight
<1> SUFFICES ASSUME NEW m \in members, m.in # Main
             PROVE  /\ m.at \in ValuesIn(m.in)
                    /\ m.key = IF Token(m.in) = "{" THEN m.at - 2 ELSE NoKey
                    /\ \/ ObjectInArray(m)
                       \/ m.as = IF Token(m.at) \in Simple THEN "simple" ELSE "container"
                    /\ \A p \in ValuesIn(m.in) :
                         p < m.at => \E o \in members : o.in = m.in /\ o.at = p
  BY DEF MembersRight
<1>1. m # MainMember
  BY DEF MainMember, Member
<1>2. PICK q \in Containers : \E i \in Passes(q) : m = Made(q, i)
  BY <1>1 DEF Built, MembersBuilt
<1>3. PICK i \in Passes(q) : m = Made(q, i)
  BY <1>2
<1>4. PICK p : p = ValueAt(q, i)
  OBVIOUS
<1>5. m.in = q /\ m.at = p /\ m.key = KeyAt(q, i) /\ m.as = How(q, p)
  BY <1>3, <1>4 DEF Made, Member
<1>6. q \in Positions /\ Opener(q)
  BY DEF Containers
<1>7. /\ q \in Nat /\ i \in Nat /\ EOFAt \in Nat /\ p \in q + 1 .. EOFAt - 1
      /\ Around(q, p) /\ IsValue(p)
  BY <1>4, <1>6, PassReads
<1>8. p \in ValuesIn(q)
  <2>1. p \in q + 1 .. EOFAt
    BY <1>7
  <2> QED
    BY <1>7, <2>1, Zenon DEF ValuesIn, Around
<1>9. m.key = IF Token(q) = "{" THEN p - 2 ELSE NoKey
  <2>1. IsObject(q) => m.key = p - 2
    BY <1>4, <1>5, <1>7 DEF KeyAt, ValueAt
  <2>2. ~IsObject(q) => m.key = NoKey
    BY <1>5 DEF KeyAt
  <2> QED
    BY <2>1, <2>2, Zenon DEF IsObject
<1>10. \/ ObjectInArray(m)
       \/ m.as = IF Token(p) \in Simple THEN "simple" ELSE "container"
  BY <1>5, Zenon DEF How, SimpleAt, IsArray, IsObject, ObjectInArray
<1>11. ASSUME NEW r \in ValuesIn(q), r < p
       PROVE  \E o \in members : o.in = q /\ o.at = r
  <2>1. r \in Int
    BY <1>7 DEF ValuesIn
  <2>2. PICK j \in Passes(q) : ValueAt(q, j) = r
    BY <1>6, <1>8, <1>11, ValuePass
  <2>3. j \in Nat
    BY <1>6, PassReads
  <2>4. j < i
    BY <1>4, <1>7, <1>11, <2>1, <2>2, <2>3 DEF ValueAt
  <2>5. Made(q, j) \in members
    BY <1>3, <2>4, Zenon DEF Built, MembersBuilt
  <2>6. Made(q, j).in = q /\ Made(q, j).at = r
    BY <2>2 DEF Made, Member
  <2> QED
    BY <2>5, <2>6
<1> QED
  BY <1>5, <1>8, <1>9, <1>10, <1>11, Zenon

\* When the parser is done, every value that another one follows is built.
LEMMA BuiltComplete ==
  ASSUME Inv, Fine, Built
  PROVE  AllButLast
<1> SUFFICES ASSUME stage = "cleaned", NEW n \in members, n.as = "container",
                    NEW p \in ValuesIn(n.at), NEW r \in ValuesIn(n.at), p < r
             PROVE  \E m \in members : m.in = n.at /\ m.at = p
  BY DEF AllButLast
<1>1. PICK q : q = n.at
  OBVIOUS
<1>2. q \in Containers /\ Reached(q, members)
  <2>1. CASE n = MainMember
    <3>1. q = 0
      BY <1>1, <2>1 DEF MainMember, Member
    <3>2. Token(0) = "{" /\ EOFAt \in Nat \ {0}
      BY FineText
    <3>3. Opener(0)
      BY <3>2, Zenon DEF Opener, Openers
    <3>4. 0 \in Positions
      <4>1. EOFAt \in Nat \ {0}
        BY <3>2
      <4> QED
        BY <4>1 DEF Positions
    <3> QED
      BY <3>1, <3>3, <3>4 DEF Containers, Reached
  <2>2. CASE n # MainMember
    <3>1. PICK o \in Containers : \E k \in Passes(o) : n = Made(o, k)
      BY <2>2 DEF Built, MembersBuilt
    <3>2. PICK k \in Passes(o) : n = Made(o, k)
      BY <3>1
    <3>3. q = ValueAt(o, k) /\ How(o, q) = "container"
      BY <1>1, <3>2 DEF Made, Member
    <3>4. /\ o \in Nat /\ EOFAt \in Nat /\ q \in o + 1 .. EOFAt - 1
          /\ SimpleAt(q) \/ Opener(q)
      BY <3>3, PassReads DEF Containers
    <3>5. Opener(q)
      BY <3>3, <3>4 DEF How
    <3>6. q \in Positions
      BY <3>4 DEF Positions
    <3>7. Made(o, k) \in members
      BY <3>2
    <3> QED
      BY <3>3, <3>5, <3>6, <3>7, Zenon DEF Containers, Reached
  <2> QED
    BY <2>1, <2>2
<1>3. AllBuilt(stack, members) /\ Len(stack) = 0
  BY DEF Built
<1>4. \A i \in Passes(q) : Made(q, i) \in members
  <2>1. ~ \E k \in 1 .. Len(stack) : stack[k].start = q
    BY <1>3
  <2> QED
    BY <1>2, <1>3, <2>1, Zenon DEF AllBuilt
<1>5. PICK i \in Passes(q) : ValueAt(q, i) = p
  BY <1>1, <1>2, ValuePass DEF Containers
<1>6. Made(q, i).in = q /\ Made(q, i).at = p
  BY <1>5 DEF Made, Member
<1> QED
  BY <1>1, <1>4, <1>6

\* What is built of a well-formed text, of any length and depth, is what the text
\* says: the members of each container, as they nest, none misplaced, and none missing
\* in the end but the last of each container.
THEOREM WellFormedRightCorrect == Spec => []WellFormedRight
<1>1. Inv /\ FineBuilt => WellFormedRight
  BY BuiltRight, BuiltComplete DEF FineBuilt, Fine, WellFormedRight
<1> QED
  BY <1>1, InvCorrect, BuiltCorrect, PTL

=============================================================================
