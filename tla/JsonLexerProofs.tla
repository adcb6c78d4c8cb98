--------------------------- MODULE JsonLexerProofs ---------------------------
(***************************************************************************)
(* Proofs about lexer.c: of JsonLexer, for texts of any length, and at the *)
(* end of TokenArray, for any number of tokens.                            *)
(***************************************************************************)
EXTENDS JsonLexer, TokenArray, FiniteSetTheorems, TLAPS

Tokens == [type : TokenTypes, from : Nat, to : Nat]

\* Where the lexer is: on the character of its position, at most two places behind
\* the terminator, and at most one while the end token is still to come.
Placed ==
  /\ input \in Texts /\ digits \in {{"0"}, {"0", High}}
  /\ position \in Nat /\ readPosition = position + 1 /\ ch = CharAt(position)
  /\ reading \in Long \cup {"next", "done"}
  /\ start \in Nat /\ start <= Len(input)
  /\ reading = "next" => position <= Len(input) + 1
  /\ position <= Len(input) + 2

\* A token that is being read has begun inside the text and has not left it, and
\* a number or word does not end before it has a character.
Reading ==
  reading \in Long =>
    /\ start <= position /\ start < Len(input) /\ position <= Len(input)
    /\ reading = "string" => start < position
    /\ reading \in {"number", "word"} /\ start = position => GoesOn(ch)

\* The tokens lie one behind the other, and cover all but white space.
Laid ==
  /\ tokens \in Seq(Tokens)
  /\ Len(tokens) <= Reached
  /\ \A k \in 1 .. Len(tokens) : tokens[k].from < tokens[k].to /\ tokens[k].to <= Reached
  /\ \A j, k \in 1 .. Len(tokens) : j < k => tokens[j].to <= tokens[k].from

Covered ==
  \A i \in 0 .. Reached - 1 :
    CharAt(i) # Space => \E k \in 1 .. Len(tokens) : i \in tokens[k].from .. tokens[k].to - 1

\* An end token is the last and ends the reading.
Ended ==
  /\ reading = "done" => Len(tokens) > 0
  /\ \A k \in 1 .. Len(tokens) :
       tokens[k].type = "EOF" <=> (k = Len(tokens) /\ reading = "done")

Inv == Placed /\ Reading /\ Laid /\ Covered /\ Ended

-----------------------------------------------------------------------------
\* What a character of the text is, and that only positions of the text have one.
LEMMA CharOf ==
  ASSUME input \in Texts, NEW i \in Nat
  PROVE  /\ CharAt(i) \in Chars \cup {NUL}
         /\ CharAt(i) # NUL <=> i < Len(input)
<1>1. input \in Seq(Chars)
  BY TextsAssumption
<1>2. NUL \notin Chars
  BY DEF NUL, Chars, Letters, Numeric, Structural, Space, Quote, High
<1>3. CASE i >= Len(input)
  BY <1>1, <1>3 DEF CharAt
<1>4. CASE i < Len(input)
  <2>1. CharAt(i) = input[i + 1] /\ i + 1 \in 1 .. Len(input)
    BY <1>1, <1>4 DEF CharAt
  <2>2. CharAt(i) \in Chars
    BY <2>1, <1>1
  <2> QED BY <2>2, <1>2, <1>4
<1> QED BY <1>1, <1>3, <1>4

\* The null character begins no literal, and is in no number and no word.
LEMMA NULIsSingle ==
  ASSUME digits \in {{"0"}, {"0", High}}
  PROVE  Kind(NUL) = "single" /\ NUL # Space /\ Single(NUL) = "EOF"
         /\ (reading \in Long => ~GoesOn(NUL))
  BY DEF Kind, NUL, Space, Quote, IsNumber, IsLetter, Letters, Numeric, High, Single, GoesOn, Long,
         Literals

LEMMA InitInv == Init => Inv
<1> SUFFICES ASSUME Init PROVE Inv
  OBVIOUS
<1> USE DEF Init
<1>1. input \in Seq(Chars) /\ Len(input) \in Nat
  BY TextsAssumption
<1>2. reading \notin Long /\ reading # "done"
  BY DEF Long, Literals
<1>3. Placed /\ Reading
  BY <1>1, <1>2 DEF Placed, Reading
<1>4. Laid /\ Covered /\ Ended
  BY <1>1, <1>2 DEF Laid, Covered, Ended, Reached
<1> QED BY <1>3, <1>4 DEF Inv

\* _lexerReadChar goes one place on.
LEMMA ReadCharPlaced ==
  ASSUME Placed, ReadChar, input' = input
  PROVE  position' = position + 1 /\ readPosition' = position' + 1 /\ ch' = CharAt(position)'
  BY DEF Placed, ReadChar, CharAt

LEMMA StayPlaced ==
  ASSUME Placed, StayAtChar, input' = input
  PROVE  position' = position /\ readPosition' = position' + 1 /\ ch' = CharAt(position)'
  BY DEF Placed, StayAtChar, CharAt

\* A token that begins where the lexer is and ends where it goes keeps the tokens
\* one behind the other and leaves nothing out.
LEMMA EmitLaid ==
  ASSUME Inv, NEW type \in TokenTypes, NEW from \in Nat, NEW to \in Nat,
         Emit(type, from, to), input' = input,
         Reached = from, position' = to, from < to, reading # "done"
  PROVE  Laid' /\ Covered' /\ Ended'
<1> DEFINE token == [type |-> type, from |-> from, to |-> to]
<1>1. tokens \in Seq(Tokens) /\ token \in Tokens /\ tokens' = Append(tokens, token)
  BY DEF Inv, Laid, Emit, Tokens
<1>2. /\ tokens' \in Seq(Tokens) /\ Len(tokens) \in Nat /\ Len(tokens') = Len(tokens) + 1
      /\ \A k \in 1 .. Len(tokens) : tokens'[k] = tokens[k]
      /\ tokens'[Len(tokens')] = token
      /\ \A k \in 1 .. Len(tokens) : tokens[k] \in Tokens
  <2> HIDE DEF token
  <2> QED BY <1>1
<1>3. reading' \notin Long /\ Reached' = to
  BY DEF Emit, Reached, Long, Literals
<1>4. token.from = from /\ token.to = to /\ token.type = type
  OBVIOUS
<1>5. /\ Len(tokens) <= from
      /\ \A k \in 1 .. Len(tokens) : tokens[k].from < tokens[k].to /\ tokens[k].to <= from
      /\ \A j, k \in 1 .. Len(tokens) : j < k => tokens[j].to <= tokens[k].from
  BY DEF Inv, Laid
<1>6. \A k \in 1 .. Len(tokens) : tokens[k].from \in Nat /\ tokens[k].to \in Nat
  BY <1>2 DEF Tokens
<1> HIDE DEF token
<1>7. Laid'
  <2>1. Len(tokens') <= Reached'
    BY <1>2, <1>3, <1>5
  <2>2. ASSUME NEW k \in 1 .. Len(tokens')
        PROVE  tokens'[k].from < tokens'[k].to /\ tokens'[k].to <= Reached'
    <3>1. CASE k \in 1 .. Len(tokens)
      BY <1>2, <1>3, <1>5, <1>6, <3>1
    <3>2. CASE k = Len(tokens')
      BY <1>2, <1>3, <1>4, <3>2
    <3> QED BY <3>1, <3>2, <1>2
  <2>3. ASSUME NEW j \in 1 .. Len(tokens'), NEW k \in 1 .. Len(tokens'), j < k
        PROVE  tokens'[j].to <= tokens'[k].from
    <3>1. j \in 1 .. Len(tokens)
      BY <2>3, <1>2
    <3>2. CASE k \in 1 .. Len(tokens)
      BY <1>2, <1>5, <2>3, <3>1, <3>2
    <3>3. CASE k = Len(tokens')
      BY <1>2, <1>4, <1>5, <3>1, <3>3
    <3> QED BY <3>2, <3>3, <1>2
  <2> QED BY <1>2, <2>1, <2>2, <2>3 DEF Laid
<1>8. Covered'
  <2> SUFFICES ASSUME NEW i \in 0 .. to - 1, CharAt(i)' # Space
               PROVE  \E k \in 1 .. Len(tokens') : i \in tokens'[k].from .. tokens'[k].to - 1
    BY <1>3 DEF Covered
  <2>1. CharAt(i) # Space
    BY DEF CharAt
  <2>2. CASE i < from
    <3>1. PICK k \in 1 .. Len(tokens) : i \in tokens[k].from .. tokens[k].to - 1
      BY <2>1, <2>2 DEF Inv, Covered
    <3> QED BY <3>1, <1>2
  <2>3. CASE i >= from
    <3>1. i \in from .. to - 1
      BY <2>3
    <3>2. i \in token.from .. token.to - 1
      BY <3>1, <1>4
    <3> QED BY <3>2, <1>2
  <2> QED BY <2>2, <2>3
<1>9. Ended'
  <2>1. reading' = "done" <=> type = "EOF"
    BY DEF Emit
  <2>2. \A k \in 1 .. Len(tokens) : tokens[k].type # "EOF"
    BY DEF Inv, Ended
  <2>3. ASSUME NEW k \in 1 .. Len(tokens')
        PROVE  tokens'[k].type = "EOF" <=> (k = Len(tokens') /\ reading' = "done")
    <3>1. CASE k \in 1 .. Len(tokens)
      BY <1>2, <2>2, <3>1
    <3>2. CASE k = Len(tokens')
      BY <1>2, <1>4, <2>1, <3>2
    <3> QED BY <3>1, <3>2, <1>2
  <2> QED BY <2>3, <1>2 DEF Ended
<1> QED BY <1>7, <1>8, <1>9

\* While no token is added, the tokens stay as they are laid; only white space may
\* be passed.
LEMMA KeepLaid ==
  ASSUME Inv, UNCHANGED <<input, tokens>>, reading # "done", reading' # "done",
         Reached \in Nat, Reached' = Reached \/ (Reached' = Reached + 1 /\ CharAt(Reached) = Space)
  PROVE  Laid' /\ Covered' /\ Ended'
<1>1. Laid'
  <2>1. tokens \in Seq(Tokens)
    BY DEF Inv, Laid
  <2>2. \A k \in 1 .. Len(tokens) : tokens[k] \in Tokens
    BY <2>1
  <2>3. \A k \in 1 .. Len(tokens) : tokens[k].to \in Nat
    BY <2>2 DEF Tokens
  <2>4. Reached' \in Nat /\ Reached <= Reached' /\ Len(tokens) \in Nat
    BY <2>1
  <2> QED BY <2>1, <2>3, <2>4 DEF Inv, Laid
<1>2. Covered'
  <2> SUFFICES ASSUME NEW i \in 0 .. Reached' - 1, CharAt(i)' # Space
               PROVE  \E k \in 1 .. Len(tokens) : i \in tokens[k].from .. tokens[k].to - 1
    BY DEF Covered
  <2>1. CharAt(i) # Space
    BY DEF CharAt
  <2>2. i \in 0 .. Reached - 1
    BY <2>1
  <2> QED BY <2>1, <2>2 DEF Inv, Covered
<1>3. Ended'
  BY DEF Inv, Ended
<1> QED BY <1>1, <1>2, <1>3

-----------------------------------------------------------------------------
LEMMA SkipInv == Inv /\ SkipWhitespace => Inv'
<1> SUFFICES ASSUME Inv, SkipWhitespace PROVE Inv'
  OBVIOUS
<1>1. Placed /\ reading = "next" /\ CharAt(position) = Space /\ ReadChar
      /\ UNCHANGED <<input, digits, reading, start, tokens>>
  BY DEF Inv, Placed, SkipWhitespace
<1>2. reading \notin Long /\ Reached = position /\ Reached' = position' /\ position \in Nat
  BY <1>1 DEF Long, Literals, Reached, Placed
<1>3. position' = position + 1 /\ readPosition' = position' + 1 /\ ch' = CharAt(position)'
  BY <1>1, ReadCharPlaced
<1>4. position < Len(input) /\ Len(input) \in Nat
  <2>1. input \in Texts /\ Len(input) \in Nat
    BY <1>1, TextsAssumption DEF Placed
  <2>2. Space # NUL
    BY DEF Space, NUL
  <2> QED BY <1>1, <1>2, <2>1, <2>2, CharOf
<1>5. Placed' /\ Reading'
  BY <1>1, <1>2, <1>3, <1>4 DEF Placed, Reading
<1>6. Laid' /\ Covered' /\ Ended'
  BY <1>1, <1>2, <1>3, KeepLaid
<1> QED BY <1>5, <1>6 DEF Inv

LEMMA SingleInv == Inv /\ SingleToken => Inv'
<1> SUFFICES ASSUME Inv, SingleToken PROVE Inv'
  OBVIOUS
<1>1. /\ Placed /\ reading = "next" /\ ch = CharAt(position) /\ ReadChar
      /\ Emit(Single(ch), position, position + 1) /\ UNCHANGED <<input, digits, start>>
  BY DEF Inv, Placed, SingleToken
<1>2. reading \notin Long /\ Reached = position /\ position \in Nat
  BY <1>1 DEF Long, Literals, Reached, Placed
<1>3. position' = position + 1 /\ readPosition' = position' + 1 /\ ch' = CharAt(position)'
  BY <1>1, ReadCharPlaced
<1>4. Single(ch) \in TokenTypes /\ (Single(ch) # "EOF" => ch # NUL)
  BY DEF Single, TokenTypes, Structural
<1>5. reading' \in {"next", "done"} /\ (reading' = "next" => Single(ch) # "EOF")
  BY <1>1 DEF Emit
<1>6. reading' = "next" => position < Len(input)
  BY <1>1, <1>2, <1>4, <1>5, CharOf DEF Placed
<1>7. Len(input) \in Nat /\ position <= Len(input) + 1
  BY <1>1, TextsAssumption DEF Placed
<1>8. Placed' /\ Reading'
  BY <1>1, <1>2, <1>3, <1>5, <1>6, <1>7 DEF Placed, Reading, Long, Literals
<1>9. Laid' /\ Covered' /\ Ended'
  BY <1>1, <1>2, <1>3, <1>4, EmitLaid
<1> QED BY <1>8, <1>9 DEF Inv

LEMMA BeginInv == Inv /\ Begin => Inv'
<1> SUFFICES ASSUME Inv, Begin PROVE Inv'
  OBVIOUS
<1>1. /\ Placed /\ reading = "next" /\ ch = CharAt(position) /\ Kind(ch) # "single"
      /\ reading' = Kind(ch) /\ start' = position /\ UNCHANGED <<input, digits, tokens>>
  BY DEF Inv, Placed, Begin
<1>2. reading \notin Long /\ Reached = position /\ position \in Nat
  BY <1>1 DEF Long, Literals, Reached, Placed
<1>3. Kind(ch) \in Long /\ Reached' = Reached /\ ch # NUL
  BY <1>1, <1>2, NULIsSingle DEF Kind, Long, Literals, Reached, Placed
<1>4. position < Len(input) /\ Len(input) \in Nat
  BY <1>1, <1>2, <1>3, CharOf, TextsAssumption DEF Placed
<1>5. /\ position' = IF ch = Quote THEN position + 1 ELSE position
      /\ readPosition' = position' + 1 /\ ch' = CharAt(position)'
  <2>1. CASE ch = Quote
    BY <1>1, <2>1, ReadCharPlaced DEF Begin
  <2>2. CASE ch # Quote
    BY <1>1, <2>2, StayPlaced DEF Begin
  <2> QED BY <2>1, <2>2
<1>6. Placed'
  BY <1>1, <1>2, <1>3, <1>4, <1>5 DEF Placed, Long, Literals
<1>7. Reading'
  <2>1. start' <= position' /\ start' < Len(input)' /\ position' <= Len(input)'
    BY <1>1, <1>2, <1>4, <1>5
  <2>2. reading' = "string" => start' < position'
    BY <1>1, <1>2, <1>5 DEF Kind
  <2>3. ASSUME reading' \in {"number", "word"}, start' = position'
        PROVE  GoesOn(ch)'
    <3>1. ch # Quote /\ ch' = ch
      BY <1>1, <1>2, <1>5, <2>3 DEF CharAt, Kind
    <3> QED BY <1>1, <2>3, <3>1 DEF GoesOn, Kind, IsNumber, IsLetter
  <2> QED BY <2>1, <2>2, <2>3 DEF Reading
<1>8. Laid' /\ Covered' /\ Ended'
  <2>1. reading' # "done"
    BY <1>1, <1>3 DEF Long, Literals
  <2> QED BY <1>1, <1>2, <1>3, <2>1, KeepLaid
<1> QED BY <1>6, <1>7, <1>8 DEF Inv

LEMMA ReadOnInv == Inv /\ ReadOn => Inv'
<1> SUFFICES ASSUME Inv, ReadOn PROVE Inv'
  OBVIOUS
<1>1. /\ Placed /\ Reading /\ reading \in Long /\ GoesOn(ch) /\ ch = CharAt(position) /\ ReadChar
      /\ UNCHANGED <<input, digits, reading, start, tokens>>
  BY DEF Inv, Placed, ReadOn
<1>2. Reached = start /\ Reached' = start /\ start \in Nat /\ position \in Nat
  BY <1>1 DEF Reached, Placed
<1>3. position' = position + 1 /\ readPosition' = position' + 1 /\ ch' = CharAt(position)'
  BY <1>1, ReadCharPlaced
<1>4. ch # NUL
  BY <1>1, NULIsSingle DEF Placed
<1>5. position < Len(input) /\ Len(input) \in Nat
  BY <1>1, <1>2, <1>4, CharOf, TextsAssumption DEF Placed
<1>6. Placed' /\ Reading'
  BY <1>1, <1>2, <1>3, <1>5 DEF Placed, Reading, Long, Literals
<1>7. Laid' /\ Covered' /\ Ended'
  <2>1. reading # "done"
    BY <1>1 DEF Long, Literals
  <2> QED BY <1>1, <1>2, <2>1, KeepLaid
<1> QED BY <1>6, <1>7 DEF Inv

LEMMA EndTokenInv == Inv /\ EndToken => Inv'
<1> SUFFICES ASSUME Inv, EndToken PROVE Inv'
  OBVIOUS
<1>1. /\ Placed /\ Reading /\ reading \in Long /\ ~GoesOn(ch) /\ ch = CharAt(position)
      /\ UNCHANGED <<input, digits, start>>
  BY DEF Inv, Placed, EndToken
<1>2. Reached = start /\ start \in Nat /\ position \in Nat /\ reading # "done"
      /\ Len(input) \in Nat
  BY <1>1, TextsAssumption DEF Reached, Placed, Long, Literals
<1>3. start < position /\ position <= Len(input)
  BY <1>1, <1>2 DEF Reading, Long, Literals
<1>4. PICK type \in TokenTypes :
        \/ ReadChar /\ Emit(type, start, position + 1)
        \/ StayAtChar /\ Emit(type, start, position)
  <2>1. \A word : TypesOf(word) \subseteq TokenTypes
    BY DEF TypesOf, TokenTypes, Simple
  <2>2. "string" \in TokenTypes /\ "number" \in TokenTypes
    BY DEF TokenTypes, Simple, Literals
  <2> QED BY <2>1, <2>2 DEF EndToken, AfterString, AfterNumber
<1>5. PICK to \in {position, position + 1} :
        position' = to /\ Emit(type, start, to)
        /\ readPosition' = position' + 1 /\ ch' = CharAt(position)'
  BY <1>1, <1>4, ReadCharPlaced, StayPlaced
<1>6. reading' \in {"next", "done"}
  BY <1>5 DEF Emit
<1>7. Placed' /\ Reading'
  BY <1>1, <1>2, <1>3, <1>5, <1>6 DEF Placed, Reading, Long, Literals
<1>8. Laid' /\ Covered' /\ Ended'
  <2>1. to \in Nat /\ start < to
    BY <1>2, <1>3
  <2> QED BY <1>1, <1>2, <1>5, <2>1, EmitLaid
<1> QED BY <1>7, <1>8 DEF Inv

LEMMA NextInv == Inv /\ [Next]_vars => Inv'
<1> SUFFICES ASSUME Inv, [Next]_vars PROVE Inv'
  OBVIOUS
<1>1. CASE UNCHANGED vars
  BY <1>1 DEF vars, Inv, Placed, Reading, Laid, Covered, Ended, Reached, CharAt, GoesOn, IsNumber,
     IsLetter
<1> QED
  BY <1>1, SkipInv, SingleInv, BeginInv, ReadOnInv, EndTokenInv DEF Next

\* The lexer is always on a character of its text or just behind it, and the
\* tokens it has made lie one behind the other and cover what it has read.
THEOREM InvCorrect == Spec => []Inv
<1>1. Init => Inv
  BY InitInv
<1>2. Inv /\ [Next]_vars => Inv'
  BY NextInv
<1> QED BY <1>1, <1>2, PTL DEF Spec

\* lexerNext keeps the types of the lexer, and its position near its text, for a
\* text of any length.
THEOREM TypeCorrect == Spec => []TypeOK
<1>1. Inv => TypeOK
  <2> SUFFICES ASSUME Inv PROVE TypeOK
    OBVIOUS
  <2>1. Len(input) \in Nat /\ ch \in Chars \cup {NUL}
    BY CharOf, TextsAssumption DEF Inv, Placed
  <2>2. Reached <= Len(input) + 2 /\ Reached \in Nat
    BY <2>1 DEF Inv, Placed, Reading, Reached
  <2>3. /\ tokens \in Seq(Tokens)
        /\ \A k \in 1 .. Len(tokens) : tokens[k].from < tokens[k].to /\ tokens[k].to <= Reached
    BY DEF Inv, Laid
  <2> DEFINE Token == [type : TokenTypes, from : 0 .. Len(input) + 1, to : 1 .. Len(input) + 2]
  <2>4. ASSUME NEW k \in 1 .. Len(tokens)
        PROVE  tokens[k] \in Token
    <3>1. tokens[k] \in Tokens /\ tokens[k].from < tokens[k].to /\ tokens[k].to <= Reached
      BY <2>3
    <3> QED BY <3>1, <2>1, <2>2 DEF Tokens
  <2>5. tokens \in Seq(Token)
    <3> HIDE DEF Token
    <3> QED BY <2>3, <2>4
  <2>6. position <= Len(input) + 2 /\ start \in 0 .. Len(input)
    BY <2>1 DEF Inv, Placed
  <2> QED BY <2>1, <2>5, <2>6 DEF Inv, Placed, Reading, TypeOK
<1> QED BY <1>1, InvCorrect, PTL

\* There are never more tokens than characters read, so the loop of parseTokens ends
\* on every text.
THEOREM ProgressCorrect == Spec => []Progress
<1>1. Inv => Progress
  BY DEF Inv, Laid, Progress
<1> QED BY <1>1, InvCorrect, PTL

\* Every character but white space is in exactly one token, in a text of any length.
THEOREM NothingSkippedCorrect == Spec => []NothingSkipped
<1>1. Inv => NothingSkipped
  BY DEF Inv, Laid, Covered, NothingSkipped
<1> QED BY <1>1, InvCorrect, PTL

\* What parseTokens returns is a token array as the parser assumes it.
THEOREM ParserInputCorrect == Spec => []ParserInput
<1>1. Inv => ParserInput
  <2> SUFFICES ASSUME Inv, reading = "done" PROVE IsTokenArray(Types)
    BY DEF ParserInput
  <2>1. tokens \in Seq(Tokens) /\ Len(tokens) > 0 /\ Len(tokens) \in Nat
    BY DEF Inv, Laid, Ended
  <2>2. \A k \in 1 .. Len(tokens) : tokens[k].type \in TokenTypes
    <3>1. \A k \in 1 .. Len(tokens) : tokens[k] \in Tokens
      BY <2>1
    <3> QED BY <3>1 DEF Tokens
  <2>3. Types \in Seq(TokenTypes) /\ Len(Types) = Len(tokens)
    BY <2>1, <2>2 DEF Types
  <2>4. \A k \in 1 .. Len(tokens) : Types[k] = tokens[k].type
    BY <2>1 DEF Types
  <2>5. \A k \in 1 .. Len(tokens) : tokens[k].type = "EOF" <=> k = Len(tokens)
    BY DEF Inv, Ended
  <2> QED BY <2>1, <2>3, <2>4, <2>5 DEF IsTokenArray
<1> QED BY <1>1, InvCorrect, PTL

-----------------------------------------------------------------------------
(* Strings.  Where no string is read the number of quotes so far is even, so  *)
(* the next one begins a string.                                              *)
PairInv ==
  /\ reading = "next" /\ position <= Len(input) => QuotesBefore(position) % 2 = 0
  /\ reading \in Long => QuotesBefore(start) % 2 = 0
  /\ reading = "string" =>
       CharAt(start) = Quote /\ QuotesBefore(position) = QuotesBefore(start) + 1
  /\ reading \in {"number", "word"} =>
       CharAt(start) # Quote /\ QuotesBefore(position) = QuotesBefore(start)
  /\ QuotesPair

\* One character more is one quote more, or none.
LEMMA QuotesCounted ==
  ASSUME NEW i \in Nat
  PROVE  /\ QuotesBefore(i) \in Nat
         /\ QuotesBefore(i + 1) = IF CharAt(i) = Quote THEN QuotesBefore(i) + 1 ELSE QuotesBefore(i)
<1> DEFINE Quotes(n) == {q \in 0 .. n - 1 : CharAt(q) = Quote}
<1>1. IsFiniteSet(Quotes(i))
  <2>1. IsFiniteSet(0 .. i - 1)
    BY FS_Interval
  <2> QED BY <2>1, FS_Subset
<1>2. QuotesBefore(i) = Cardinality(Quotes(i)) /\ QuotesBefore(i + 1) = Cardinality(Quotes(i + 1))
  BY DEF QuotesBefore
<1>3. CASE CharAt(i) = Quote
  <2>1. Quotes(i + 1) = Quotes(i) \cup {i} /\ i \notin Quotes(i)
    BY <1>3
  <2> HIDE DEF Quotes
  <2> QED BY <1>1, <1>2, <1>3, <2>1, FS_CardinalityType, FS_AddElement
<1>4. CASE CharAt(i) # Quote
  <2>1. Quotes(i + 1) = Quotes(i)
    BY <1>4
  <2> HIDE DEF Quotes
  <2> QED BY <1>1, <1>2, <1>4, <2>1, FS_CardinalityType
<1> QED BY <1>3, <1>4

LEMMA NoQuotes == QuotesBefore(0) = 0
<1>1. {q \in 0 .. 0 - 1 : CharAt(q) = Quote} = {}
  OBVIOUS
<1> QED BY <1>1, FS_EmptySet DEF QuotesBefore

\* What is only about the text stays while the text does.
LEMMA TextStays ==
  ASSUME input' = input
  PROVE  /\ \A i : CharAt(i)' = CharAt(i)
         /\ \A i : QuotesBefore(i)' = QuotesBefore(i)
         /\ \A token : PairedIn(token)' = PairedIn(token)
  BY DEF CharAt, QuotesBefore, PairedIn

LEMMA PairKept ==
  ASSUME QuotesPair, UNCHANGED <<input, tokens>>
  PROVE  QuotesPair'
  BY TextStays DEF QuotesPair

LEMMA PairAdded ==
  ASSUME Inv, QuotesPair, input' = input, NEW type, NEW from, NEW to, Emit(type, from, to),
         PairedIn([type |-> type, from |-> from, to |-> to])
  PROVE  QuotesPair'
<1> DEFINE token == [type |-> type, from |-> from, to |-> to]
<1>1. tokens \in Seq(Tokens) /\ tokens' = Append(tokens, token) /\ PairedIn(token)
  BY DEF Inv, Laid, Emit
<1> HIDE DEF token
<1>2. \A k \in 1 .. Len(tokens') :
        \/ k \in 1 .. Len(tokens) /\ tokens'[k] = tokens[k]
        \/ tokens'[k] = token
  BY <1>1
<1> QED BY <1>1, <1>2, TextStays DEF QuotesPair

LEMMA SkipPairs == Inv /\ PairInv /\ SkipWhitespace => PairInv'
<1> SUFFICES ASSUME Inv, PairInv, SkipWhitespace PROVE PairInv'
  OBVIOUS
<1>1. /\ Placed /\ reading = "next" /\ CharAt(position) = Space /\ ReadChar
      /\ UNCHANGED <<input, digits, reading, start, tokens>>
  BY DEF Inv, Placed, SkipWhitespace
<1>2. position' = position + 1 /\ position \in Nat /\ reading' = "next" /\ reading' \notin Long
  BY <1>1, ReadCharPlaced DEF Placed, Long, Literals
<1>3. QuotesBefore(position') = QuotesBefore(position)
  BY <1>1, <1>2, QuotesCounted DEF Space, Quote
<1>4. Len(input) \in Nat
  BY <1>1, TextsAssumption DEF Placed
<1>5. QuotesPair' /\ QuotesBefore(position)' = QuotesBefore(position')
  BY <1>1, PairKept DEF PairInv, QuotesBefore, CharAt
<1>6. position' <= Len(input)' => QuotesBefore(position)' % 2 = 0
  BY <1>1, <1>2, <1>3, <1>4, <1>5 DEF PairInv
<1> QED BY <1>2, <1>5, <1>6 DEF PairInv

LEMMA SinglePairs == Inv /\ PairInv /\ SingleToken => PairInv'
<1> SUFFICES ASSUME Inv, PairInv, SingleToken PROVE PairInv'
  OBVIOUS
<1>1. /\ Placed /\ reading = "next" /\ ch = CharAt(position) /\ Kind(ch) = "single" /\ ReadChar
      /\ Emit(Single(ch), position, position + 1) /\ UNCHANGED <<input, digits, start>>
  BY DEF Inv, Placed, SingleToken
<1>2. position' = position + 1 /\ position \in Nat /\ reading' \in {"next", "done"}
      /\ reading' \notin Long
  BY <1>1, ReadCharPlaced DEF Placed, Long, Literals, Emit
<1>3. CharAt(position) # Quote
  BY <1>1 DEF Kind
<1>4. QuotesBefore(position') = QuotesBefore(position) /\ Len(input) \in Nat
  BY <1>1, <1>2, <1>3, QuotesCounted, TextsAssumption DEF Placed
<1>5. position < Len(input) => QuotesBefore(position) % 2 = 0
  BY <1>1, <1>2, <1>4 DEF PairInv
<1>6. PairedIn([type |-> Single(ch), from |-> position, to |-> position + 1])
  BY <1>3, <1>5 DEF PairedIn
<1>7. QuotesPair'
  BY <1>1, <1>6, PairAdded DEF PairInv
<1>8. position' <= Len(input)' => QuotesBefore(position)' % 2 = 0
  <2>1. QuotesBefore(position)' = QuotesBefore(position')
    BY <1>1 DEF QuotesBefore, CharAt
  <2> QED BY <1>1, <1>2, <1>4, <1>5, <2>1
<1> QED BY <1>2, <1>7, <1>8 DEF PairInv, Long, Literals

LEMMA BeginPairs == Inv /\ PairInv /\ Begin => PairInv'
<1> SUFFICES ASSUME Inv, PairInv, Begin PROVE PairInv'
  OBVIOUS
<1>1. /\ Placed /\ reading = "next" /\ ch = CharAt(position) /\ Kind(ch) # "single"
      /\ reading' = Kind(ch) /\ start' = position /\ UNCHANGED <<input, digits, tokens>>
  BY DEF Inv, Placed, Begin
<1>2. ch # NUL /\ position \in Nat /\ Len(input) \in Nat
  BY <1>1, NULIsSingle, TextsAssumption DEF Placed
<1>3. QuotesBefore(position) % 2 = 0
  <2>1. position < Len(input)
    BY <1>1, <1>2, CharOf DEF Placed
  <2> QED BY <1>1, <1>2, <2>1 DEF PairInv
<1>4. /\ QuotesPair' /\ CharAt(start)' = CharAt(position)
      /\ QuotesBefore(start)' = QuotesBefore(position)
      /\ QuotesBefore(position)' = QuotesBefore(position')
  BY <1>1, PairKept DEF PairInv, QuotesBefore, CharAt
<1>5. CASE ch = Quote
  <2>1. reading' = "string" /\ position' = position + 1
    BY <1>1, <1>5, ReadCharPlaced DEF Begin, Kind
  <2>2. QuotesBefore(position') = QuotesBefore(position) + 1
    BY <1>1, <1>2, <1>5, <2>1, QuotesCounted
  <2> QED BY <1>1, <1>3, <1>4, <1>5, <2>1, <2>2 DEF PairInv
<1>6. CASE ch # Quote
  <2>1. reading' \in {"number", "word"} /\ position' = position
    BY <1>1, <1>6, StayPlaced DEF Begin, Kind
  <2> QED BY <1>1, <1>3, <1>4, <1>6, <2>1 DEF PairInv
<1> QED BY <1>5, <1>6

LEMMA ReadOnPairs == Inv /\ PairInv /\ ReadOn => PairInv'
<1> SUFFICES ASSUME Inv, PairInv, ReadOn PROVE PairInv'
  OBVIOUS
<1>1. /\ Placed /\ reading \in Long /\ GoesOn(ch) /\ ch = CharAt(position) /\ ReadChar
      /\ UNCHANGED <<input, digits, reading, start, tokens>>
  BY DEF Inv, Placed, ReadOn
<1>2. position' = position + 1 /\ position \in Nat
  BY <1>1, ReadCharPlaced DEF Placed
<1>3. CharAt(position) # Quote
  BY <1>1 DEF GoesOn, IsNumber, IsLetter, Numeric, Letters, Quote, High, Placed
<1>4. QuotesBefore(position') = QuotesBefore(position)
  BY <1>2, <1>3, QuotesCounted
<1>5. /\ QuotesPair' /\ CharAt(start)' = CharAt(start)
      /\ QuotesBefore(start)' = QuotesBefore(start)
      /\ QuotesBefore(position)' = QuotesBefore(position')
  BY <1>1, PairKept DEF PairInv, QuotesBefore, CharAt
<1>6. reading' # "next"
  BY <1>1 DEF Long, Literals
<1> QED BY <1>1, <1>4, <1>5, <1>6 DEF PairInv

LEMMA EndTokenPairs == Inv /\ PairInv /\ EndToken => PairInv'
<1> SUFFICES ASSUME Inv, PairInv, EndToken PROVE PairInv'
  OBVIOUS
<1>1. /\ Placed /\ Reading /\ reading \in Long /\ ~GoesOn(ch) /\ ch = CharAt(position)
      /\ UNCHANGED <<input, digits, start>>
  BY DEF Inv, Placed, EndToken
<1>2. start \in Nat /\ position \in Nat /\ Len(input) \in Nat /\ position <= Len(input)
      /\ start < position
  BY <1>1, TextsAssumption DEF Placed, Reading, Long, Literals
<1>3. /\ QuotesBefore(start) \in Nat /\ QuotesBefore(start) % 2 = 0
      /\ QuotesBefore(position)' = QuotesBefore(position')
  BY <1>1, <1>2, QuotesCounted DEF PairInv, QuotesBefore, CharAt
<1>4. CASE reading = "string"
  <2>1. position' = position + 1 /\ Emit("string", start, position + 1)
    BY <1>1, <1>4, ReadCharPlaced DEF EndToken, AfterString
  <2>2. CharAt(start) = Quote /\ QuotesBefore(position) = QuotesBefore(start) + 1
    BY <1>4 DEF PairInv
  <2>3. reading' \notin Long
    BY <2>1 DEF Emit, Long, Literals
  <2>4. CASE ch = Quote
    <3>1. QuotesBefore(position + 1) = QuotesBefore(start) + 2
      <4>1. QuotesBefore(position + 1) = QuotesBefore(position) + 1
        BY <1>1, <1>2, <2>4, QuotesCounted
      <4> QED BY <1>3, <2>2, <4>1
    <3>2. PairedIn([type |-> "string", from |-> start, to |-> position + 1])
      <4> DEFINE token == [type |-> "string", from |-> start, to |-> position + 1]
      <4>1. token.type = "string" /\ token.from = start /\ token.to = position + 1
        OBVIOUS
      <4> HIDE DEF token
      <4>2. CharAt(token.to - 1) = Quote
        <5>1. token.to - 1 = position
          BY <1>2, <4>1
        <5> QED BY <1>1, <2>4, <5>1
      <4>3. QuotesBefore(token.from) % 2 = 0
        BY <1>3, <4>1
      <4>4. QuotesBefore(token.to) = QuotesBefore(token.from) + 2
        BY <3>1, <4>1
      <4>5. PairedIn(token)
        BY <4>1, <4>2, <4>3, <4>4 DEF PairedIn
      <4> QED BY <4>5 DEF token
    <3>3. QuotesPair'
      BY <1>1, <2>1, <3>2, PairAdded DEF PairInv
    <3>4. QuotesBefore(position)' % 2 = 0
      BY <1>3, <2>1, <3>1
    <3> QED BY <2>3, <3>3, <3>4 DEF PairInv, Long, Literals
  <2>5. CASE ch # Quote
    <3>1. position = Len(input)
      <4>1. ch = NUL
        BY <1>1, <1>4, <2>5 DEF GoesOn
      <4>2. ~(position < Len(input))
        BY <1>1, <1>2, <4>1, CharOf DEF Placed
      <4> QED BY <1>2, <4>2
    <3>2. QuotesBefore(position + 1) = QuotesBefore(start) + 1
      BY <1>1, <1>2, <1>3, <2>2, <2>5, QuotesCounted
    <3>3. PairedIn([type |-> "string", from |-> start, to |-> position + 1])
      BY <1>3, <3>1, <3>2 DEF PairedIn
    <3>4. QuotesPair'
      BY <1>1, <2>1, <3>3, PairAdded DEF PairInv
    <3>5. ~(position' <= Len(input)')
      BY <1>1, <1>2, <2>1, <3>1
    <3> QED BY <2>3, <3>4, <3>5 DEF PairInv, Long, Literals
  <2> QED BY <2>4, <2>5
<1>5. CASE reading \in {"number", "word"}
  <2>1. PICK type : position' = position /\ Emit(type, start, position)
    BY <1>1, <1>5, StayPlaced DEF EndToken, AfterNumber
  <2>2. CharAt(start) # Quote /\ QuotesBefore(position) = QuotesBefore(start)
    BY <1>5 DEF PairInv
  <2>3. PairedIn([type |-> type, from |-> start, to |-> position])
    BY <1>3, <2>2 DEF PairedIn
  <2>4. QuotesPair'
    BY <1>1, <2>1, <2>3, PairAdded DEF PairInv
  <2>5. reading' \notin Long
    BY <2>1 DEF Emit, Long, Literals
  <2> QED BY <1>3, <2>1, <2>2, <2>4, <2>5 DEF PairInv, Long, Literals
<1> QED BY <1>1, <1>4, <1>5 DEF Long, Literals

LEMMA PairStep == Inv /\ PairInv /\ [Next]_vars => PairInv'
<1> SUFFICES ASSUME Inv, PairInv, [Next]_vars PROVE PairInv'
  OBVIOUS
<1>1. CASE UNCHANGED vars
  BY <1>1, TextStays, PairKept DEF vars, PairInv
<1> QED
  BY <1>1, SkipPairs, SinglePairs, BeginPairs, ReadOnPairs, EndTokenPairs DEF Next

\* In a text of any length, what is between the quotes of a pair is one string, and
\* nothing else begins there.
THEOREM QuotesPairCorrect == Spec => []QuotesPair
<1>1. Init => PairInv
  BY NoQuotes DEF Init, PairInv, QuotesPair, Long, Literals
<1>2. PairInv => QuotesPair
  BY DEF PairInv
<1> QED BY <1>1, <1>2, PairStep, InvCorrect, PTL DEF Spec

-----------------------------------------------------------------------------
(* Words.  What a token is made of follows from how it begins.                *)
Made(token) ==
  LET first == CharAt(token.from)
      inside == token.from .. token.to - 1
  IN  \/ Kind(first) = "single" /\ token.to = token.from + 1
      \/ /\ Kind(first) = "string"
         /\ \A i \in token.from + 1 .. token.to - 1 :
              QuotesBefore(i) = QuotesBefore(token.from) + 1
      \/ /\ Kind(first) = "number"
         /\ \A i \in inside : IsNumber(CharAt(i))
      \/ /\ Kind(first) = "word"
         /\ \A i \in inside : IsLetter(CharAt(i))
         /\ ~IsLetter(CharAt(token.to))
         /\ token.type \in TypesOf(SubSeq(input, token.from + 1, token.to))

\* The same of the token that is being read, as far as it has been read.
BeingMade ==
  /\ reading \in Long => Kind(CharAt(start)) = reading
  /\ reading = "string" =>
       \A i \in start + 1 .. position : QuotesBefore(i) = QuotesBefore(start) + 1
  /\ reading = "number" => \A i \in start .. position - 1 : IsNumber(CharAt(i))
  /\ reading = "word" => \A i \in start .. position - 1 : IsLetter(CharAt(i))

AllMade == \A k \in 1 .. Len(tokens) : Made(tokens[k])

MadeInv == BeingMade /\ AllMade

\* What is only about the text stays while the text does, and isdigit.
LEMMA MadeStays ==
  ASSUME UNCHANGED <<input, digits>>
  PROVE  /\ \A c : IsNumber(c)' = IsNumber(c)
         /\ \A c : Kind(c)' = Kind(c)
         /\ \A token : Made(token)' = Made(token)
<1>1. \A c : IsNumber(c)' = IsNumber(c)
  BY DEF IsNumber
<1>2. \A c : Kind(c)' = Kind(c)
  BY <1>1 DEF Kind
<1> QED BY <1>1, <1>2, TextStays DEF Made

LEMMA MadeKept ==
  ASSUME AllMade, UNCHANGED <<input, digits, tokens>>
  PROVE  AllMade'
  BY MadeStays DEF AllMade

LEMMA MadeAdded ==
  ASSUME Inv, AllMade, UNCHANGED <<input, digits>>, NEW type, NEW from, NEW to,
         Emit(type, from, to), Made([type |-> type, from |-> from, to |-> to])
  PROVE  AllMade'
<1> DEFINE token == [type |-> type, from |-> from, to |-> to]
<1>1. tokens \in Seq(Tokens) /\ tokens' = Append(tokens, token) /\ Made(token)
  BY DEF Inv, Laid, Emit
<1> HIDE DEF token
<1>2. \A k \in 1 .. Len(tokens') :
        \/ k \in 1 .. Len(tokens) /\ tokens'[k] = tokens[k]
        \/ tokens'[k] = token
  BY <1>1
<1> QED BY <1>1, <1>2, MadeStays DEF AllMade

LEMMA BeginMade == Inv /\ MadeInv /\ Begin => MadeInv'
<1> SUFFICES ASSUME Inv, MadeInv, Begin PROVE MadeInv'
  OBVIOUS
<1>1. /\ Placed /\ ch = CharAt(position) /\ reading' = Kind(ch) /\ start' = position
      /\ UNCHANGED <<input, digits, tokens>> /\ position \in Nat
  BY DEF Inv, Placed, Begin
<1>2. AllMade' /\ Kind(CharAt(start))' = Kind(ch) /\ CharAt(start)' = CharAt(position)
  BY <1>1, MadeKept, MadeStays, TextStays DEF MadeInv
<1>3. CASE ch = Quote
  <2>1. reading' = "string" /\ position' = position + 1
    BY <1>1, <1>3, ReadCharPlaced DEF Begin, Kind
  <2>2. QuotesBefore(position + 1) = QuotesBefore(position) + 1
    BY <1>1, <1>3, QuotesCounted
  <2>3. \A i \in position + 1 .. position' : i = position + 1
    BY <1>1, <2>1
  <2>4. \A i \in start' + 1 .. position' : QuotesBefore(i)' = QuotesBefore(start)' + 1
    BY <1>1, <2>2, <2>3, TextStays
  <2> QED BY <1>1, <1>2, <2>1, <2>4 DEF MadeInv, BeingMade
<1>4. CASE ch # Quote
  <2>1. reading' # "string" /\ position' = position
    BY <1>1, <1>4, StayPlaced DEF Begin, Kind
  <2>2. start' .. position' - 1 = {}
    BY <1>1, <2>1
  <2> QED BY <1>1, <1>2, <2>1, <2>2 DEF MadeInv, BeingMade
<1> QED BY <1>3, <1>4

LEMMA ReadOnMade == Inv /\ MadeInv /\ ReadOn => MadeInv'
<1> SUFFICES ASSUME Inv, MadeInv, ReadOn PROVE MadeInv'
  OBVIOUS
<1>1. /\ Placed /\ Reading /\ reading \in Long /\ GoesOn(ch) /\ ch = CharAt(position) /\ ReadChar
      /\ UNCHANGED <<input, digits, reading, start, tokens>>
  BY DEF Inv, Placed, ReadOn
<1>2. position' = position + 1 /\ position \in Nat /\ start \in Nat /\ start <= position
  BY <1>1, ReadCharPlaced DEF Placed, Reading
<1>3. AllMade' /\ Kind(CharAt(start))' = Kind(CharAt(start))
  BY <1>1, MadeKept, MadeStays, TextStays DEF MadeInv
<1>4. ASSUME reading = "string"
      PROVE  \A i \in start + 1 .. position + 1 : QuotesBefore(i) = QuotesBefore(start) + 1
  <2>1. start < position /\ CharAt(position) # Quote
    BY <1>1, <1>4 DEF Reading, GoesOn
  <2>2. QuotesBefore(position + 1) = QuotesBefore(position)
    BY <1>2, <2>1, QuotesCounted
  <2>3. \A i \in start + 1 .. position : QuotesBefore(i) = QuotesBefore(start) + 1
    BY <1>4 DEF MadeInv, BeingMade
  <2>4. \A i \in start + 1 .. position + 1 : i \in start + 1 .. position \/ i = position + 1
    BY <1>2
  <2>5. position \in start + 1 .. position
    BY <1>2, <2>1
  <2> QED BY <2>2, <2>3, <2>4, <2>5
<1>5. \A i \in start .. position' - 1 : i \in start .. position - 1 \/ i = position
  BY <1>2
<1>6. reading = "number" => \A i \in start .. position' - 1 : IsNumber(CharAt(i))
  BY <1>1, <1>5 DEF MadeInv, BeingMade, GoesOn
<1>7. reading = "word" => \A i \in start .. position' - 1 : IsLetter(CharAt(i))
  BY <1>1, <1>5 DEF MadeInv, BeingMade, GoesOn
<1> QED
  BY <1>1, <1>2, <1>3, <1>4, <1>6, <1>7, TextStays, MadeStays DEF MadeInv, BeingMade, IsLetter

LEMMA EndTokenMade == Inv /\ MadeInv /\ EndToken => MadeInv'
<1> SUFFICES ASSUME Inv, MadeInv, EndToken PROVE MadeInv'
  OBVIOUS
<1>1. /\ Placed /\ Reading /\ reading \in Long /\ ~GoesOn(ch) /\ ch = CharAt(position)
      /\ UNCHANGED <<input, digits, start>> /\ start \in Nat /\ position \in Nat
      /\ Kind(CharAt(start)) = reading
  BY DEF Inv, Placed, EndToken, MadeInv, BeingMade
<1>2. CASE reading = "string"
  <2>1. Emit("string", start, position + 1)
    BY <1>2 DEF EndToken, AfterString
  <2>2. Made([type |-> "string", from |-> start, to |-> position + 1])
    <3>1. \A i \in start + 1 .. (position + 1) - 1 : QuotesBefore(i) = QuotesBefore(start) + 1
      BY <1>1, <1>2 DEF MadeInv, BeingMade
    <3> QED BY <1>1, <1>2, <3>1 DEF Made
  <2> QED BY <1>1, <2>1, <2>2, MadeAdded DEF MadeInv, BeingMade, Emit, Long, Literals
<1>3. CASE reading = "number"
  <2>1. Emit("number", start, position)
    BY <1>3 DEF EndToken
  <2>2. Made([type |-> "number", from |-> start, to |-> position])
    BY <1>1, <1>3 DEF Made, MadeInv, BeingMade
  <2> QED BY <1>1, <2>1, <2>2, MadeAdded DEF MadeInv, BeingMade, Emit, Long, Literals
<1>4. CASE reading = "word"
  <2>1. PICK type \in TypesOf(SubSeq(input, start + 1, position)) : Emit(type, start, position)
    BY <1>4 DEF EndToken
  <2>2. ~IsLetter(CharAt(position))
    BY <1>1, <1>4 DEF GoesOn
  <2>3. Made([type |-> type, from |-> start, to |-> position])
    BY <1>1, <1>4, <2>1, <2>2 DEF Made, MadeInv, BeingMade
  <2> QED BY <1>1, <2>1, <2>3, MadeAdded DEF MadeInv, BeingMade, Emit, Long, Literals
<1> QED BY <1>1, <1>2, <1>3, <1>4 DEF Long, Literals

LEMMA MadeStep == Inv /\ MadeInv /\ [Next]_vars => MadeInv'
<1> SUFFICES ASSUME Inv, MadeInv, [Next]_vars PROVE MadeInv'
  OBVIOUS
<1>1. CASE SkipWhitespace
  BY <1>1, MadeKept DEF SkipWhitespace, MadeInv, BeingMade, Long, Literals
<1>2. CASE SingleToken
  <2>1. /\ ch = CharAt(position) /\ Kind(ch) = "single" /\ position \in Nat
        /\ Emit(Single(ch), position, position + 1) /\ UNCHANGED <<input, digits>>
    BY <1>2 DEF SingleToken, Inv, Placed
  <2>2. Made([type |-> Single(ch), from |-> position, to |-> position + 1])
    BY <2>1 DEF Made
  <2> QED BY <2>1, <2>2, MadeAdded DEF MadeInv, BeingMade, Emit, Long, Literals
<1>3. CASE UNCHANGED vars
  <2>1. UNCHANGED <<input, digits, tokens>> /\ UNCHANGED <<position, reading, start>>
    BY <1>3 DEF vars
  <2> QED BY <2>1, MadeKept, MadeStays, TextStays DEF MadeInv, BeingMade, IsLetter
<1> QED BY <1>1, <1>2, <1>3, BeginMade, ReadOnMade, EndTokenMade DEF Next

\* No word begins another, so strncmp with the length of the literal knows each.
LEMMA WordType ==
  ASSUME NEW w \in Words
  PROVE  TypesOf(Spelling[w]) = {w} /\ Spelling[w] \in Seq(Letters) /\ Len(Spelling[w]) \in Nat \ {0}
         /\ Spelling[w][1] \notin {"e", "E"}
<1>1. /\ Spelling["true"] = <<"t", "r", "u", "e">>
      /\ Spelling["false"] = <<"f", "a", "l", "s", "e">>
      /\ Spelling["null"] = <<"n", "u", "l", "l">>
  BY DEF Spelling, Words
<1>0. \A v \in Words : Spelling[v] \in Seq(Letters) /\ Len(Spelling[v]) \in Nat \ {0}
  <2>1. Spelling["true"] \in Seq(Letters) /\ Len(Spelling["true"]) = 4
    BY <1>1 DEF Letters
  <2>2. Spelling["false"] \in Seq(Letters) /\ Len(Spelling["false"]) = 5
    BY <1>1 DEF Letters
  <2>3. Spelling["null"] \in Seq(Letters) /\ Len(Spelling["null"]) = 4
    BY <1>1 DEF Letters
  <2>4. 4 \in Nat \ {0} /\ 5 \in Nat \ {0}
    OBVIOUS
  <2> QED BY <2>1, <2>2, <2>3, <2>4, Zenon DEF Words
<1>2. ASSUME NEW v \in Words, IsPrefix(Spelling[w], Spelling[v])
      PROVE  v = w
  <2>1. /\ Len(Spelling[w]) \in Nat /\ 1 \in 1 .. Len(Spelling[w])
        /\ Spelling[v] \in Seq(Letters) /\ Spelling[w] \in Seq(Letters)
    BY <1>0
  <2>2. SubSeq(Spelling[w], 1, Len(Spelling[w]))[1] = Spelling[w][1]
    BY <2>1
  <2>3. SubSeq(Spelling[v], 1, Len(Spelling[w]))[1] = Spelling[v][1]
    BY <1>2, <2>1 DEF IsPrefix
  <2>4. Spelling[w][1] = Spelling[v][1]
    BY <1>2, <2>2, <2>3 DEF IsPrefix
  <2> QED BY <1>1, <2>4 DEF Words
<1>3. IsPrefix(Spelling[w], Spelling[w])
  BY <1>1 DEF IsPrefix, Words
<1>4. TypesOf(Spelling[w]) = {w}
  <2>1. {v \in Words : IsPrefix(Spelling[w], Spelling[v])} = {w}
    BY <1>2, <1>3
  <2> QED BY <2>1, Zenon DEF TypesOf
<1>5. Spelling[w][1] \notin {"e", "E"}
  BY <1>1 DEF Words
<1> QED BY <1>0, <1>4, <1>5

\* The token in which a delimited word begins is the word.
LEMMA WordMade ==
  ASSUME Inv, QuotesPair, AllMade,
         NEW w \in Words, NEW from \in Nat, NEW to \in Nat,
         to = from + Len(Spelling[w]), to <= Len(input), to <= Reached,
         SubSeq(input, from + 1, to) = Spelling[w],
         Delimits(from - 1), Delimits(to), QuotesBefore(from) % 2 = 0
  PROVE  \E k \in 1 .. Len(tokens) : tokens[k] = [type |-> w, from |-> from, to |-> to]
<1>1. input \in Seq(Chars) /\ Len(input) \in Nat /\ digits \in {{"0"}, {"0", High}}
  BY TextsAssumption DEF Inv, Placed
<1>2. from < to /\ \A i \in from .. to - 1 : CharAt(i) = Spelling[w][i - from + 1]
  <2>1. from < to
    BY WordType
  <2>2. \A i \in from .. to - 1 : CharAt(i) = input[i + 1]
    BY <1>1 DEF CharAt
  <2>3. \A i \in from .. to - 1 : SubSeq(input, from + 1, to)[i - from + 1] = input[i + 1]
    BY <1>1
  <2> QED BY <2>1, <2>2, <2>3
<1>3. \A i \in from .. to - 1 : IsLetter(CharAt(i))
  <2>1. ASSUME NEW i \in from .. to - 1 PROVE CharAt(i) \in Letters
    <3>1. i - from + 1 \in 1 .. Len(Spelling[w])
      BY WordType
    <3>2. Spelling[w] \in Seq(Letters)
      BY WordType
    <3>3. \A j \in 1 .. Len(Spelling[w]) : Spelling[w][j] \in Letters
      BY <3>2
    <3>4. Spelling[w][i - from + 1] \in Letters
      BY <3>1, <3>3
    <3> QED BY <1>2, <3>4
  <2> QED BY <2>1 DEF IsLetter
<1>4. CharAt(from) = Spelling[w][1] /\ IsLetter(CharAt(from)) /\ ~IsNumber(CharAt(from))
      /\ CharAt(from) # Space
  <2>1. CharAt(from) = Spelling[w][1] /\ IsLetter(CharAt(from))
    BY <1>2, <1>3
  <2>2. CharAt(from) \in Letters \ {"e", "E"}
    BY <2>1, WordType DEF IsLetter
  <2> QED BY <1>1, <2>1, <2>2 DEF IsNumber, Letters, Numeric, High, Space
<1>5. PICK k \in 1 .. Len(tokens) : from \in tokens[k].from .. tokens[k].to - 1
  <2>1. from \in 0 .. Reached - 1
    BY <1>2 DEF Inv, Placed, Reached
  <2> QED BY <1>4, <2>1, Zenon DEF Inv, Covered
<1> DEFINE token == tokens[k]
<1>6. token \in Tokens /\ Made(token) /\ PairedIn(token)
  BY DEF Inv, Laid, AllMade, QuotesPair
<1>7. token.from \in Nat /\ token.to \in Nat /\ token.from <= from /\ from < token.to
  BY <1>5, <1>6 DEF Tokens
<1>8. Kind(CharAt(from)) = "word"
  BY <1>4 DEF Kind, IsLetter, Letters, Quote
<1>9. CASE token.from = from
  <2>1. /\ \A i \in from .. token.to - 1 : IsLetter(CharAt(i))
        /\ ~IsLetter(CharAt(token.to))
        /\ token.type \in TypesOf(SubSeq(input, from + 1, token.to))
    BY <1>6, <1>8, <1>9 DEF Made
  <2>2. ~IsLetter(CharAt(to))
    BY <1>1 DEF Delimits
  <2>3. token.to = to
    <3>1. ~(token.to < to)
      BY <1>3, <1>7, <2>1
    <3>2. ~(to < token.to)
      BY <1>2, <1>7, <2>1, <2>2
    <3> QED BY <1>7, <3>1, <3>2
  <2>4. token.type = w
    <3>1. TypesOf(Spelling[w]) = {w}
      BY WordType
    <3> HIDE DEF token
    <3> QED BY <2>1, <2>3, <3>1
  <2>5. token = [type |-> token.type, from |-> token.from, to |-> token.to]
    BY <1>6 DEF Tokens
  <2> QED BY <1>9, <2>3, <2>4, <2>5
<1>10. CASE token.from < from
  <2>1. from - 1 \in token.from .. token.to - 1 /\ ~(from - 1 < 0)
    <3>1. token.from \in Nat /\ token.to \in Nat /\ token.from < from /\ from < token.to
      BY <1>7, <1>10
    <3> HIDE DEF token
    <3> QED BY <3>1
  <2>2. ~IsLetter(CharAt(from - 1)) /\ ~IsNumber(CharAt(from - 1))
    BY <2>1 DEF Delimits
  <2>3. /\ Kind(CharAt(token.from)) = "string"
        /\ \A i \in token.from + 1 .. token.to - 1 : QuotesBefore(i) = QuotesBefore(token.from) + 1
    BY <1>6, <1>7, <1>10, <2>1, <2>2 DEF Made
  <2>4. QuotesBefore(from) = QuotesBefore(token.from) + 1
    <3>1. from \in token.from + 1 .. token.to - 1
      BY <1>7, <1>10
    <3> HIDE DEF token
    <3> QED BY <2>3, <3>1
  <2>5. QuotesBefore(token.from) \in Nat /\ QuotesBefore(token.from) % 2 = 0
    <3>1. token.from \in Nat /\ token.from < Len(input)
      BY <1>1, <1>2, <1>7
    <3> HIDE DEF token
    <3>2. QuotesBefore(token.from) \in Nat
      BY <3>1, QuotesCounted
    <3>3. QuotesBefore(token.from) % 2 = 0
      BY <1>6, <3>1 DEF PairedIn
    <3> QED BY <3>2, <3>3
  <2>6. (QuotesBefore(token.from) + 1) % 2 # 0
    <3> HIDE DEF token
    <3> QED BY <2>5
  <2> QED BY <2>4, <2>6
<1>11. token.from = from \/ token.from < from
  BY <1>7
<1> QED BY <1>9, <1>10, <1>11

\* In a text of any length, true, false and null between delimiters are each read as
\* the one token they are, whatever comes before and behind them.
THEOREM WordsWholeCorrect == Spec => []WordsWhole
<1>1. Init => PairInv /\ MadeInv
  BY NoQuotes DEF Init, PairInv, QuotesPair, MadeInv, BeingMade, AllMade, Long, Literals
<1>2. Inv /\ QuotesPair /\ MadeInv => WordsWhole
  <2> SUFFICES ASSUME Inv, QuotesPair, AllMade, NEW w \in Words,
                      NEW from \in 0 .. Len(input) - Len(Spelling[w]),
                      from + Len(Spelling[w]) <= Reached,
                      SubSeq(input, from + 1, from + Len(Spelling[w])) = Spelling[w],
                      Delimits(from - 1), Delimits(from + Len(Spelling[w])),
                      QuotesBefore(from) % 2 = 0
               PROVE  [type |-> w, from |-> from, to |-> from + Len(Spelling[w])]
                        \in {tokens[k] : k \in 1 .. Len(tokens)}
    BY Zenon DEF WordsWhole, MadeInv
  <2>1. Len(input) \in Nat /\ Len(Spelling[w]) \in Nat
    BY WordType, TextsAssumption DEF Inv, Placed
  <2> DEFINE to == from + Len(Spelling[w])
  <2>2. from \in Nat /\ to \in Nat /\ to <= Len(input)
    BY <2>1
  <2>3. \E k \in 1 .. Len(tokens) : tokens[k] = [type |-> w, from |-> from, to |-> to]
    BY <2>2, WordMade
  <2> QED BY <2>3
<1>3. PairInv => QuotesPair
  BY DEF PairInv
<1> QED BY <1>1, <1>2, <1>3, PairStep, MadeStep, InvCorrect, PTL DEF Spec

-----------------------------------------------------------------------------
(***************************************************************************)
(* The array in which parseTokens keeps the tokens, on its own: it stays   *)
(* inside its block, for an input of any length and any sizes with         *)
(* TokenSize >= 2 * PtrSize.  What is stored are pointers.                 *)
(*                                                                         *)
(* Its inductive invariant: both byte counts are functions of the number   *)
(* of tokens, and what cleanup has passed is freed.                        *)
(***************************************************************************)
ArrayInv ==
  /\ ArrayTypeOK
  /\ stage = "reading" =>
       /\ size = (Len(stored) + 1) * TokenSize
       /\ allocated = IF stored = << >> THEN TokenSize ELSE Len(stored) * TokenSize
       /\ next = 0
  /\ stage # "reading" =>
       /\ length = Len(stored) /\ next <= length
       /\ \A k \in 1 .. next : stored[k] = "NULL"
  /\ stage = "cleaned" => next = length

-----------------------------------------------------------------------------
(* Arithmetic *)

\* One Token more in the byte count is one Token more in the number of tokens.
LEMMA OneMore ==
  ASSUME NEW n \in Nat, NEW t \in Nat
  PROVE  (n + 1) * t = n * t + t
  OBVIOUS

\* Counting in Tokens leaves room for one pointer more than is stored.
LEMMA RoomForOneMore ==
  ASSUME NEW n \in Nat \ {0}, NEW p \in Nat, NEW t \in Nat, t >= 2 * p
  PROVE  (n + 1) * p <= n * t
<1>1. n * t >= n * (2 * p)
  OBVIOUS
<1>2. n * (2 * p) = n * p + n * p
  OBVIOUS
<1>3. n * p >= p
  OBVIOUS
<1>4. (n + 1) * p = n * p + p
  BY OneMore
<1>5. n * t \in Nat /\ n * p \in Nat
  OBVIOUS
<1>6. QED
  BY <1>1, <1>2, <1>3, <1>4, <1>5

\* The division that turns the byte count into a length is exact.
LEMMA ExactDivision ==
  ASSUME NEW n \in Nat, NEW t \in Nat \ {0}
  PROVE  (n * t) \div t = n
  OBVIOUS

-----------------------------------------------------------------------------
\* Every step of parseTokens and of its cleanup keeps the invariant.
LEMMA ArrayInvStep ==
  ArrayInv /\ [ArrayNext]_arrayVars => ArrayInv'
<1> SUFFICES ASSUME ArrayInv, [ArrayNext]_arrayVars
             PROVE  ArrayInv'
  OBVIOUS
<1>1. ArrayTypeOK /\ Len(stored) \in Nat
  BY DEF ArrayInv, ArrayTypeOK
<1>2. CASE Store
  <2>1. stored' \in Seq({"live", "NULL"}) /\ Len(stored') = Len(stored) + 1
    BY <1>1, <1>2 DEF Store, ArrayTypeOK
  <2>2. size = (Len(stored) + 1) * TokenSize
    BY <1>2 DEF Store, ArrayInv
  <2>3. allocated' = Len(stored') * TokenSize
    BY <1>2, <2>1, <2>2 DEF Store, Grow
  <2>4. size' = (Len(stored') + 1) * TokenSize
    BY <1>1, <1>2, <2>1, <2>2, OneMore, SizeAssumption DEF Store, Grow, Sizes
  <2>5. stored' # << >> /\ stage' = "reading" /\ next' = 0
    BY <1>1, <1>2, <2>1 DEF Store, ArrayInv
  <2>6. ArrayTypeOK'
    BY <1>1, <1>2, <2>1, SizeAssumption DEF Store, Grow, ArrayTypeOK, Sizes
  <2>7. QED
    BY <2>3, <2>4, <2>5, <2>6 DEF ArrayInv
<1>3. CASE StoreEnd
  <2>1. stored' \in Seq({"live", "NULL"}) /\ Len(stored') = Len(stored) + 1
    BY <1>1, <1>3 DEF StoreEnd, ArrayTypeOK
  <2>2. length' = Len(stored')
    <3>1. length' = ((Len(stored) + 1) * TokenSize) \div TokenSize
      BY <1>3 DEF StoreEnd, ReturnedLength, ArrayInv
    <3>2. TokenSize \in Nat \ {0}
      BY SizeAssumption DEF Sizes
    <3>3. QED
      BY <1>1, <2>1, <3>1, <3>2, ExactDivision
  <2>3. next' = 0 /\ stage' = "parsed"
    BY <1>3 DEF StoreEnd, ArrayInv
  <2>4. ArrayTypeOK'
    BY <1>1, <1>3, <2>1, <2>2, <2>3 DEF StoreEnd, ArrayTypeOK
  <2>5. QED
    BY <1>1, <2>1, <2>2, <2>3, <2>4 DEF ArrayInv
<1>4. CASE CleanToken
  <2>1. /\ stage = "parsed" /\ length = Len(stored) /\ next < length
        /\ \A k \in 1 .. next : stored[k] = "NULL"
        /\ next \in Nat
    BY <1>1, <1>4 DEF CleanToken, CleanupGoesOn, ArrayInv, ArrayTypeOK
  <2>2. next + 1 \in 1 .. Len(stored)
    BY <1>1, <2>1
  <2>3. /\ stored' = [stored EXCEPT ![next + 1] = "NULL"]
        /\ next' = next + 1
        /\ UNCHANGED <<stage, allocated, size, length>>
    BY <1>4 DEF CleanToken
  <2>4. stored' \in Seq({"live", "NULL"}) /\ Len(stored') = Len(stored)
    BY <1>1, <2>2, <2>3 DEF ArrayTypeOK
  <2>5. \A k \in 1 .. next' : stored'[k] = "NULL"
    BY <1>1, <2>1, <2>2, <2>3 DEF ArrayTypeOK
  <2>6. ArrayTypeOK'
    BY <1>1, <2>1, <2>3, <2>4 DEF ArrayTypeOK
  <2>7. QED
    BY <2>1, <2>3, <2>4, <2>5, <2>6 DEF ArrayInv, ArrayTypeOK
<1>5. CASE CleanupEnd
  BY <1>1, <1>5 DEF CleanupEnd, CleanupGoesOn, ArrayInv, ArrayTypeOK
<1>6. CASE UNCHANGED arrayVars
  BY <1>6 DEF arrayVars, ArrayInv, ArrayTypeOK
<1>7. QED
  BY <1>2, <1>3, <1>4, <1>5, <1>6 DEF ArrayNext

\* And it holds at the start.
LEMMA ArrayInvInit ==
  ArrayInit => ArrayInv
  BY SizeAssumption DEF ArrayInit, ArrayInv, ArrayTypeOK, Sizes

\* The byte counts and the number of tokens agree in every reachable state.
THEOREM ArrayInvCorrect ==
  ArraySpec => []ArrayInv
  BY ArrayInvInit, ArrayInvStep, PTL DEF ArraySpec

\* parseTokens and cleanup keep the types of their variables: no count gets negative.
THEOREM ArrayTypeCorrect ==
  ArraySpec => []ArrayTypeOK
<1>1. ArrayInv => ArrayTypeOK
  BY DEF ArrayInv
<1> QED BY <1>1, ArrayInvCorrect, PTL

\* Every pointer parseTokens stores fits in the block, for an input of any length.
THEOREM StoresFitCorrect ==
  ArraySpec => []StoresFit
<1>1. ArrayInv => StoresFit
  <2> SUFFICES ASSUME ArrayInv, stage = "reading"
               PROVE  (Len(stored) + 1) * PtrSize <= allocated
    BY DEF StoresFit
  <2>1. stored \in Seq({"live", "NULL"}) /\ Len(stored) \in Nat
    BY DEF ArrayInv, ArrayTypeOK
  <2>2. CASE stored = << >>
    BY <2>2, SizeAssumption DEF ArrayInv, Sizes
  <2>3. CASE stored # << >>
    <3>1. Len(stored) \in Nat \ {0}
      BY <2>1, <2>3
    <3>2. allocated = Len(stored) * TokenSize
      BY <2>3 DEF ArrayInv
    <3>3. QED
      BY <3>1, <3>2, RoomForOneMore, SizeAssumption DEF Sizes
  <2>4. QED
    BY <2>2, <2>3
<1> QED BY <1>1, ArrayInvCorrect, PTL

\* The length handed to the parser and to cleanup is the number of tokens.
THEOREM LengthCorrect ==
  ArraySpec => []LengthIsCount
<1>1. ArrayInv => LengthIsCount
  BY DEF ArrayInv, LengthIsCount
<1> QED BY <1>1, ArrayInvCorrect, PTL

\* Cleanup frees every token.
THEOREM AllFreedCorrect ==
  ArraySpec => []AllFreed
<1>1. ArrayInv => AllFreed
  BY DEF ArrayInv, AllFreed
<1> QED BY <1>1, ArrayInvCorrect, PTL

=============================================================================
