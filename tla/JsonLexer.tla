------------------------------ MODULE JsonLexer ------------------------------
(***************************************************************************)
(* json/lexer.c: lexerCreate, lexerNext and the functions it reads with,   *)
(* called by parseTokens until TOKEN_EOF.  One action is one call of       *)
(* _lexerReadChar, or the end of a number or a word, which needs none.     *)
(* A character stands for all that the code treats like it.  Freeing the   *)
(* lexer and the size of the literals on the stack are left out.           *)
(***************************************************************************)
EXTENDS JsonTokens, SequencesExt

CONSTANT Texts   \* the texts that may be read: sequences of characters

Space == " "     \* and tab, carriage return, line feed
Quote == "quote"
NUL == "NUL"     \* ends every text, and is in none
Letters == {"t", "r", "u", "e", "f", "a", "l", "s", "n", "E", "x"}  \* x: any other
Numeric == {".", "e", "E"}                                          \* .: and + and -
High == "high"   \* not ASCII, so isdigit is asked about a negative char
Chars == Letters \cup Numeric \cup Structural \cup {Space, Quote, High, "0", "#"}

ASSUME TextsAssumption == Texts \subseteq Seq(Chars)

VARIABLES
  input,          \* the text, its length is inputLength
  digits,         \* the characters isdigit says yes to
  position,
  readPosition,
  ch,
  reading,        \* "next": in lexerNext, before the switch; else the loop it is in
  start,          \* where the token begins that is being read
  tokens          \* what parseTokens has, with where each token begins and ends

vars == <<input, digits, position, readPosition, ch, reading, start, tokens>>

Long == Literals \cup {"word"}   \* tokens that are read in a loop of their own

CharAt(i) == IF i >= Len(input) THEN NUL ELSE input[i + 1]

\* isdigit of a negative char is undefined: it may answer either way.
Init ==
  /\ input \in Texts
  /\ digits \in {{"0"}, {"0", High}}
  /\ position = 0 /\ readPosition = 1 /\ ch = CharAt(0)
  /\ reading = "next" /\ start = 0 /\ tokens = << >>

ReadChar ==
  /\ ch' = CharAt(readPosition)
  /\ position' = readPosition
  /\ readPosition' = readPosition + 1

StayAtChar == UNCHANGED <<ch, position, readPosition>>

IsNumber(c) == c \in digits \cup Numeric
IsLetter(c) == c \in Letters

Kind(c) ==
  IF c = Quote THEN "string" ELSE IF IsNumber(c) THEN "number"
  ELSE IF IsLetter(c) THEN "word" ELSE "single"

EmitToEnd(type, from, to) ==                                  \* variant
  /\ tokens' = Append(tokens, [type |-> type, from |-> from, to |-> to])
  /\ reading' = IF ch' = NUL THEN "done" ELSE "next"
Emit(type, from, to) ==
  /\ tokens' = Append(tokens, [type |-> type, from |-> from, to |-> to])
  /\ reading' = IF type = "EOF" THEN "done" ELSE "next"

SkipWhitespace ==
  /\ reading = "next" /\ ch = Space
  /\ ReadChar
  /\ UNCHANGED <<input, digits, reading, start, tokens>>

Single(c) ==
  IF c = NUL THEN "EOF" ELSE IF c \in Structural THEN c ELSE "illegal"

SingleToken ==
  /\ reading = "next" /\ ch # Space /\ Kind(ch) = "single"
  /\ ReadChar
  /\ Emit(Single(ch), position, position + 1)
  /\ UNCHANGED <<input, digits, start>>

\* Only a string begins with a character that is not in the literal.
Begin ==
  /\ reading = "next" /\ ch # Space /\ Kind(ch) # "single"
  /\ reading' = Kind(ch)
  /\ start' = position
  /\ IF ch = Quote THEN ReadChar ELSE StayAtChar
  /\ UNCHANGED <<input, digits, tokens>>

StringToQuote(c) ==                                           \* variant
  \/ reading = "string" /\ c # Quote
  \/ reading = "number" /\ IsNumber(c)
  \/ reading = "word" /\ IsLetter(c)
NumberOfDigits(c) ==                                          \* variant
  \/ reading = "string" /\ c # NUL /\ c # Quote
  \/ reading = "number" /\ c \in digits
  \/ reading = "word" /\ IsLetter(c)
WordWithoutNumbers(c) ==                                      \* variant
  \/ reading = "string" /\ c # NUL /\ c # Quote
  \/ reading = "number" /\ IsNumber(c)
  \/ reading = "word" /\ Kind(c) = "word"
GoesOn(c) ==
  \/ reading = "string" /\ c # NUL /\ c # Quote
  \/ reading = "number" /\ IsNumber(c)
  \/ reading = "word" /\ IsLetter(c)

ReadOn ==
  /\ reading \in Long /\ GoesOn(ch)
  /\ ReadChar
  /\ UNCHANGED <<input, digits, reading, start, tokens>>

Spelling ==
  [w \in Words |-> CASE w = "true" -> <<"t", "r", "u", "e">>
                     [] w = "false" -> <<"f", "a", "l", "s", "e">>
                     [] w = "null" -> <<"n", "u", "l", "l">>]

\* strncmp compares as many characters as the word has; for a word that begins
\* none of the three, _getTokenTypeFromLiteral returns no value: the type may be any,
\* but the literal is NULL.
TypesOf(word) ==
  LET known == {w \in Words : IsPrefix(word, Spelling[w])}
  IN  IF known = {} THEN TokenTypes \ Literals ELSE known

QuoteStays == StayAtChar                                      \* variant
AfterString == ReadChar   \* over the quote, or further behind the end
NumberEats == ReadChar                                        \* variant
AfterNumber == StayAtChar

EndToken ==
  /\ reading \in Long /\ ~GoesOn(ch)
  /\ \/ reading = "string" /\ AfterString /\ Emit("string", start, position + 1)
     \/ reading = "number" /\ AfterNumber /\ Emit("number", start, position)
     \/ /\ reading = "word" /\ StayAtChar
        /\ \E type \in TypesOf(SubSeq(input, start + 1, position)) :
             Emit(type, start, position)
  /\ UNCHANGED <<input, digits, start>>

Next == SkipWhitespace \/ SingleToken \/ Begin \/ ReadOn \/ EndToken

Spec == Init /\ [][Next]_vars

-----------------------------------------------------------------------------
(* Properties *)

Reached == IF reading \in Long THEN start ELSE position
Types == [k \in 1 .. Len(tokens) |-> tokens[k].type]

\* The variables hold values of their types, and position, which is never tested
\* when it grows, stays close to the text: at most two places behind the terminator,
\* where the end token leaves it if the last string has no second quote, and not
\* behind the terminator while a string, a number or a word is read.
TypeOK ==
  /\ input \in Texts /\ digits \in {{"0"}, {"0", High}}
  /\ position \in 0 .. Len(input) + 2 /\ readPosition = position + 1
  /\ ch \in Chars \cup {NUL}
  /\ reading \in Long \cup {"next", "done"}
  /\ start \in 0 .. Len(input)
  /\ tokens \in Seq([type : TokenTypes, from : 0 .. Len(input) + 1, to : 1 .. Len(input) + 2])
  /\ reading \in Long => position <= Len(input)

\* Every call of lexerNext goes forward: there are never more tokens than
\* characters read, so parseTokens ends.
Progress == Len(tokens) <= Reached

\* No character is dropped and none is read twice: up to where the lexer is,
\* each character but white space is in one token, and tokens do not overlap.
NothingSkipped ==
  /\ \A i \in 0 .. Reached - 1 :
       CharAt(i) # Space => \E k \in 1 .. Len(tokens) : i \in tokens[k].from .. tokens[k].to - 1
  /\ \A j, k \in 1 .. Len(tokens) : j < k => tokens[j].to <= tokens[k].from

\* The array parseTokens returns is one the parser is written for: it ends with
\* its only end token, whatever type an unknown word is given.
ParserInput == reading = "done" => IsTokenArray(Types)

QuotesBefore(i) == Cardinality({q \in 0 .. i - 1 : CharAt(q) = Quote})

PairedIn(token) ==
  /\ token.from < Len(input) => QuotesBefore(token.from) % 2 = 0
  /\ CharAt(token.from) = Quote =>
       /\ token.type = "string"
       /\ \/ /\ CharAt(token.to - 1) = Quote
             /\ QuotesBefore(token.to) = QuotesBefore(token.from) + 2
          \/ /\ token.to = Len(input) + 1
             /\ QuotesBefore(token.to) = QuotesBefore(token.from) + 1

\* The quotes of the text pair up from the left: what is between two of a pair,
\* or behind an odd last one, is one string, and no other token begins there.
QuotesPair == \A k \in 1 .. Len(tokens) : PairedIn(tokens[k])

Delimits(i) == i < 0 \/ ~(IsLetter(CharAt(i)) \/ IsNumber(CharAt(i)))

\* true, false and null are always read as the one token they are, although e
\* is a character of numbers, and numbers are looked for first.
WordsWhole ==
  \A w \in Words : \A from \in 0 .. Len(input) - Len(Spelling[w]) :
    LET to == from + Len(Spelling[w]) IN
      ( /\ to <= Reached /\ SubSeq(input, from + 1, to) = Spelling[w]
        /\ Delimits(from - 1) /\ Delimits(to)
        /\ QuotesBefore(from) % 2 = 0 )
      => [type |-> w, from |-> from, to |-> to] \in {tokens[k] : k \in 1 .. Len(tokens)}

=============================================================================
