------------------------------ MODULE JsonTokens ------------------------------
(***************************************************************************)
(* json/lexer.h: the token types, as lexer and parser know them.  Types    *)
(* that the parser treats alike (TOKEN_ARRAY, TOKEN_OBJECT, TOKEN_BOOLEAN  *)
(* and TOKEN_ILLEGAL) are one.  A TOKEN_STRING or TOKEN_NUMBER whose       *)
(* literal is NULL, which an unknown word may become, is a type of its own.*)
(***************************************************************************)
EXTENDS Integers, Sequences

Words == {"true", "false", "null"}
Literals == {"string", "number"}   \* tokens whose literal is not NULL
Simple == Literals \cup Words
Structural == {"{", "}", "[", "]", ",", ":"}
NoLiteral == "no literal"
TokenTypes == Simple \cup Structural \cup {NoLiteral, "illegal", "EOF"}

\* What parseTokens hands to the parser.
IsTokenArray(types) ==
  /\ types \in Seq(TokenTypes) /\ Len(types) > 0
  /\ \A i \in 1 .. Len(types) : types[i] = "EOF" <=> i = Len(types)

=============================================================================
