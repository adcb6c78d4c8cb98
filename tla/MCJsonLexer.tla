---------------------------- MODULE MCJsonLexer ----------------------------
(* Values of JsonLexer's constant for TLC. *)
EXTENDS JsonLexer

CONSTANTS
  MaxChars,    \* bound: characters of a text of any characters
  MaxPieces    \* bound: pieces of a text that is built around words

Alphabet == {Space, ",", Quote, "0", "e", "t", "#", High}
AnyTexts == UNION {[1 .. n -> Alphabet] : n \in 0 .. MaxChars}

Pieces ==
  {Spelling[w] : w \in Words} \cup
  {<<c>> : c \in {Space, "}", Quote, "0", ".", "E", "t", "x"}}
PieceTexts == {FlattenSeq(p) : p \in UNION {[1 .. n -> Pieces] : n \in 0 .. MaxPieces}}

MCTexts == AnyTexts \cup PieceTexts

=============================================================================
