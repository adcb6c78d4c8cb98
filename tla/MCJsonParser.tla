---------------------------- MODULE MCJsonParser ----------------------------
(* Values of JsonParser's constant for TLC. *)
EXTENDS JsonParser

CONSTANT MaxTokens   \* bound: tokens of an arbitrary text or piece of text

Ended(input) == Append(input, "EOF")

\* Any tokens: alone, in the outermost object, in an array and an object in it.
Alphabet == Structural \cup {"string", "null", NoLiteral}
AnyTokens == UNION {[1 .. n -> Alphabet] : n \in 0 .. MaxTokens}
AnyTexts ==
  UNION {{ Ended(any),
           Ended(<<"{">> \o any),
           Ended(<<"{", "string", ",", "[">> \o any \o <<"]", "}">>),
           Ended(<<"{", "string", ",", "{">> \o any \o <<"}", "}">>) } : any \in AnyTokens}

\* Well-formed texts, three containers deep at most: nested ones have up to two
\* members, the outermost three, the last of them a string.
Join(first, second) == first \o <<",">> \o second
Lists(items) == {<< >>} \cup items \cup {Join(a, b) : a, b \in items}
Property(value) == <<"string", ":">> \o value
Properties(values) == {Property(v) : v \in values}
Objects(lists) == {<<"{">> \o list \o <<"}">> : list \in lists}
Arrays(lists) == {<<"[">> \o list \o <<"]">> : list \in lists}

String == <<"string">>
Flat == {String} \cup Objects(Lists({Property(<<"null">>)})) \cup Arrays(Lists({String}))
Deep == Flat \cup Objects({Join(p, Property(String)) : p \in Properties(Flat)})
             \cup Arrays({Join(a, b) : a, b \in Flat})
WellFormedTexts ==
  {Ended(object) : object \in Objects(Lists(Properties(Flat))
      \cup {Join(Join(p, q), Property(String)) : p, q \in Properties(Deep)})}

AnyInputs == AnyTexts \cup WellFormedTexts

\* The text of main (parser.c:271).
MainText ==
  LET array == <<"[">> \o Join(Join(Join(String, String), Join(String, String)), String) \o <<"]">>
      object == <<"{">> \o Join(Join(Property(String), Property(<<"number">>)), Property(String))
                  \o <<"}">>
  IN  Ended(<<"{">>
        \o Join(Join(Join(Property(String), Property(<<"number">>)), Property(array)),
                Join(Join(Property(object), Property(<<"null">>)),
                     Join(Property(<<"true">>), Property(<<"false">>))))
        \o <<"}">>)
MainInputs == {MainText}

\* JsonGrammar knows all of these texts for well-formed.
ASSUME GrammarAssumption == \A text \in WellFormedTexts \cup MainInputs : WellFormed(text)

=============================================================================
