------------------------- MODULE HttpRequestProofs -------------------------
(***************************************************************************)
(* Proofs that parseHttp keeps the header part and the body part of any    *)
(* text apart, whatever its uninitialised arrays hold.                     *)
(***************************************************************************)
EXTENDS HttpRequest, FiniteSetTheorems, TLAPS

HeaderOrJunk(i) == i = Junk \/ (i \in 1 .. Len(text) /\ InHeaderPart(i))

\* bodyEncountered is set iff a blank line behind the request line was passed.
BlankPassed == \E j \in 1 .. pos : Blank(j) /\ BehindRequestLine(j)

(***************************************************************************)
(* The inductive invariant: what is kept so far is from the right part,    *)
(* and bodyEncountered tells in which part the next line is.               *)
(***************************************************************************)
Inv ==
  /\ TypeOK
  /\ stage = "start" => pos = 0 /\ ~inBody
  /\ stage = "lines" => pos > 0 /\ Visible(pos)
  /\ stage = "done" => Exhausted
  /\ inBody <=> BlankPassed
  /\ HeaderOrJunk(name) /\ HeaderOrJunk(value)
  /\ \A k \in 1 .. Len(headers) :
       HeaderOrJunk(headers[k].name) /\ HeaderOrJunk(headers[k].value)
  /\ body <= pos /\ (body # Junk => InBodyPart(body))
  /\ \A i \in 1 .. pos : InBodyPart(i) => i <= body

-----------------------------------------------------------------------------
\* The text does not change while it is parsed, nor do its parts.
LEMMA PartsSame ==
  ASSUME text' = text
  PROVE  \A i : /\ Visible(i)' <=> Visible(i)
                /\ Blank(i)' <=> Blank(i)
                /\ BehindRequestLine(i)' <=> BehindRequestLine(i)
                /\ InHeaderPart(i)' <=> InHeaderPart(i)
                /\ InBodyPart(i)' <=> InBodyPart(i)
                /\ HeaderOrJunk(i)' <=> HeaderOrJunk(i)
  BY DEF Visible, Blank, BehindRequestLine, BehindHeaders, InHeaderPart, InBodyPart,
         HeaderOrJunk

\* In the loop, the next line strtok returns is behind the request line, and it
\* is behind a blank line iff bodyEncountered is set.
LEMMA NextLinePart ==
  ASSUME Inv, stage = "lines", NEW i \in 1 .. Len(text), Returned(i)
  PROVE  /\ i > pos
         /\ BehindRequestLine(i)
         /\ BehindHeaders(i) <=> inBody
         /\ \A j \in 1 .. i : j \in 1 .. pos \/ j = i \/ ~BehindRequestLine(j)
<1>1. pos \in 1 .. Len(text) /\ Visible(pos) /\ Len(text) \in Nat
  BY DEF Inv, TypeOK
<1>2. i > pos /\ Visible(i) /\ \A j \in pos + 1 .. i - 1 : ~Visible(j)
  BY <1>1 DEF Returned
<1>3. BehindRequestLine(i)
  BY <1>1, <1>2 DEF BehindRequestLine
<1>4. \A j \in 1 .. i : j \in 1 .. pos \/ j = i \/ ~BehindRequestLine(j)
  BY <1>1, <1>2 DEF BehindRequestLine
<1>5. BehindHeaders(i) <=> BlankPassed
  BY <1>1, <1>2, <1>4 DEF BehindHeaders, BlankPassed
<1>6. QED
  BY <1>2, <1>3, <1>4, <1>5 DEF Inv

\* What the three kinds of lines keep in common: the new line is accounted for.
LEMMA LineAccounted ==
  ASSUME Inv, stage = "lines", NEW i \in 1 .. Len(text), Returned(i),
         text' = text, pos' = i, body' \in Nat, body' >= body,
         inBody' <=> inBody \/ Blank(i), InBodyPart(i) => body' = i
  PROVE  /\ inBody' <=> BlankPassed'
         /\ \A j \in 1 .. pos' : InBodyPart(j)' => j <= body'
<1>1. pos \in Nat /\ i \in Nat /\ body \in Nat
  BY DEF Inv, TypeOK
<1>2. /\ i > pos /\ BehindRequestLine(i)
      /\ \A j \in 1 .. i : j \in 1 .. pos \/ j = i \/ ~BehindRequestLine(j)
  BY NextLinePart
<1>3. BlankPassed' <=> BlankPassed \/ Blank(i)
  BY <1>1, <1>2, PartsSame DEF BlankPassed
<1>4. \A j \in 1 .. i : InBodyPart(j) => j <= body'
  <2> SUFFICES ASSUME NEW j \in 1 .. i, InBodyPart(j)
               PROVE  j <= body'
    OBVIOUS
  <2>1. j \in 1 .. pos \/ j = i
    BY <1>2 DEF InBodyPart
  <2>2. CASE j \in 1 .. pos
    BY <1>1, <2>2 DEF Inv
  <2>3. CASE j = i
    BY <2>3
  <2>4. QED
    BY <2>1, <2>2, <2>3
<1>5. QED
  BY <1>3, <1>4, PartsSame DEF Inv

\* A line kept as a header: the pass of the loop outside the body.
LEMMA HeaderStep ==
  ASSUME Inv, stage = "lines", NEW i \in 1 .. Len(text), Returned(i),
         pos' = i, HeaderLine(i), text' = text
  PROVE  Inv'
<1>1. TypeOK /\ Len(text) \in Nat /\ i \in 0 .. Len(text)
  BY DEF Inv, TypeOK
<1>2. ~Blank(i) /\ ~inBody /\ UNCHANGED <<inBody, body>> /\ Scan(i) /\ AddHeader
  BY DEF HeaderLine
<1>3. InHeaderPart(i) /\ ~InBodyPart(i) /\ i > 0 /\ Visible(i)
  BY <1>2, NextLinePart DEF InHeaderPart, InBodyPart, Returned
<1>4. /\ name' \in {name, Junk, i} /\ value' \in {value, Junk, i}
  BY <1>2 DEF Scan, ScannedName, ScannedValue
<1>5. /\ HeaderOrJunk(name') /\ HeaderOrJunk(value')
      /\ name' \in 0 .. Len(text) /\ value' \in 0 .. Len(text)
  BY <1>1, <1>3, <1>4 DEF HeaderOrJunk, Inv, TypeOK, Junk
<1>6. /\ headers' \in Seq([name : 0 .. Len(text), value : 0 .. Len(text)])
      /\ \A k \in 1 .. Len(headers') :
           HeaderOrJunk(headers'[k].name) /\ HeaderOrJunk(headers'[k].value)
  <2>1. CASE headers' = headers
    BY <1>1, <2>1 DEF Inv, TypeOK
  <2>2. CASE headers' = Append(headers, [name |-> name', value |-> value'])
    <3>1. /\ [name |-> name', value |-> value'] \in [name : 0 .. Len(text), value : 0 .. Len(text)]
          /\ headers \in Seq([name : 0 .. Len(text), value : 0 .. Len(text)])
      BY <1>1, <1>5 DEF TypeOK
    <3>2. headers' \in Seq([name : 0 .. Len(text), value : 0 .. Len(text)])
      BY <2>2, <3>1
    <3>3. ASSUME NEW k \in 1 .. Len(headers')
          PROVE  HeaderOrJunk(headers'[k].name) /\ HeaderOrJunk(headers'[k].value)
      <4>1. CASE k \in 1 .. Len(headers)
        <5>1. headers'[k] = headers[k]
          BY <2>2, <3>1, <4>1
        <5>2. QED
          BY <4>1, <5>1 DEF Inv
      <4>2. CASE k = Len(headers) + 1
        <5>1. headers'[k] = [name |-> name', value |-> value']
          BY <2>2, <3>1, <4>2
        <5>2. QED
          BY <1>5, <5>1
      <4>3. QED
        BY <2>2, <3>1, <3>3, <4>1, <4>2
    <3>4. QED
      BY <3>2, <3>3
  <2>3. QED
    BY <1>2, <2>1, <2>2 DEF AddHeader, Fits
<1>7. stage' \in {"lines", "overrun"}
  BY <1>2 DEF AddHeader, Fits
<1>8. TypeOK' /\ body' <= pos' /\ (body' # Junk => InBodyPart(body)')
  <2>1. TypeOK'
    BY <1>1, <1>2, <1>5, <1>6, <1>7 DEF TypeOK
  <2>2. body <= pos /\ pos < i /\ pos \in Nat /\ body \in Nat
    BY <1>1, NextLinePart DEF Inv, TypeOK
  <2>3. QED
    BY <1>1, <1>2, <2>1, <2>2, PartsSame DEF Inv
<1>9. /\ inBody' <=> BlankPassed'
      /\ \A j \in 1 .. pos' : InBodyPart(j)' => j <= body'
  BY <1>1, <1>2, <1>3, LineAccounted DEF TypeOK
<1>10. QED
  BY <1>2, <1>3, <1>5, <1>6, <1>7, <1>8, <1>9, PartsSame DEF Inv

\* A line of the body, or a blank line.
LEMMA OtherLineStep ==
  ASSUME Inv, stage = "lines", NEW i \in 1 .. Len(text), Returned(i),
         pos' = i, BlankLine(i) \/ BodyLine(i), text' = text
  PROVE  Inv'
<1>1. TypeOK /\ Len(text) \in Nat /\ i \in 0 .. Len(text)
  BY DEF Inv, TypeOK
<1>2. /\ UNCHANGED <<stage, name, value, headers>>
      /\ inBody' <=> inBody \/ Blank(i)
      /\ inBody' \in BOOLEAN
  BY <1>1 DEF BlankLine, BodyBegins, BodyLine, CopiedLine, TypeOK
<1>3. body' = body \/ (body' = i /\ InBodyPart(i))
  BY NextLinePart DEF BlankLine, BodyBegins, BodyLine, CopiedLine, InBodyPart
<1>4. InBodyPart(i) => body' = i
  BY DEF BlankLine, BodyBegins, BodyLine, CopiedLine, InBodyPart
<1>5. body <= pos /\ pos < i /\ body \in Nat /\ pos \in Nat
  BY <1>1, NextLinePart DEF Inv, TypeOK
<1>6. TypeOK'
  BY <1>1, <1>2, <1>3 DEF TypeOK
<1>7. /\ inBody' <=> BlankPassed'
      /\ \A j \in 1 .. pos' : InBodyPart(j)' => j <= body'
  BY <1>1, <1>2, <1>3, <1>4, <1>5, LineAccounted
<1>8. i > 0 /\ Visible(i) /\ stage' = "lines"
  BY <1>2 DEF Returned
<1>9. body' <= pos' /\ (body' # Junk => InBodyPart(body)')
  BY <1>1, <1>3, <1>5, PartsSame DEF Inv
<1>10. /\ HeaderOrJunk(name)' /\ HeaderOrJunk(value)'
       /\ \A k \in 1 .. Len(headers') :
            HeaderOrJunk(headers[k].name)' /\ HeaderOrJunk(headers[k].value)'
  BY <1>2, PartsSame DEF Inv
<1>11. QED
  BY <1>6, <1>7, <1>8, <1>9, <1>10, PartsSame DEF Inv

\* Every step of parseHttp keeps the invariant.
LEMMA InvStep == Inv /\ [Next]_vars => Inv'
<1> SUFFICES ASSUME Inv, [Next]_vars
             PROVE  Inv'
  OBVIOUS
<1>1. CASE RequestLine
  <2>1. /\ UNCHANGED <<text, inBody, name, value, headers, body>> /\ stage = "start"
        /\ TypeOK /\ pos = 0 /\ ~inBody
    BY <1>1 DEF RequestLine, Inv
  <2>2. body = Junk
    BY <2>1 DEF Inv, TypeOK, Junk
  <2>3. CASE Exhausted /\ stage' = "crashed" /\ UNCHANGED pos
    <3>1. TypeOK'
      BY <2>1, <2>3 DEF TypeOK
    <3>2. BlankPassed' <=> BlankPassed
      BY <2>1, <2>3, PartsSame DEF BlankPassed
    <3>3. QED
      BY <2>1, <2>3, <3>1, <3>2, PartsSame DEF Inv
  <2>4. ASSUME NEW i \in 1 .. Len(text), Returned(i), pos' = i, stage' = "lines"
        PROVE  Inv'
    <3>1. Len(text) \in Nat /\ Visible(i) /\ \A j \in 1 .. i - 1 : ~Visible(j)
      BY <2>1, <2>4 DEF Returned, TypeOK
    <3>2. \A j \in 1 .. i : ~BehindRequestLine(j)
      BY <3>1 DEF BehindRequestLine
    <3>3. ~BlankPassed' /\ \A j \in 1 .. pos' : ~InBodyPart(j)'
      BY <2>1, <2>4, <3>2, PartsSame DEF BlankPassed, InBodyPart
    <3>4. TypeOK'
      BY <2>1, <2>4, <3>1 DEF TypeOK
    <3>5. QED
      BY <2>1, <2>2, <2>4, <3>1, <3>3, <3>4, PartsSame DEF Inv, Junk
  <2>5. QED
    BY <1>1, <2>3, <2>4 DEF RequestLine
<1>2. CASE NextLine
  BY <1>2, HeaderStep, OtherLineStep DEF NextLine
<1>3. CASE Return
  <2>1. TypeOK'
    BY <1>3 DEF Return, Inv, TypeOK
  <2>2. (BlankPassed' <=> BlankPassed) /\ (Exhausted' <=> Exhausted)
    BY <1>3, PartsSame DEF Return, BlankPassed, Exhausted
  <2>3. QED
    BY <1>3, <2>1, <2>2, PartsSame DEF Return, Inv
<1>4. CASE UNCHANGED vars
  <2>1. TypeOK'
    BY <1>4 DEF vars, Inv, TypeOK
  <2>2. (BlankPassed' <=> BlankPassed) /\ (Exhausted' <=> Exhausted)
    BY <1>4, PartsSame DEF vars, BlankPassed, Exhausted
  <2>3. QED
    BY <1>4, <2>1, <2>2, PartsSame DEF vars, Inv
<1>5. QED
  BY <1>1, <1>2, <1>3, <1>4 DEF Next

\* A text is a sequence of lines.
LEMMA TextType == Texts \subseteq Seq(Line)
  BY DEF Texts

LEMMA InvInit == Init => Inv
<1> SUFFICES ASSUME Init
             PROVE  Inv
  OBVIOUS
<1>1. text \in Seq(Line) /\ Len(text) \in Nat
  BY TextType DEF Init
<1>2. TypeOK
  <2>1. 0 \in 0 .. Len(text)
    BY <1>1
  <2>2. headers \in Seq([name : 0 .. Len(text), value : 0 .. Len(text)])
    BY DEF Init
  <2>3. pos = 0 /\ name = 0 /\ value = 0 /\ body = 0 /\ inBody = FALSE /\ stage = "start"
    BY DEF Init, Junk
  <2>4. QED
    BY <1>1, <2>1, <2>2, <2>3 DEF TypeOK
<1>3. ~BlankPassed
  BY DEF Init, BlankPassed
<1>4. QED
  BY <1>2, <1>3 DEF Init, Inv, HeaderOrJunk, Junk

\* The invariant holds in every reachable state of parseHttp.
THEOREM InvCorrect == Spec => []Inv
  BY InvInit, InvStep, PTL DEF Spec

\* parseHttp keeps the types of its variables on a text of any length.
THEOREM TypeCorrect == Spec => []TypeOK
<1>1. Inv => TypeOK
  BY DEF Inv
<1>2. QED
  BY <1>1, InvCorrect, PTL

\* No line of the body ends up in the headers and no header line in the body,
\* for a text of any length and any number of headers.
THEOREM PartsKeptCorrect == Spec => []PartsKept
<1>1. Inv => PartsKept
  BY DEF Inv, PartsKept, HeaderOrJunk
<1>2. QED
  BY <1>1, InvCorrect, PTL

\* The body that is left is the last line of the body part.
THEOREM BodyIsLastCorrect == Spec => []BodyIsLast
<1>1. Inv => BodyIsLast
  <2> SUFFICES ASSUME Inv, stage = "done", NEW i \in 1 .. Len(text), InBodyPart(i)
               PROVE  i <= body
    BY DEF BodyIsLast
  <2>1. pos \in Nat /\ Len(text) \in Nat
    BY DEF Inv, TypeOK
  <2>2. i \in 1 .. pos
    BY <2>1 DEF Inv, Exhausted, InBodyPart, BehindRequestLine
  <2>3. QED
    BY <2>2 DEF Inv
<1>2. QED
  BY <1>1, InvCorrect, PTL

-----------------------------------------------------------------------------
(* Which header is which line. *)

Match(k, i) ==
  /\ text[i].kind # "noname" => headers[k].name = i
  /\ text[i].kind = "field" => headers[k].value = i

(***************************************************************************)
(* The headers so far are as many as the header lines so far, one for each *)
(* in order, until there is one too many.                                  *)
(***************************************************************************)
CountInv ==
  /\ Inv
  /\ stage = "start" => headers = << >>
  /\ stage \in {"lines", "done"} => Len(headers) = Place(pos)
  /\ stage = "overrun" => Place(pos) > MaxHeaders
  /\ \A k \in 1 .. Len(headers) : \E i \in HeaderLinesTo(pos) : Place(i) = k /\ Match(k, i)

LEMMA LinesFinite ==
  ASSUME NEW p \in Nat
  PROVE  IsFiniteSet(HeaderLinesTo(p)) /\ Place(p) \in Nat
<1>1. IsFiniteSet(1 .. p)
  BY FS_Interval
<1>2. HeaderLinesTo(p) \in SUBSET (1 .. p)
  BY DEF HeaderLinesTo
<1>3. IsFiniteSet(HeaderLinesTo(p))
  BY <1>1, <1>2, FS_Subset
<1>4. QED
  BY <1>3, FS_CardinalityType DEF Place

LEMMA PlacesSame ==
  ASSUME text' = text
  PROVE  \A p : HeaderLinesTo(p)' = HeaderLinesTo(p) /\ Place(p)' = Place(p)
  BY PartsSame DEF HeaderLinesTo, Place

\* A step that keeps the line, the headers and the stage, or ends the loop.
LEMMA SameHeaders ==
  ASSUME CountInv, Inv', UNCHANGED <<text, headers>>, Place(pos') = Place(pos),
         HeaderLinesTo(pos) \subseteq HeaderLinesTo(pos'),
         \/ stage' = stage
         \/ stage = "lines" /\ stage' = "done"
         \/ stage = "start" /\ stage' = "crashed"
  PROVE  CountInv'
<1>1. \A k \in 1 .. Len(headers) : \E i \in HeaderLinesTo(pos') : Place(i)' = k /\ Match(k, i)'
  <2> SUFFICES ASSUME NEW k \in 1 .. Len(headers)
               PROVE  \E i \in HeaderLinesTo(pos') : Place(i)' = k /\ Match(k, i)'
    OBVIOUS
  <2>1. PICK i \in HeaderLinesTo(pos) : Place(i) = k /\ Match(k, i)
    BY DEF CountInv
  <2>2. QED
    BY <2>1, PlacesSame DEF Match
<1>2. QED
  BY <1>1, PlacesSame DEF CountInv

\* Reading line i adds it to the header lines, if it is one.
LEMMA OneMoreLine ==
  ASSUME Inv, stage = "lines", NEW i \in 1 .. Len(text), Returned(i)
  PROVE  /\ HeaderLinesTo(i) = IF InHeaderPart(i) THEN HeaderLinesTo(pos) \cup {i}
                               ELSE HeaderLinesTo(pos)
         /\ Place(i) = IF InHeaderPart(i) THEN Place(pos) + 1 ELSE Place(pos)
<1>1. pos \in Nat /\ Len(text) \in Nat /\ i \in Nat /\ pos < i
  BY NextLinePart DEF Inv, TypeOK
<1>2. \A j \in 1 .. i : j \in 1 .. pos \/ j = i \/ ~InHeaderPart(j)
  BY NextLinePart DEF InHeaderPart
<1>3. HeaderLinesTo(i) = IF InHeaderPart(i) THEN HeaderLinesTo(pos) \cup {i}
                         ELSE HeaderLinesTo(pos)
  BY <1>1, <1>2 DEF HeaderLinesTo
<1>4. IsFiniteSet(HeaderLinesTo(pos)) /\ i \notin HeaderLinesTo(pos)
  BY <1>1, LinesFinite DEF HeaderLinesTo
<1>5. QED
  BY <1>3, <1>4, FS_AddElement DEF Place

LEMMA HeaderCounted ==
  ASSUME CountInv, Inv', stage = "lines", NEW i \in 1 .. Len(text), Returned(i),
         pos' = i, HeaderLine(i), text' = text
  PROVE  CountInv'
<1>1. /\ Inv /\ TypeOK /\ Len(headers) \in Nat /\ Len(headers) = Place(pos)
      /\ Len(text) \in Nat /\ i \in Nat
  BY DEF CountInv, Inv, TypeOK
<1>2. InHeaderPart(i)
  BY <1>1, NextLinePart DEF HeaderLine, InHeaderPart, Returned
<1>3. /\ HeaderLinesTo(pos') = HeaderLinesTo(pos) \cup {i}
      /\ Place(pos') = Len(headers) + 1
  BY <1>1, <1>2, OneMoreLine
<1>4. /\ text[i].kind # "noname" => name' = i
      /\ text[i].kind = "field" => value' = i
  BY DEF HeaderLine, Scan, ScannedName, ScannedValue
<1>5. CASE ~Fits
  <2>1. headers' = headers /\ stage' = "overrun"
    BY <1>5 DEF HeaderLine, AddHeader
  <2>2. Place(pos') > MaxHeaders
    BY <1>1, <1>3, <1>5, HeadersAssumption DEF Fits
  <2>3. ASSUME NEW k \in 1 .. Len(headers)
        PROVE  \E j \in HeaderLinesTo(pos') : Place(j)' = k /\ Match(k, j)'
    <3>1. PICK j \in HeaderLinesTo(pos) : Place(j) = k /\ Match(k, j)
      BY DEF CountInv
    <3>2. QED
      BY <1>3, <2>1, <3>1, PlacesSame DEF Match
  <2>4. QED
    BY <2>1, <2>2, <2>3, PlacesSame DEF CountInv
<1>6. CASE Fits
  <2>1. /\ headers' = Append(headers, [name |-> name', value |-> value'])
        /\ stage' = "lines"
    BY <1>6 DEF HeaderLine, AddHeader
  <2>2. /\ Len(headers') = Len(headers) + 1
        /\ headers'[Len(headers) + 1] = [name |-> name', value |-> value']
        /\ \A k \in 1 .. Len(headers) : headers'[k] = headers[k]
    BY <1>1, <2>1 DEF TypeOK
  <2>3. ASSUME NEW k \in 1 .. Len(headers')
        PROVE  \E j \in HeaderLinesTo(pos') : Place(j)' = k /\ Match(k, j)'
    <3>1. CASE k \in 1 .. Len(headers)
      <4>1. PICK j \in HeaderLinesTo(pos) : Place(j) = k /\ Match(k, j)
        BY <3>1 DEF CountInv
      <4>2. QED
        BY <1>3, <2>2, <3>1, <4>1, PlacesSame DEF Match
    <3>2. CASE k = Len(headers) + 1
      <4>1. Place(i)' = k /\ i \in HeaderLinesTo(pos')
        BY <1>3, <3>2, PlacesSame
      <4>2. headers'[k].name = name' /\ headers'[k].value = value'
        BY <2>2, <3>2
      <4>3. Match(k, i)'
        BY <1>4, <4>2 DEF Match
      <4>4. QED
        BY <4>1, <4>3
    <3>3. QED
      BY <1>1, <2>2, <2>3, <3>1, <3>2
  <2>4. QED
    BY <1>3, <2>1, <2>2, <2>3, PlacesSame DEF CountInv
<1>7. QED
  BY <1>5, <1>6

LEMMA CountStep == CountInv /\ [Next]_vars => CountInv'
<1> SUFFICES ASSUME CountInv, [Next]_vars
             PROVE  CountInv'
  OBVIOUS
<1>1. Inv /\ Inv' /\ pos \in Nat
  BY InvStep DEF CountInv, Inv, TypeOK
<1>2. CASE RequestLine
  <2>1. /\ UNCHANGED <<text, headers>> /\ stage = "start" /\ headers = << >>
        /\ pos = 0 /\ TypeOK
    BY <1>2 DEF RequestLine, CountInv, Inv
  <2>2. HeaderLinesTo(0) = {} /\ Place(0) = 0
    BY FS_EmptySet DEF HeaderLinesTo, Place
  <2>3. CASE stage' = "crashed" /\ UNCHANGED pos
    BY <1>1, <2>1, <2>3, SameHeaders
  <2>4. ASSUME NEW i \in 1 .. Len(text), Returned(i), pos' = i, stage' = "lines"
        PROVE  CountInv'
    <3>1. \A j \in 1 .. i : ~BehindRequestLine(j)
      BY <2>1, <2>4 DEF Returned, BehindRequestLine, TypeOK
    <3>2. HeaderLinesTo(pos') = {}
      BY <2>4, <3>1 DEF HeaderLinesTo, InHeaderPart
    <3>3. Place(pos') = 0
      BY <3>2, FS_EmptySet DEF Place
    <3>4. Len(headers') = 0
      BY <2>1
    <3>5. QED
      BY <1>1, <2>4, <3>3, <3>4, PlacesSame, <2>1 DEF CountInv
  <2>5. QED
    BY <1>2, <2>3, <2>4 DEF RequestLine
<1>3. CASE NextLine
  <2>1. PICK i \in 1 .. Len(text) :
          /\ Returned(i) /\ pos' = i
          /\ BlankLine(i) \/ HeaderLine(i) \/ BodyLine(i)
    BY <1>3 DEF NextLine
  <2>2. stage = "lines" /\ text' = text
    BY <1>3 DEF NextLine
  <2>3. CASE HeaderLine(i)
    BY <1>1, <2>1, <2>2, <2>3, HeaderCounted
  <2>4. CASE BlankLine(i) \/ BodyLine(i)
    <3>1. UNCHANGED <<stage, headers>>
      BY <2>4 DEF BlankLine, BodyLine
    <3>2. ~InHeaderPart(i)
      BY <1>1, <2>1, <2>2, <2>4, NextLinePart DEF BlankLine, BodyLine, InHeaderPart
    <3>3. HeaderLinesTo(pos') = HeaderLinesTo(pos) /\ Place(pos') = Place(pos)
      BY <1>1, <2>1, <2>2, <3>2, OneMoreLine
    <3>4. QED
      BY <1>1, <2>2, <3>1, <3>3, SameHeaders
  <2>5. QED
    BY <2>1, <2>3, <2>4
<1>4. CASE Return
  BY <1>1, <1>4, SameHeaders DEF Return
<1>5. CASE UNCHANGED vars
  BY <1>1, <1>5, SameHeaders DEF vars
<1>6. QED
  BY <1>2, <1>3, <1>4, <1>5 DEF Next

\* The count is right in every reachable state.
THEOREM CountCorrect == Spec => []CountInv
<1>1. Init => CountInv
  BY InvInit DEF Init, CountInv
<1>2. QED
  BY <1>1, CountStep, PTL DEF Spec

\* Up to the line that is read there are no more header lines than in the text, and as
\* many when there is nothing left to read.
LEMMA PlaceInText ==
  ASSUME Inv
  PROVE  /\ HeaderLinesTo(pos) \subseteq HeaderLinesTo(Len(text))
         /\ Place(pos) <= Place(Len(text))
         /\ stage = "done" => Place(pos) = Place(Len(text))
<1>1. pos \in 0 .. Len(text) /\ Len(text) \in Nat
  BY DEF Inv, TypeOK
<1>2. HeaderLinesTo(pos) \subseteq HeaderLinesTo(Len(text))
  BY <1>1 DEF HeaderLinesTo
<1>3. Place(pos) <= Place(Len(text))
  BY <1>1, <1>2, LinesFinite, FS_Subset DEF Place
<1>4. ASSUME stage = "done"
      PROVE  Place(pos) = Place(Len(text))
  <2>1. Exhausted
    BY <1>4 DEF Inv
  <2>2. HeaderLinesTo(pos) = HeaderLinesTo(Len(text))
    BY <1>1, <2>1 DEF HeaderLinesTo, InHeaderPart, BehindRequestLine, Exhausted
  <2>3. QED
    BY <2>2 DEF Place
<1>5. QED
  BY <1>2, <1>3, <1>4

\* Each header is the header line at its place, with the word of that line, for a text
\* of any length, whatever the uninitialised arrays hold.
THEOREM HeadersMatchCorrect == Spec => []HeadersMatch
<1>1. CountInv => HeadersMatch
  BY PlaceInText DEF CountInv, HeadersMatch, Match
<1>2. QED
  BY <1>1, CountCorrect, PTL

\* The array is overrun only by a text with more header lines than it has elements.
THEOREM OverrunCorrect == Spec => []OverrunOnlyWhenFull
<1>1. CountInv => OverrunOnlyWhenFull
  <2> SUFFICES ASSUME CountInv, stage = "overrun"
               PROVE  Place(Len(text)) > MaxHeaders
    BY DEF OverrunOnlyWhenFull
  <2>1. Inv /\ pos \in Nat /\ Len(text) \in Nat /\ Place(pos) > MaxHeaders
    BY DEF CountInv, Inv, TypeOK
  <2>2. QED
    BY <2>1, PlaceInText, LinesFinite, HeadersAssumption
<1>2. QED
  BY <1>1, CountCorrect, PTL

=============================================================================
