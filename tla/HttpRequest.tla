---------------------------- MODULE HttpRequest ----------------------------
(***************************************************************************)
(* server.c: parseHttp on the bytes that had arrived when read_cb          *)
(* dispatched the connection, which is any prefix of the message the peer  *)
(* sent that holds a line end.                                             *)
(* A name, a word or a body is known by the number of the line it is from. *)
(* Lengths of lines are left out.                                          *)
(***************************************************************************)
EXTENDS RequestText, FiniteSets

CONSTANTS
  MaxHeaders,   \* elements of http_headers.keyValues (50)
  MaxLines      \* bound: lines that had arrived

ASSUME HeadersAssumption == MaxHeaders \in Nat \ {0}

VARIABLES
  text,      \* data->text, as lines
  stage,     \* "start", "lines", "done"; "crashed" in sscanf, "overrun" in add_header
  pos,       \* the line strtok returned last, 0 before the first
  inBody,    \* bodyEncountered
  name,      \* the local array header: the line its name is from, or Junk
  value,     \* the local array value, likewise
  headers,   \* request.headers, count of them
  body       \* the local array body: the line it holds, or Junk

vars == <<text, stage, pos, inBody, name, value, headers, body>>

Junk == 0   \* what an uninitialised array holds: no line of the request

Texts == {lines \in UNION {[1 .. n -> Line] : n \in 1 .. MaxLines} : IsText(lines)}

Visible(i) == HasBytes(text[i])
Blank(i) == IsBlank(text[i])

\* strtok(NULL, "\n") returns line i, or returns NULL.
Returned(i) ==
  /\ i \in pos + 1 .. Len(text) /\ Visible(i)
  /\ \A j \in pos + 1 .. i - 1 : ~Visible(j)
Exhausted == \A j \in pos + 1 .. Len(text) : ~Visible(j)

Init ==
  /\ text \in Texts
  /\ stage = "start" /\ pos = 0
  /\ inBody = FALSE
  /\ name = Junk /\ value = Junk /\ body = Junk
  /\ headers = << >>

(* The first strtok; without a line, sscanf reads through NULL. *)
RequestLine ==
  /\ stage = "start"
  /\ \/ \E i \in 1 .. Len(text) : Returned(i) /\ pos' = i /\ stage' = "lines"
     \/ Exhausted /\ stage' = "crashed" /\ UNCHANGED pos
  /\ UNCHANGED <<text, inBody, name, value, headers, body>>

(***************************************************************************)
(* sscanf(line, "%[^:]:%s", header, value) and what it leaves alone.  The  *)
(* arrays are new, uninitialised ones in each pass of the loop: they may   *)
(* hold what the last pass put there, or anything.                         *)
(***************************************************************************)
ScannedName(i) == IF text[i].kind = "noname" THEN {name, Junk} ELSE {i}

FirstValue(i) == IF value # Junk THEN {value} ELSE {i}        \* variant
ScannedValue(i) == IF text[i].kind = "field" THEN {i} ELSE {value, Junk}

Scan(i) == name' \in ScannedName(i) /\ value' \in ScannedValue(i)

(* add_header has no limit: one header too many is written past the array. *)
FitsButOne == Len(headers) + 1 < MaxHeaders                   \* variant
Fits == Len(headers) < MaxHeaders

AddHeader ==
  IF Fits
  THEN headers' = Append(headers, [name |-> name', value |-> value']) /\ UNCHANGED stage
  ELSE stage' = "overrun" /\ UNCHANGED headers

OtherPart == ~inBody                                          \* variant
BodyBegins == TRUE

BlankLine(i) ==
  /\ Blank(i)
  /\ inBody' = BodyBegins
  /\ UNCHANGED <<stage, name, value, headers, body>>

HeaderLine(i) ==
  /\ ~Blank(i) /\ ~inBody
  /\ Scan(i) /\ AddHeader
  /\ UNCHANGED <<inBody, body>>

FirstLine(i) == IF body = Junk THEN i ELSE body               \* variant
CopiedLine(i) == i

BodyLine(i) ==
  /\ ~Blank(i) /\ inBody
  /\ body' = CopiedLine(i)
  /\ UNCHANGED <<stage, inBody, name, value, headers>>

(* One pass of the loop over the lines. *)
NextLine ==
  /\ stage = "lines"
  /\ \E i \in 1 .. Len(text) :
       /\ Returned(i) /\ pos' = i
       /\ BlankLine(i) \/ HeaderLine(i) \/ BodyLine(i)
  /\ UNCHANGED text

Return ==
  /\ stage = "lines" /\ Exhausted
  /\ stage' = "done"
  /\ UNCHANGED <<text, pos, inBody, name, value, headers, body>>

Next == RequestLine \/ NextLine \/ Return

Spec == Init /\ [][Next]_vars

-----------------------------------------------------------------------------
(* Properties *)

\* The variables hold values of their types.
TypeOK ==
  /\ text \in Seq(Line)
  /\ stage \in {"start", "lines", "done", "crashed", "overrun"}
  /\ pos \in 0 .. Len(text)
  /\ inBody \in BOOLEAN
  /\ {name, value, body} \subseteq 0 .. Len(text)
  /\ headers \in Seq([name : 0 .. Len(text), value : 0 .. Len(text)])

\* The parts of the text as a reader of it sees them: the request line is the
\* first line there is, a blank line behind it ends the headers, and whatever
\* follows, blank lines left aside, is body.
BehindRequestLine(i) == Visible(i) /\ \E j \in 1 .. i - 1 : Visible(j)
BehindHeaders(i) == \E j \in 1 .. i - 1 : Blank(j) /\ BehindRequestLine(j)
InHeaderPart(i) == BehindRequestLine(i) /\ ~Blank(i) /\ ~BehindHeaders(i)
InBodyPart(i) == BehindRequestLine(i) /\ ~Blank(i) /\ BehindHeaders(i)

\* No line of the body becomes a header and no header line the body, wherever
\* the dispatch cut the message, and whatever the uninitialised arrays hold.
PartsKept ==
  /\ \A k \in 1 .. Len(headers) :
       {headers[k].name, headers[k].value} \subseteq
         {Junk} \cup {i \in 1 .. Len(text) : InHeaderPart(i)}
  /\ body # Junk => InBodyPart(body)

\* The body that is left in the end is the last line of the body part.
BodyIsLast ==
  stage = "done" => \A i \in 1 .. Len(text) : InBodyPart(i) => i <= body

HeaderLinesTo(p) == {i \in 1 .. p : InHeaderPart(i)}
Place(i) == Cardinality(HeaderLinesTo(i))   \* of a line among the header lines

\* The headers are the lines of the header part, each once and in order, and a
\* header whose line has a word has that word: none keeps the value of another.
HeadersMatch ==
  /\ stage = "done" => Len(headers) = Place(Len(text))
  /\ \A k \in 1 .. Len(headers) : \E i \in HeaderLinesTo(Len(text)) :
       /\ Place(i) = k
       /\ text[i].kind # "noname" => headers[k].name = i
       /\ text[i].kind = "field" => headers[k].value = i

\* add_header writes past the array only for a request with more header lines
\* than the array has elements.
OverrunOnlyWhenFull == stage = "overrun" => Place(Len(text)) > MaxHeaders

=============================================================================
