----------------------------- MODULE RequestText -----------------------------
(***************************************************************************)
(* server.c: the lines of a request, as strstr, strtok and sscanf(line,    *)
(* "%[^:]:%s", ...) tell them apart:                                       *)
(*   "empty"   nothing before the line feed but, perhaps, a CR             *)
(*   "space"   one blank, tab or other white space before that             *)
(*   "field"   a name, a colon and a word                                  *)
(*   "bare"    a name without a word: no colon, or nothing behind it       *)
(*   "noname"  a colon at the start                                        *)
(* The last line may be CUT short: the rest of it has not arrived.         *)
(***************************************************************************)
EXTENDS Naturals, Sequences

Kinds == {"empty", "space", "field", "bare", "noname"}
Line == [kind : Kinds, ending : {"CRLF", "LF", "CUT"}]

\* The condition of read_cb: strstr finds "\r\n" or "\n\n".
Dispatched(lines) ==
  \E i \in 1 .. Len(lines) :
    \/ lines[i].ending = "CRLF"
    \/ /\ i > 1 /\ lines[i - 1].ending = "LF"
       /\ lines[i].kind = "empty" /\ lines[i].ending = "LF"

\* The texts that read_cb hands to the pool.
IsText(lines) ==
  /\ lines \in Seq(Line) /\ Dispatched(lines)
  /\ \A i \in 1 .. Len(lines) - 1 : lines[i].ending # "CUT"

\* strtok merges line feeds, so it never returns a line without a byte.
HasBytes(line) == ~(line.kind = "empty" /\ line.ending = "LF")

\* strlen 1, and isspace: a CR alone, or other white space without a CR behind it.
IsBlank(line) ==
  \/ line.kind = "empty" /\ line.ending # "LF"
  \/ line.kind = "space" /\ line.ending # "CRLF"

=============================================================================
