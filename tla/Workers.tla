------------------------------- MODULE Workers -------------------------------
(***************************************************************************)
(* server.c: process_command in the threads of the pool, while the loop    *)
(* goes on (module Server).  parseHttp cuts its copy of the text with      *)
(* strtok, whose place in the text is kept by the C runtime, not by the    *)
(* caller: per thread in the runtime of Windows, for which the Makefile    *)
(* builds.  One action is strdup, or one call of strtok, or the end.       *)
(* What parseHttp does with a line is module HttpRequest.                  *)
(***************************************************************************)
EXTENDS RequestText, FiniteSets, SequencesExt

CONSTANTS
  Conns, Chunks, MaxText, MaxHeaders, ReadStatuses,   \* as in Server
  Threads                                             \* of the pool

VARIABLES
  process, heap, closing, text, reading, armed, started, work, writing,  \* Server's
  thread,   \* thread[c]: the thread that process_command of c runs in
  copy,     \* copy[c]: the bytes strdup copied, as strtok leaves them
  line,     \* line[c]: "none", "copied", "some", or "NULL"
  given,    \* given[c]: the lines strtok returned to c, as first and last byte
  token     \* token[s]: the text, and the byte in it, where strtok goes on

loopVars == <<process, heap, closing, text, reading, armed, started, work, writing>>
poolVars == <<thread, copy, line, given, token>>
vars == <<loopVars, poolVars>>

None == "none"   \* no thread, no text
ASSUME ThreadsAssumption == IsFiniteSet(Threads) /\ Threads # {} /\ None \notin Threads
ASSUME ChunksAssumption == Chunks \subseteq Seq({"CR", "LF", "NUL", "x"})

Loop == INSTANCE Server WITH PoolSize <- Cardinality(Threads)

Init ==
  /\ Loop!Init
  /\ thread = [c \in Conns |-> None]
  /\ copy = [c \in Conns |-> << >>]
  /\ line = [c \in Conns |-> "none"]
  /\ given = [c \in Conns |-> << >>]
  /\ token = [t \in Threads |-> [of |-> None, at |-> 1]]

\* A C string ends at its first NUL.
CString(bytes) ==
  LET nul == SelectInSeq(bytes, LAMBDA b : b = "NUL")
  IN  IF nul = 0 THEN bytes ELSE SubSeq(bytes, 1, nul - 1)

-----------------------------------------------------------------------------
(* The callbacks of the loop, none of which touches what the pool works on. *)
Callback(c, step) == step /\ UNCHANGED poolVars

Connected(c) == Callback(c, Loop!ConnectionCb(c))
Read(c) == Callback(c, Loop!ReadCb(c))
TimedOut(c) == Callback(c, Loop!ClientTimeoutCb(c))
Processed(c) == Callback(c, Loop!AfterProcessCommand(c))
Written(c) == Callback(c, Loop!OnWriteEnd(c))
HandleClosed(c, handle) == Callback(c, Loop!OnCloseFree(c, handle))

Main == Loop!Main /\ UNCHANGED poolVars

(* A free thread takes up a queued request. *)
TakeUp(c) ==
  /\ Loop!ProcessStart(c)
  /\ \E t \in Threads :
       /\ \A d \in Conns : thread[d] # t
       /\ thread' = [thread EXCEPT ![c] = t]
  /\ line' = [line EXCEPT ![c] = "none"]
  /\ UNCHANGED <<copy, given, token>>

InThread(c, stage) == process = "running" /\ thread[c] # None /\ line[c] = stage

Duplicate(c) ==
  /\ InThread(c, "none")
  /\ copy' = [copy EXCEPT ![c] = CString(text[c])]
  /\ line' = [line EXCEPT ![c] = "copied"]
  /\ UNCHANGED <<loopVars, thread, given, token>>

(***************************************************************************)
(* strtok(_, "\n"), going on at a place: it passes over line feeds, and    *)
(* returns what is before the next, in whose stead it writes a NUL.        *)
(***************************************************************************)
OneSlot(t) == CHOOSE u \in Threads : TRUE                     \* variant
Slot(t) == t

IsToken(bytes, at, first, last) ==
  /\ \A i \in at .. first - 1 : bytes[i] = "LF"
  /\ \A i \in first .. last : bytes[i] \notin {"LF", "NUL"}
  /\ last < Len(bytes) => bytes[last + 1] \in {"LF", "NUL"}

Cut(bytes, last) ==
  IF last < Len(bytes) THEN [bytes EXCEPT ![last + 1] = "NUL"] ELSE bytes

Behind(bytes, last) == IF last < Len(bytes) THEN last + 2 ELSE last + 1

Strtok(c, place) ==
  LET bytes == copy[place.of]
      tokens == {e \in (place.at .. Len(bytes)) \X (place.at .. Len(bytes)) :
                   e[1] <= e[2] /\ IsToken(bytes, place.at, e[1], e[2])}
      ThenAt(at) == token' = [token EXCEPT ![Slot(thread[c])] = [of |-> place.of, at |-> at]]
  IN  \/ /\ tokens = {}
         /\ line' = [line EXCEPT ![c] = "NULL"]
         /\ ThenAt(Len(bytes) + 1)
         /\ UNCHANGED <<copy, given>>
      \/ \E e \in tokens :
           /\ copy' = [copy EXCEPT ![place.of] = Cut(bytes, e[2])]
           /\ line' = [line EXCEPT ![c] = "some"]
           /\ given' = [given EXCEPT ![c] = Append(@, e)]
           /\ ThenAt(Behind(bytes, e[2]))

FirstLine(c) ==
  /\ InThread(c, "copied")
  /\ Strtok(c, [of |-> c, at |-> 1])
  /\ UNCHANGED <<loopVars, thread>>

NextLine(c) ==
  /\ InThread(c, "some")
  /\ Strtok(c, token[Slot(thread[c])])
  /\ UNCHANGED <<loopVars, thread>>

(* No more lines: the copy is freed and the thread has the response; or there
   was none at all, and process_command crashes. *)
UntilLines(c) == line[c] = "NULL" /\ given[c] # << >>         \* variant
NoMoreLines(c) == line[c] = "NULL"

Finish(c) ==
  /\ NoMoreLines(c)
  /\ Loop!ProcessCommand(c)
  /\ copy' = [copy EXCEPT ![c] = << >>]
  /\ thread' = [thread EXCEPT ![c] = None]
  /\ given' = [given EXCEPT ![c] = << >>]
  /\ UNCHANGED <<line, token>>

(* Behind the request line a header line too many: add_header may end it all here. *)
Overrun(c) ==
  /\ InThread(c, "some") /\ Len(given[c]) > 1 + MaxHeaders
  /\ process' = "add_header" /\ Loop!ProcessCommand(c)
  /\ UNCHANGED poolVars

InPool(c) == Duplicate(c) \/ FirstLine(c) \/ NextLine(c) \/ Overrun(c) \/ Finish(c)

Next ==
  \/ Main
  \/ \E c \in Conns :
       \/ Connected(c) \/ Read(c) \/ TimedOut(c) \/ Processed(c) \/ Written(c)
       \/ \E handle \in Loop!Handles : HandleClosed(c, handle)
       \/ TakeUp(c) \/ InPool(c)

Spec == Init /\ [][Next]_vars

(* As in Server, but for a thread it is enough that it is not stopped for ever. *)
Fairness ==
  \A c \in Conns :
    /\ WF_vars(TimedOut(c)) /\ WF_vars(Processed(c)) /\ WF_vars(Written(c))
    /\ \A handle \in Loop!Handles : WF_vars(HandleClosed(c, handle))
    /\ SF_vars(TakeUp(c)) /\ WF_vars(InPool(c))

FairSpec == Spec /\ Fairness

-----------------------------------------------------------------------------
(* Properties *)

\* The element of a set of numbers that is the k-th of them in their order.
Nth(S, k) == CHOOSE e \in S : Cardinality({i \in S : i <= e}) = k

\* The lines of a text, each as its first and its last byte: a line ends with its
\* line feed, the last one without it if the text is cut there.
Ends(bytes) == {i \in 1 .. Len(bytes) : bytes[i] = "LF" \/ i = Len(bytes)}
Spans(bytes) ==
  [k \in 1 .. Cardinality(Ends(bytes)) |->
     <<IF k = 1 THEN 1 ELSE Nth(Ends(bytes), k - 1) + 1, Nth(Ends(bytes), k)>>]

\* A span as a line of RequestText; x stands for any other byte, so which of the kinds
\* that have one such a line is of is left open: "field" is as good as any.
AsLine(bytes, e) ==
  LET cut == bytes[e[2]] # "LF"
      last == IF cut THEN e[2] ELSE e[2] - 1
      cr == last >= e[1] /\ bytes[last] = "CR"
      rest == SubSeq(bytes, e[1], IF cr THEN last - 1 ELSE last)
  IN  [kind |-> IF rest = << >> THEN "empty" ELSE IF Contains(rest, "x") THEN "field" ELSE "bare",
       ending |-> IF cut THEN "CUT" ELSE IF cr THEN "CRLF" ELSE "LF"]

TextOf(c) == CString(text[c])
LinesOf(c) == LET spans == Spans(TextOf(c))
              IN  [k \in 1 .. Len(spans) |-> AsLine(TextOf(c), spans[k])]

\* What is parsed in the pool is always a text of module HttpRequest: it was not
\* dispatched too early, whichever reads it came in, and it is not cut inside.
KnownText == \A c \in Conns : thread[c] # None => IsText(LinesOf(c))

\* What strtok has to return of a text: the lines that have a byte, without line feeds.
Due(bytes) ==
  LET spans == Spans(bytes)
      visible == {spans[k] : k \in {i \in 1 .. Len(spans) : HasBytes(AsLine(bytes, spans[i]))}}
  IN  {<<e[1], IF bytes[e[2]] = "LF" THEN e[2] - 1 ELSE e[2]>> : e \in visible}

\* Each thread gets the lines of its own connection that have a byte, in order, each
\* once, and all of them, however the calls of strtok in other threads fall between.
OwnLines ==
  \A c \in Conns : thread[c] # None =>
    LET due == Due(TextOf(c))
        got == {given[c][k] : k \in 1 .. Len(given[c])}
    IN  /\ got \subseteq due
        /\ \A j, k \in 1 .. Len(given[c]) : j < k => given[c][j][2] < given[c][k][1]
        /\ \A e \in due : line[c] = "NULL" \/ (\E g \in got : e[1] < g[1]) => e \in got

\* Strtok goes on in the copy of the connection its thread works for, and in no other
\* that another thread is cutting up or has freed.
OwnPlace == \A c \in Conns : line[c] = "some" => token[Slot(thread[c])].of = c

\* Seen from the loop, a thread that takes many steps is the one step that Server
\* makes of it, and it is done in the end.
ImplementsServer == Loop!FairSpec

\* Everything allocated for a connection is freed in the end, unless the process ends
\* or uv_write refused the response.
Released == Loop!Released

\* Every dispatched request gets its response handed to uv_write, however many compete
\* for the threads, and however the threads take turns, unless the process ends.
Answered == Loop!Answered

=============================================================================
