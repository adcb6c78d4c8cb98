------------------------------- MODULE Server -------------------------------
(***************************************************************************)
(* server.c: the libuv event loop, its per-connection callbacks and the    *)
(* thread pool that runs process_command.  One action is one callback.     *)
(* The loop thread runs callbacks one at a time; process_command runs on a *)
(* pool thread, so it is two actions and every callback of the loop may    *)
(* happen between them.                                                    *)
(*                                                                         *)
(* A connection slot c stands for one struct client_request_data and what  *)
(* it points to.  Bytes are classed by what strstr, strtok and the end of  *)
(* a C string tell apart: CR, LF, NUL and x, any other.  Failing malloc,   *)
(* calloc, realloc and strdup are left out.                                *)
(***************************************************************************)
EXTENDS Naturals, Sequences, FiniteSets

CONSTANTS
  Conns,         \* connection slots
  PoolSize,      \* threads of the libuv pool (4 unless UV_THREADPOOL_SIZE)
  Chunks,        \* what one successful read may deliver: sequences of bytes
  MaxText,       \* bound: bytes received on one connection
  MaxHeaders,    \* elements of http_headers.keyValues (50)
  ReadStatuses   \* the negative nread values libuv may report, by name

ASSUME PoolAssumption == PoolSize \in Nat \ {0}
ASSUME ChunkAssumption == Chunks \subseteq Seq({"CR", "LF", "NUL", "x"})

VARIABLES
  process,   \* "starting", "running", "exited", or the function it crashed in
  heap,      \* heap[c]: the allocations of c that are live
  closing,   \* closing[c]: handles of c passed to uv_close, callback to come
  text,      \* text[c]: the bytes at data->text, text_len of them
  reading,   \* connections between uv_read_start and the end of reading
  armed,     \* connections whose timer is started
  started,   \* connections with data->work_started set
  work,      \* work[c]: where the uv_queue_work request of c is
  writing    \* connections whose on_write_end is to come

vars == <<process, heap, closing, text, reading, armed, started, work, writing>>

Byte == {"CR", "LF", "NUL", "x"}
Handles == {"client", "timer"}
Allocations == Handles \cup {"data", "text", "work_req", "response", "write_req"}
WorkStages == {"none", "queued", "running", "done"}
CrashSites == {"read_cb", "parseHttp", "add_header"}
Running == process = "running"

\* strstr(text, "\r\n") || strstr(text, "\n\n"), both blind behind a NUL.
Terminated(bytes) ==
  \E i \in 1 .. Len(bytes) - 1 :
    /\ bytes[i] \in {"CR", "LF"} /\ bytes[i + 1] = "LF"
    /\ \A j \in 1 .. i : bytes[j] # "NUL"

\* Where the lines begin that strtok(copy, "\n") returns of the C string.
LineStarts(bytes) ==
  {i \in 1 .. Len(bytes) :
     /\ bytes[i] # "LF" /\ (i = 1 \/ bytes[i - 1] = "LF")
     /\ \A j \in 1 .. i : bytes[j] # "NUL"}

\* The C string is not line feeds alone.
HasRequestLine(bytes) == LineStarts(bytes) # {}

\* The lines behind the request line, up to a line that is only a CR.
HeaderLines(bytes) ==
  LET starts == LineStarts(bytes)
      behind == {i \in starts : \E j \in starts : j < i}
      Blank(i) == bytes[i] = "CR" /\ (i = Len(bytes) \/ bytes[i + 1] \in {"LF", "NUL"})
  IN  {i \in behind : \A j \in behind : j <= i => ~Blank(j)}

\* More lines than the array has elements, unless a line of one x is white space.
MayOverrun(bytes) == Cardinality(HeaderLines(bytes)) > MaxHeaders

Init ==
  /\ process = "starting"
  /\ heap    = [c \in Conns |-> {}]
  /\ closing = [c \in Conns |-> {}]
  /\ text    = [c \in Conns |-> << >>]
  /\ reading = {}
  /\ armed   = {}
  /\ started = {}
  /\ work    = [c \in Conns |-> "none"]
  /\ writing = {}

-----------------------------------------------------------------------------
(* main: bind, listen, then the loop; a failing uv_listen ends the program. *)
Main ==
  /\ process = "starting"
  /\ process' \in {"running", "exited"}
  /\ UNCHANGED <<heap, closing, text, reading, armed, started, work, writing>>

(***************************************************************************)
(* close_data on a connection that owns `owned`: uv_close on each handle   *)
(* it has, free on everything else.  uv_close also ends reading and stops  *)
(* the timer; the memory of a handle stays until its close callback.       *)
(***************************************************************************)
ClosedEverything(owned) == owned                            \* variant
Closed(owned) == owned \cap Handles

FreedButResponse(owned) == owned \ (Handles \cup {"response"})   \* variant
FreedWithHandles(owned) == owned                            \* variant
Freed(owned) == owned \ Handles

CloseData(c, owned) ==
  /\ heap'    = [heap EXCEPT ![c] = owned \ Freed(owned)]
  /\ closing' = [closing EXCEPT ![c] = Closed(owned)]
  /\ text'    = [text EXCEPT ![c] = << >>]
  /\ reading' = reading \ {c}
  /\ armed'   = armed \ {c}
  /\ started' = started \ {c}

(* on_close_free: the close callback of either handle. *)
OnCloseFree(c, handle) ==
  /\ Running
  /\ handle \in closing[c]
  /\ closing' = [closing EXCEPT ![c] = @ \ {handle}]
  /\ heap'    = [heap EXCEPT ![c] = @ \ {handle}]
  /\ UNCHANGED <<process, text, reading, armed, started, work, writing>>

-----------------------------------------------------------------------------
(***************************************************************************)
(* connection_cb.  A refused accept closes the connection at once, before  *)
(* there is a timer.  The result of uv_read_start is ignored, so a         *)
(* connection may wait without reading.  A status of -1 returns before any *)
(* state is touched: it is a stuttering step and has no action.            *)
(***************************************************************************)
TimerIfReading(c) == armed' = armed \cup (reading' \ reading)   \* variant
TimerStart(c) == armed' = armed \cup {c}

StartReceiving(c) ==
  /\ heap'    = [heap EXCEPT ![c] = {"data", "client", "timer"}]
  /\ reading' \in {reading, reading \cup {c}}
  /\ TimerStart(c)

ConnectionCb(c) ==
  /\ Running
  /\ heap[c] = {}
  /\ \/ StartReceiving(c) /\ UNCHANGED <<closing, text, started>>
     \/ CloseData(c, {"data", "client"})
  /\ UNCHANGED <<process, work, writing>>

(***************************************************************************)
(* read_cb with nread >= 0: append the chunk; the first time the whole     *)
(* text holds a line end, stop reading and queue the work.                 *)
(***************************************************************************)
LineEndInChunk(c, chunk) == Terminated(chunk)               \* variant
LineFeedSeen(c, chunk) == \E i \in 1 .. Len(chunk) : chunk[i] = "LF"   \* variant
LineEndSeen(c, chunk) == Terminated(text[c] \o chunk)

ReadingOn(c) == UNCHANGED reading                           \* variant
ReadStop(c) == reading' = reading \ {c}

NotQueued(c) == UNCHANGED work                              \* variant
QueueWork(c) == work' = [work EXCEPT ![c] = "queued"]

StartWork(c) == started' = started \cup {c} /\ ReadStop(c) /\ QueueWork(c)

ReadData(c, chunk) ==
  /\ Len(text[c]) + Len(chunk) <= MaxText
  /\ text' = [text EXCEPT ![c] = @ \o chunk]
  /\ \/ /\ c \notin started /\ LineEndSeen(c, chunk)
        /\ heap' = [heap EXCEPT ![c] = @ \cup {"text", "work_req"}]
        /\ StartWork(c)
     \/ /\ c \in started \/ ~LineEndSeen(c, chunk)
        /\ heap' = [heap EXCEPT ![c] = @ \cup {"text"}]
        /\ UNCHANGED <<reading, started, work>>

\* The statuses read_cb takes for the end of the stream; on the Windows build
\* no error of libuv is -1.
StreamEnd == {"-1", "UV_EOF"}

(***************************************************************************)
(* read_cb.  A negative nread that is not in StreamEnd takes the data      *)
(* branch: malloc(nread + 1) or realloc, then memcpy of (size_t)nread      *)
(* bytes, which no build survives.                                         *)
(***************************************************************************)
ReadCb(c) ==
  /\ Running
  /\ c \in reading
  /\ \/ /\ ReadStatuses \cap StreamEnd # {}
        /\ CloseData(c, heap[c])
        /\ UNCHANGED <<process, work, writing>>
     \/ /\ \E chunk \in Chunks : ReadData(c, chunk)
        /\ UNCHANGED <<process, closing, armed, writing>>
     \/ /\ ReadStatuses \ StreamEnd # {}
        /\ process' = "read_cb"
        /\ UNCHANGED <<heap, closing, text, reading, armed, started, work, writing>>

(* client_timeout_cb: one shot; a dispatched request is left alone. *)
Unguarded(c) == FALSE                                       \* variant
WorkStarted(c) == c \in started

ClientTimeoutCb(c) ==
  /\ Running
  /\ c \in armed
  /\ IF WorkStarted(c)
     THEN /\ armed' = armed \ {c}
          /\ UNCHANGED <<heap, closing, text, reading, started>>
     ELSE CloseData(c, heap[c])
  /\ UNCHANGED <<process, work, writing>>

-----------------------------------------------------------------------------
(* The pool takes up a queued request when one of its threads is free. *)
ProcessStart(c) ==
  /\ Running
  /\ work[c] = "queued"
  /\ Cardinality({d \in Conns : work[d] = "running"}) < PoolSize
  /\ work' = [work EXCEPT ![c] = "running"]
  /\ UNCHANGED <<process, heap, closing, text, reading, armed, started, writing>>

(***************************************************************************)
(* process_command: parseHttp, then the response.  With no line in the     *)
(* text, strtok returns NULL and sscanf reads through it.  With too many   *)
(* header lines add_header writes past its array: the process goes down,   *)
(* or gets away with it.                                                   *)
(***************************************************************************)
ProcessCommand(c) ==
  /\ Running
  /\ work[c] = "running"
  /\ \/ /\ HasRequestLine(text[c])
        /\ heap' = [heap EXCEPT ![c] = @ \cup {"response"}]
        /\ work' = [work EXCEPT ![c] = "done"]
        /\ UNCHANGED process
     \/ /\ ~HasRequestLine(text[c])
        /\ process' = "parseHttp"
        /\ UNCHANGED <<heap, work>>
     \/ /\ MayOverrun(text[c])
        /\ process' = "add_header"
        /\ UNCHANGED <<heap, work>>
  /\ UNCHANGED <<closing, text, reading, armed, started, writing>>

(***************************************************************************)
(* after_process_command: the timer is stopped and the response handed to  *)
(* uv_write, whose result is ignored: if it reports an error, on_write_end *)
(* is never called.                                                        *)
(***************************************************************************)
AfterProcessCommand(c) ==
  /\ Running
  /\ work[c] = "done"
  /\ heap'    = [heap EXCEPT ![c] = @ \cup {"write_req"}]
  /\ armed'   = armed \ {c}
  /\ work'    = [work EXCEPT ![c] = "none"]
  /\ writing' \in {writing, writing \cup {c}}
  /\ UNCHANGED <<process, closing, text, reading, started>>

(* on_write_end: whatever the status, the connection is over. *)
OnWriteEnd(c) ==
  /\ Running
  /\ c \in writing
  /\ writing' = writing \ {c}
  /\ CloseData(c, heap[c])
  /\ UNCHANGED <<process, work>>

Next ==
  \/ Main
  \/ \E c \in Conns :
       \/ ConnectionCb(c)
       \/ ReadCb(c)
       \/ ClientTimeoutCb(c)
       \/ ProcessStart(c)
       \/ ProcessCommand(c)
       \/ AfterProcessCommand(c)
       \/ OnWriteEnd(c)
       \/ \E handle \in Handles : OnCloseFree(c, handle)

Spec == Init /\ [][Next]_vars

(***************************************************************************)
(* What the scheduling justifies: an armed timer fires; the FIFO of the    *)
(* pool starves no request (strong fairness: other requests may take the   *)
(* free thread first), process_command loops over a finite text; libuv     *)
(* calls the completion of accepted work, of an accepted write and of a    *)
(* close.  Nothing is assumed of the peer: it may stay silent for ever.    *)
(***************************************************************************)
Fairness ==
  \A c \in Conns :
    /\ WF_vars(ClientTimeoutCb(c))
    /\ SF_vars(ProcessStart(c))
    /\ WF_vars(ProcessCommand(c))
    /\ WF_vars(AfterProcessCommand(c))
    /\ WF_vars(OnWriteEnd(c))
    /\ \A handle \in Handles : WF_vars(OnCloseFree(c, handle))

FairSpec == Spec /\ Fairness

-----------------------------------------------------------------------------
(* Properties *)

\* The variables hold values of their types; only handles are ever closed.
TypeOK ==
  /\ process \in {"starting", "running", "exited"} \cup CrashSites
  /\ heap \in [Conns -> SUBSET Allocations]
  /\ closing \in [Conns -> SUBSET Handles]
  /\ text \in [Conns -> Seq(Byte)]
  /\ reading \subseteq Conns
  /\ armed \subseteq Conns
  /\ started \subseteq Conns
  /\ work \in [Conns -> WorkStages]
  /\ writing \subseteq Conns

\* c owns these allocations and none of its handles is closing.
Owns(c, objects) == objects \subseteq heap[c] /\ closing[c] = {}

\* Whatever event may still call back into a connection, what that callback
\* dereferences is allocated and open: no callback, and no pool thread, ever
\* meets a connection that a timeout, an end of stream or a finished write has
\* already torn down.
PendingLive ==
  \A c \in Conns :
    /\ c \in reading \cup armed => Owns(c, {"data", "client", "timer"})
    /\ work[c] # "none" => Owns(c, {"data", "client", "timer", "text", "work_req"})
    /\ work[c] = "done" => "response" \in heap[c]
    /\ c \in writing => Owns(c, {"data", "client", "timer", "response", "write_req"})
    /\ closing[c] \subseteq heap[c]

\* Once close_data has run, all that is left of a connection is handles whose
\* close callback will free them.
NoLeak ==
  \A c \in Conns : "data" \notin heap[c] => heap[c] = closing[c]

\* A connection whose request is not dispatched has its 10 s timer started,
\* whether or not reading could begin: no peer can hold a connection for ever.
Deadline ==
  \A c \in Conns : "data" \in heap[c] /\ c \notin started => c \in armed

\* Work is started for exactly the connections whose accumulated text holds a
\* line end, however the bytes were split over reads: none is dispatched early,
\* and none that could be dispatched is left waiting for more bytes.
DispatchedIffTerminated ==
  \A c \in Conns : c \in started <=> Terminated(text[c])

\* From the dispatch of a request until its connection is torn down, nothing
\* writes to data->text: the pool thread parses it while the loop goes on.
TextFrozen ==
  [][\A c \in Conns : c \in started /\ c \in started' => text'[c] = text[c]]_vars

\* The phase of a connection, as its peer sees it.
Phase(c) ==
  CASE heap[c] = {} -> "free"
    [] heap[c] # {} /\ "data" \notin heap[c] -> "closing"
    [] "data" \in heap[c] /\ c \notin started -> "receiving"
    [] "data" \in heap[c] /\ c \in started /\ "write_req" \notin heap[c] -> "processing"
    [] "data" \in heap[c] /\ c \in started /\ "write_req" \in heap[c] -> "responding"

\* The callbacks implement the life cycle of module Connection: a request that
\* was dispatched is never abandoned, the connection is closed only after the
\* write of its response has ended, and a slot is free only when nothing of it
\* is left.
phase == [c \in Conns |-> Phase(c)]
Lifecycle == INSTANCE Connection WITH Conns <- Conns, phase <- phase
ImplementsLifecycle == Lifecycle!Spec

\* uv_write reported an error for c: no callback of c is to come.
WriteRefused(c) == "write_req" \in heap[c] /\ c \notin writing

\* Everything allocated for a connection is freed in the end, unless the
\* process ends or uv_write refused the response.
Released ==
  \A c \in Conns :
    heap[c] # {} ~> heap[c] = {} \/ ~Running \/ WriteRefused(c)

\* Every dispatched request gets its response handed to uv_write, however the
\* requests of other connections compete for the pool, unless the process ends.
Answered ==
  \A c \in Conns : c \in started ~> "write_req" \in heap[c] \/ ~Running

\* close_data is the "callback fo freeing up all resources allocated for
\* request" (server.c:124): while a connection is allocated, some event is to
\* come that leads to its close_data.
NoOrphan ==
  \A c \in Conns :
    "data" \in heap[c] => c \in armed \/ work[c] # "none" \/ c \in writing

\* Every code of uv_errno_t is a possible nread; read_cb means to end the
\* connection on any of them, so reading never takes the process down.
ReadErrorsHandled == process # "read_cb"

=============================================================================
