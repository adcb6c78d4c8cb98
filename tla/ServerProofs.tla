---------------------------- MODULE ServerProofs ----------------------------
(***************************************************************************)
(* Proofs that the properties of module Server hold for any connections,   *)
(* any pool size, any bound on the text and any chunks and statuses that   *)
(* reads may deliver.                                                      *)
(***************************************************************************)
EXTENDS Server, TLAPS

(***************************************************************************)
(* The inductive invariant, for one connection.  PendingLive alone is not  *)
(* inductive: that a close_data frees nothing an event still needs follows *)
(* from which events can be pending together, so the invariant ties each   *)
(* set of pending events to the stage the connection has reached.          *)
(***************************************************************************)
ConnInv(c) ==
  /\ TornDown :: "data" \notin heap[c] =>
       /\ heap[c] = closing[c]
       /\ c \notin reading /\ c \notin armed /\ c \notin started /\ c \notin writing
       /\ work[c] = "none"
       /\ text[c] = << >>
  /\ Allocated :: "data" \in heap[c] =>
       closing[c] = {} /\ "client" \in heap[c] /\ "timer" \in heap[c]
  /\ Receiving :: "data" \in heap[c] /\ c \notin started => c \in armed
  /\ NotStarted :: c \notin started =>
       "write_req" \notin heap[c] /\ c \notin writing /\ work[c] = "none"
  /\ Started :: c \in started =>
       /\ c \notin reading
       /\ "text" \in heap[c] /\ "work_req" \in heap[c]
       /\ work[c] = "none" <=> "write_req" \in heap[c]
  /\ Responded :: work[c] = "done" \/ "write_req" \in heap[c] => "response" \in heap[c]
  /\ Writing :: c \in writing => "write_req" \in heap[c]
  /\ Dispatched :: c \in started <=> Terminated(text[c])

Inv == TypeOK /\ \A c \in Conns : ConnInv(c)

-----------------------------------------------------------------------------
(* Facts about the operators of the model *)

\* The empty text holds no line end: true of a fresh and of a closed connection.
LEMMA EmptyNotTerminated == ~Terminated(<< >>)
  BY DEF Terminated

\* What a connection may have received is a sequence of bytes.
LEMMA ChunkType ==
  ASSUME NEW s \in Seq(Byte), NEW chunk \in Chunks
  PROVE  s \o chunk \in Seq(Byte)
  BY ChunkAssumption DEF Byte

\* close_data keeps the types, whatever allocations of c it is called on.
LEMMA CloseDataType ==
  ASSUME TypeOK, NEW c \in Conns, NEW owned \in SUBSET Allocations, CloseData(c, owned)
  PROVE  /\ heap' \in [Conns -> SUBSET Allocations]
         /\ closing' \in [Conns -> SUBSET Handles]
         /\ text' \in [Conns -> Seq(Byte)]
         /\ reading' \subseteq Conns /\ armed' \subseteq Conns /\ started' \subseteq Conns
  BY DEF TypeOK, CloseData, Closed, Freed, Allocations, Handles

-----------------------------------------------------------------------------
\* Every variable keeps its type under every callback of the server.
LEMMA TypeStep == TypeOK /\ [Next]_vars => TypeOK'
<1> SUFFICES ASSUME TypeOK, [Next]_vars
             PROVE  TypeOK'
  OBVIOUS
<1>1. CASE Main
  BY <1>1 DEF Main, TypeOK
<1>2. ASSUME NEW c \in Conns, ConnectionCb(c)
      PROVE  TypeOK'
  <2>1. CASE StartReceiving(c) /\ UNCHANGED <<closing, text, started>>
    BY <1>2, <2>1 DEF ConnectionCb, StartReceiving, TimerStart, TypeOK, Allocations, Handles
  <2>2. CASE CloseData(c, {"data", "client"})
    <3>1. {"data", "client"} \in SUBSET Allocations
      BY DEF Allocations, Handles
    <3>2. QED
      BY <1>2, <2>2, <3>1, CloseDataType DEF ConnectionCb, TypeOK
  <2>3. QED
    BY <1>2, <2>1, <2>2 DEF ConnectionCb
<1>3. ASSUME NEW c \in Conns, ReadCb(c)
      PROVE  TypeOK'
  <2>1. CASE CloseData(c, heap[c]) /\ UNCHANGED <<process, work, writing>>
    <3>1. heap[c] \in SUBSET Allocations
      BY DEF TypeOK
    <3>2. QED
      BY <2>1, <3>1, CloseDataType DEF TypeOK
  <2>2. ASSUME NEW chunk \in Chunks, ReadData(c, chunk),
               UNCHANGED <<process, closing, armed, writing>>
        PROVE  TypeOK'
    <3>1. text' \in [Conns -> Seq(Byte)]
      BY <2>2, ChunkType DEF ReadData, TypeOK
    <3>2. heap' \in [Conns -> SUBSET Allocations]
      BY <2>2 DEF ReadData, TypeOK, Allocations
    <3>3. /\ work' \in [Conns -> WorkStages]
          /\ reading' \subseteq Conns /\ started' \subseteq Conns
      BY <2>2 DEF ReadData, StartWork, ReadStop, QueueWork, TypeOK, WorkStages
    <3>4. QED
      BY <2>2, <3>1, <3>2, <3>3 DEF TypeOK
  <2>3. CASE process' = "read_cb"
             /\ UNCHANGED <<heap, closing, text, reading, armed, started, work, writing>>
    BY <2>3 DEF TypeOK, CrashSites
  <2>4. QED
    BY <1>3, <2>1, <2>2, <2>3 DEF ReadCb
<1>4. ASSUME NEW c \in Conns, ClientTimeoutCb(c)
      PROVE  TypeOK'
  <2>1. CASE c \in started
    BY <1>4, <2>1 DEF ClientTimeoutCb, WorkStarted, TypeOK
  <2>2. CASE c \notin started
    <3>1. heap[c] \in SUBSET Allocations
      BY DEF TypeOK
    <3>2. QED
      BY <1>4, <2>2, <3>1, CloseDataType DEF ClientTimeoutCb, WorkStarted, TypeOK
  <2>3. QED
    BY <2>1, <2>2
<1>5. ASSUME NEW c \in Conns, ProcessStart(c)
      PROVE  TypeOK'
  BY <1>5 DEF ProcessStart, TypeOK, WorkStages
<1>6. ASSUME NEW c \in Conns, ProcessCommand(c)
      PROVE  TypeOK'
  <2>1. CASE process' = process
    <3>1. heap' = [heap EXCEPT ![c] = @ \cup {"response"}] /\ work' = [work EXCEPT ![c] = "done"]
      BY <1>6, <2>1 DEF ProcessCommand, Running
    <3>2. heap' \in [Conns -> SUBSET Allocations]
      BY <3>1 DEF TypeOK, Allocations
    <3>3. work' \in [Conns -> WorkStages]
      BY <3>1 DEF TypeOK, WorkStages
    <3>4. UNCHANGED <<process, closing, text, reading, armed, started, writing>>
      BY <1>6, <2>1 DEF ProcessCommand
    <3>5. QED
      BY <3>2, <3>3, <3>4 DEF TypeOK
  <2>2. CASE process' \in {"parseHttp", "add_header"} /\ UNCHANGED <<heap, work>>
    BY <1>6, <2>2 DEF ProcessCommand, TypeOK, CrashSites
  <2>3. QED
    BY <1>6, <2>1, <2>2 DEF ProcessCommand
<1>7. ASSUME NEW c \in Conns, AfterProcessCommand(c)
      PROVE  TypeOK'
  BY <1>7 DEF AfterProcessCommand, TypeOK, WorkStages, Allocations
<1>8. ASSUME NEW c \in Conns, OnWriteEnd(c)
      PROVE  TypeOK'
  <2>1. heap[c] \in SUBSET Allocations
    BY DEF TypeOK
  <2>2. QED
    BY <1>8, <2>1, CloseDataType DEF OnWriteEnd, TypeOK
<1>9. ASSUME NEW c \in Conns, NEW handle \in Handles, OnCloseFree(c, handle)
      PROVE  TypeOK'
  BY <1>9 DEF OnCloseFree, TypeOK
<1>10. CASE UNCHANGED vars
  BY <1>10 DEF vars, TypeOK
<1>11. QED
  BY <1>1, <1>2, <1>3, <1>4, <1>5, <1>6, <1>7, <1>8, <1>9, <1>10 DEF Next

\* The variables hold values of their types: data->text is always a sequence of
\* received bytes, only handles are passed to uv_close, and so on.
THEOREM TypeCorrect == Spec => []TypeOK
<1>1. Init => TypeOK
  BY DEF Init, TypeOK, WorkStages
<1>2. TypeOK /\ [Next]_vars => TypeOK'
  BY TypeStep
<1>3. QED
  BY <1>1, <1>2, PTL DEF Spec

-----------------------------------------------------------------------------
\* A callback of one connection does not disturb the invariant of another.
LEMMA Elsewhere ==
  ASSUME NEW d \in Conns, ConnInv(d),
         heap'[d] = heap[d], closing'[d] = closing[d],
         text'[d] = text[d], work'[d] = work[d],
         d \in reading' <=> d \in reading, d \in armed' <=> d \in armed,
         d \in started' <=> d \in started, d \in writing' <=> d \in writing
  PROVE  ConnInv(d)'
  BY DEF ConnInv

\* close_data leaves a torn-down connection, provided nothing is queued for it.
LEMMA CloseDataTearsDown ==
  ASSUME TypeOK, NEW c \in Conns, NEW owned \in SUBSET Allocations,
         CloseData(c, owned), work'[c] = "none", c \notin writing'
  PROVE  ConnInv(c)'
<1>1. heap'[c] = owned \cap Handles /\ closing'[c] = owned \cap Handles
  BY DEF TypeOK, CloseData, Closed, Freed
<1>2. text'[c] = << >> /\ c \notin reading' /\ c \notin armed' /\ c \notin started'
  BY DEF TypeOK, CloseData
<1>3. "data" \notin heap'[c] /\ "write_req" \notin heap'[c]
  BY <1>1 DEF Handles
<1>4. QED
  BY <1>1, <1>2, <1>3, EmptyNotTerminated DEF ConnInv

\* close_data of c leaves the other connections as they were.
LEMMA CloseDataElsewhere ==
  ASSUME TypeOK, NEW c \in Conns, NEW owned, CloseData(c, owned),
         NEW d \in Conns, d # c, ConnInv(d),
         work'[d] = work[d], d \in writing' <=> d \in writing
  PROVE  ConnInv(d)'
<1>1. heap'[d] = heap[d] /\ closing'[d] = closing[d] /\ text'[d] = text[d]
  BY DEF TypeOK, CloseData
<1>2. /\ d \in reading' <=> d \in reading
      /\ d \in armed' <=> d \in armed
      /\ d \in started' <=> d \in started
  BY DEF CloseData
<1>3. QED
  BY <1>1, <1>2, Elsewhere

-----------------------------------------------------------------------------
(* The invariant is inductive: one lemma for each kind of callback *)

\* connection_cb: an accepted connection has a timer, a refused one is torn down.
LEMMA ConnectionStep ==
  ASSUME Inv, NEW c \in Conns, ConnectionCb(c)
  PROVE  \A d \in Conns : ConnInv(d)'
<1> SUFFICES ASSUME NEW d \in Conns PROVE ConnInv(d)'
  OBVIOUS
<1>1. TypeOK /\ ConnInv(c) /\ ConnInv(d)
  BY DEF Inv
<1>2. heap[c] = {} /\ UNCHANGED <<process, work, writing>>
  BY DEF ConnectionCb
<1>3. work[c] = "none" /\ c \notin writing
  BY <1>1, <1>2 DEF ConnInv
<1>4. CASE StartReceiving(c) /\ UNCHANGED <<closing, text, started>>
  <2>1. CASE d # c
    <3>1. /\ heap'[d] = heap[d] /\ closing'[d] = closing[d]
          /\ text'[d] = text[d] /\ work'[d] = work[d]
      BY <1>1, <1>2, <1>4, <2>1 DEF StartReceiving, TimerStart, TypeOK
    <3>2. /\ d \in reading' <=> d \in reading
          /\ d \in armed' <=> d \in armed
          /\ d \in started' <=> d \in started
          /\ d \in writing' <=> d \in writing
      BY <1>2, <1>4, <2>1 DEF StartReceiving, TimerStart
    <3>3. QED
      BY <1>1, <3>1, <3>2, Elsewhere
  <2>2. CASE d = c
    <3>1. /\ heap'[c] = {"data", "client", "timer"} /\ c \in armed'
          /\ UNCHANGED <<closing, text, started, work, writing>>
      BY <1>1, <1>2, <1>4 DEF StartReceiving, TimerStart, TypeOK
    <3>2. closing[c] = {} /\ text[c] = << >> /\ c \notin started
      BY <1>1, <1>2 DEF ConnInv
    <3>3. QED
      BY <1>3, <2>2, <3>1, <3>2, EmptyNotTerminated DEF ConnInv
  <2>3. QED
    BY <2>1, <2>2
<1>5. CASE CloseData(c, {"data", "client"})
  <2>1. {"data", "client"} \in SUBSET Allocations
    BY DEF Allocations, Handles
  <2>2. QED
    BY <1>1, <1>2, <1>3, <1>5, <2>1, CloseDataTearsDown, CloseDataElsewhere
<1>6. QED
  BY <1>4, <1>5 DEF ConnectionCb

\* read_cb: data either keeps the connection receiving or dispatches its request.
LEMMA ReadDataStep ==
  ASSUME Inv, NEW c \in Conns, c \in reading, NEW chunk \in Chunks, ReadData(c, chunk),
         UNCHANGED <<process, closing, armed, writing>>
  PROVE  \A d \in Conns : ConnInv(d)'
<1> SUFFICES ASSUME NEW d \in Conns PROVE ConnInv(d)'
  OBVIOUS
<1>1. TypeOK /\ ConnInv(c) /\ ConnInv(d)
  BY DEF Inv
<1>2. text'[c] = text[c] \o chunk
  BY <1>1 DEF ReadData, TypeOK
<1>3. CASE d # c
  <2>1. heap'[d] = heap[d] /\ closing'[d] = closing[d] /\ text'[d] = text[d]
    BY <1>1, <1>3 DEF ReadData, TypeOK
  <2>2. work'[d] = work[d]
    BY <1>1, <1>3 DEF ReadData, StartWork, ReadStop, QueueWork, TypeOK
  <2>3. /\ d \in reading' <=> d \in reading
        /\ d \in armed' <=> d \in armed
        /\ d \in started' <=> d \in started
        /\ d \in writing' <=> d \in writing
    BY <1>3 DEF ReadData, StartWork, ReadStop, QueueWork
  <2>4. QED
    BY <1>1, <2>1, <2>2, <2>3, Elsewhere
<1>4. CASE d = c
  <2>1. /\ "data" \in heap[c] /\ c \notin started /\ c \in armed
        /\ closing[c] = {} /\ "client" \in heap[c] /\ "timer" \in heap[c]
        /\ "write_req" \notin heap[c] /\ c \notin writing /\ work[c] = "none"
    BY <1>1 DEF ConnInv
  <2>2. CASE LineEndSeen(c, chunk)
    <3>1. /\ heap'[c] = heap[c] \cup {"text", "work_req"}
          /\ work'[c] = "queued" /\ c \in started' /\ c \notin reading'
      BY <1>1, <2>1, <2>2 DEF ReadData, StartWork, ReadStop, QueueWork, TypeOK
    <3>2. Terminated(text'[c])
      BY <1>2, <2>2 DEF LineEndSeen
    <3>3. QED
      BY <1>4, <2>1, <3>1, <3>2 DEF ConnInv
  <2>3. CASE ~LineEndSeen(c, chunk)
    <3>1. heap'[c] = heap[c] \cup {"text"} /\ UNCHANGED <<reading, started, work>>
      BY <1>1, <2>1, <2>3 DEF ReadData, TypeOK
    <3>2. ~Terminated(text'[c])
      BY <1>2, <2>3 DEF LineEndSeen
    <3>3. QED
      BY <1>1, <1>4, <2>1, <3>1, <3>2 DEF ConnInv
  <2>4. QED
    BY <2>2, <2>3
<1>5. QED
  BY <1>3, <1>4

\* close_data, called where no work and no write of the connection is pending.
LEMMA CloseStep ==
  ASSUME Inv, NEW c \in Conns, CloseData(c, heap[c]), UNCHANGED work,
         work[c] = "none", c \notin writing', \A d \in Conns \ {c} : d \in writing' <=> d \in writing
  PROVE  \A d \in Conns : ConnInv(d)'
<1>1. TypeOK /\ \A d \in Conns : ConnInv(d)
  BY DEF Inv
<1>2. heap[c] \in SUBSET Allocations
  BY <1>1 DEF TypeOK
<1>3. ConnInv(c)'
  BY <1>1, <1>2, CloseDataTearsDown
<1>4. ASSUME NEW d \in Conns, d # c
      PROVE  ConnInv(d)'
  BY <1>1, <1>2, <1>4, CloseDataElsewhere
<1>5. QED
  BY <1>3, <1>4

\* read_cb: an end of stream closes a connection that was still receiving.
LEMMA ReadStep ==
  ASSUME Inv, NEW c \in Conns, ReadCb(c)
  PROVE  \A d \in Conns : ConnInv(d)'
<1>1. c \in reading /\ ConnInv(c)
  BY DEF ReadCb, Inv
<1>2. work[c] = "none" /\ c \notin writing
  BY <1>1 DEF ConnInv
<1>3. CASE CloseData(c, heap[c]) /\ UNCHANGED <<process, work, writing>>
  BY <1>2, <1>3, CloseStep
<1>4. CASE /\ \E chunk \in Chunks : ReadData(c, chunk)
           /\ UNCHANGED <<process, closing, armed, writing>>
  BY <1>1, <1>4, ReadDataStep
<1>5. CASE UNCHANGED <<heap, closing, text, reading, armed, started, work, writing>>
  BY <1>5 DEF Inv, ConnInv
<1>6. QED
  BY <1>3, <1>4, <1>5 DEF ReadCb

\* client_timeout_cb: closes only a connection whose request is not dispatched.
LEMMA TimeoutStep ==
  ASSUME Inv, NEW c \in Conns, ClientTimeoutCb(c)
  PROVE  \A d \in Conns : ConnInv(d)'
<1>1. c \in armed /\ UNCHANGED <<process, work, writing>> /\ ConnInv(c)
  BY DEF ClientTimeoutCb, WorkStarted, Inv
<1>2. CASE c \in started
  <2> SUFFICES ASSUME NEW d \in Conns PROVE ConnInv(d)'
    OBVIOUS
  <2>1. armed' = armed \ {c} /\ UNCHANGED <<heap, closing, text, reading, started>>
    BY <1>2 DEF ClientTimeoutCb, WorkStarted
  <2>2. ConnInv(d)
    BY DEF Inv
  <2>3. CASE d # c
    <3>1. d \in armed' <=> d \in armed
      BY <2>1, <2>3
    <3>2. QED
      BY <1>1, <2>1, <2>2, <3>1, Elsewhere
  <2>4. CASE d = c
    BY <1>1, <1>2, <2>1, <2>2, <2>4 DEF ConnInv
  <2>5. QED
    BY <2>3, <2>4
<1>3. CASE c \notin started
  <2>1. work[c] = "none" /\ c \notin writing
    BY <1>1, <1>3 DEF ConnInv
  <2>2. CloseData(c, heap[c])
    BY <1>3 DEF ClientTimeoutCb, WorkStarted
  <2>3. QED
    BY <1>1, <2>1, <2>2, CloseStep
<1>4. QED
  BY <1>2, <1>3

\* The pool: taking up a request and ending process_command.
LEMMA PoolStep ==
  ASSUME Inv, NEW c \in Conns, ProcessStart(c) \/ ProcessCommand(c)
  PROVE  \A d \in Conns : ConnInv(d)'
<1> SUFFICES ASSUME NEW d \in Conns PROVE ConnInv(d)'
  OBVIOUS
<1>1. TypeOK /\ ConnInv(c) /\ ConnInv(d)
  BY DEF Inv
<1>2. work[c] # "none" /\ UNCHANGED <<closing, text, reading, armed, started, writing>>
  BY DEF ProcessStart, ProcessCommand
<1>3. /\ "data" \in heap[c] /\ c \in started /\ "write_req" \notin heap[c]
      /\ closing[c] = {} /\ c \notin writing
  BY <1>1, <1>2 DEF ConnInv
<1>4. CASE UNCHANGED <<heap, work>>
  BY <1>1, <1>2, <1>4 DEF ConnInv
<1>5. CASE heap' = heap /\ work' = [work EXCEPT ![c] = "running"]
  <2>1. CASE d # c
    BY <1>1, <1>2, <1>5, <2>1, Elsewhere DEF TypeOK
  <2>2. CASE d = c
    <3>1. work'[c] = "running"
      BY <1>1, <1>5 DEF TypeOK
    <3>2. QED
      BY <1>1, <1>2, <1>3, <1>5, <2>2, <3>1 DEF ConnInv
  <2>3. QED
    BY <2>1, <2>2
<1>6. CASE /\ heap' = [heap EXCEPT ![c] = @ \cup {"response"}]
           /\ work' = [work EXCEPT ![c] = "done"]
  <2>1. CASE d # c
    <3>1. heap'[d] = heap[d] /\ work'[d] = work[d]
      BY <1>1, <1>6, <2>1 DEF TypeOK
    <3>2. QED
      BY <1>1, <1>2, <3>1, Elsewhere
  <2>2. CASE d = c
    <3>1. heap'[c] = heap[c] \cup {"response"} /\ work'[c] = "done"
      BY <1>1, <1>6 DEF TypeOK
    <3>2. QED
      BY <1>1, <1>2, <1>3, <2>2, <3>1 DEF ConnInv
  <2>3. QED
    BY <2>1, <2>2
<1>7. QED
  BY <1>4, <1>5, <1>6 DEF ProcessStart, ProcessCommand

\* after_process_command: the response is there, and a write may be pending.
LEMMA AfterStep ==
  ASSUME Inv, NEW c \in Conns, AfterProcessCommand(c)
  PROVE  \A d \in Conns : ConnInv(d)'
<1> SUFFICES ASSUME NEW d \in Conns PROVE ConnInv(d)'
  OBVIOUS
<1>1. TypeOK /\ ConnInv(c) /\ ConnInv(d)
  BY DEF Inv
<1>2. /\ work[c] = "done" /\ armed' = armed \ {c}
      /\ writing' \in {writing, writing \cup {c}}
      /\ UNCHANGED <<closing, text, reading, started>>
  BY DEF AfterProcessCommand
<1>3. CASE d # c
  <2>1. heap'[d] = heap[d] /\ work'[d] = work[d]
    BY <1>1, <1>3 DEF AfterProcessCommand, TypeOK
  <2>2. (d \in armed' <=> d \in armed) /\ (d \in writing' <=> d \in writing)
    BY <1>2, <1>3
  <2>3. QED
    BY <1>1, <1>2, <2>1, <2>2, Elsewhere
<1>4. CASE d = c
  <2>1. heap'[c] = heap[c] \cup {"write_req"} /\ work'[c] = "none"
    BY <1>1 DEF AfterProcessCommand, TypeOK
  <2>2. /\ c \in started /\ "response" \in heap[c] /\ "data" \in heap[c]
    BY <1>1, <1>2 DEF ConnInv
  <2>3. QED
    BY <1>1, <1>2, <1>4, <2>1, <2>2 DEF ConnInv
<1>5. QED
  BY <1>3, <1>4

\* on_write_end: the last event of a connection tears it down.
LEMMA WriteEndStep ==
  ASSUME Inv, NEW c \in Conns, OnWriteEnd(c)
  PROVE  \A d \in Conns : ConnInv(d)'
<1>1. /\ c \in writing /\ writing' = writing \ {c}
      /\ CloseData(c, heap[c]) /\ UNCHANGED work
  BY DEF OnWriteEnd
<1>2. work[c] = "none"
  BY <1>1 DEF Inv, ConnInv
<1>3. c \notin writing' /\ \A d \in Conns \ {c} : d \in writing' <=> d \in writing
  BY <1>1
<1>4. QED
  BY <1>1, <1>2, <1>3, CloseStep

\* on_close_free: a handle is freed in the step that ends its closing.
LEMMA CloseFreeStep ==
  ASSUME Inv, NEW c \in Conns, NEW handle \in Handles, OnCloseFree(c, handle)
  PROVE  \A d \in Conns : ConnInv(d)'
<1> SUFFICES ASSUME NEW d \in Conns PROVE ConnInv(d)'
  OBVIOUS
<1>1. TypeOK /\ ConnInv(c) /\ ConnInv(d)
  BY DEF Inv
<1>2. /\ handle \in closing[c]
      /\ UNCHANGED <<text, reading, armed, started, work, writing>>
  BY DEF OnCloseFree
<1>3. CASE d # c
  <2>1. heap'[d] = heap[d] /\ closing'[d] = closing[d]
    BY <1>1, <1>3 DEF OnCloseFree, TypeOK
  <2>2. QED
    BY <1>1, <1>2, <2>1, Elsewhere
<1>4. CASE d = c
  <2>1. heap'[c] = heap[c] \ {handle} /\ closing'[c] = closing[c] \ {handle}
    BY <1>1 DEF OnCloseFree, TypeOK
  <2>2. "data" \notin heap[c]
    BY <1>1, <1>2 DEF ConnInv
  <2>3. QED
    BY <1>1, <1>2, <1>4, <2>1, <2>2 DEF ConnInv
<1>5. QED
  BY <1>3, <1>4

\* No callback, in any interleaving, breaks the invariant.
LEMMA InvStep == Inv /\ [Next]_vars => Inv'
<1> SUFFICES ASSUME Inv, [Next]_vars
             PROVE  Inv'
  OBVIOUS
<1>1. TypeOK'
  BY TypeStep DEF Inv
<1>2. CASE Main
  BY <1>1, <1>2 DEF Main, Inv, ConnInv
<1>3. CASE UNCHANGED vars
  BY <1>1, <1>3 DEF vars, Inv, ConnInv
<1>4. CASE Next /\ ~Main
  <2>1. PICK c \in Conns :
          \/ ConnectionCb(c) \/ ReadCb(c) \/ ClientTimeoutCb(c) \/ ProcessStart(c)
          \/ ProcessCommand(c) \/ AfterProcessCommand(c) \/ OnWriteEnd(c)
          \/ \E handle \in Handles : OnCloseFree(c, handle)
    BY <1>4 DEF Next
  <2>2. \A d \in Conns : ConnInv(d)'
    BY <2>1, ConnectionStep, ReadStep, TimeoutStep, PoolStep, AfterStep, WriteEndStep,
       CloseFreeStep
  <2>3. QED
    BY <1>1, <2>2 DEF Inv
<1>5. QED
  BY <1>2, <1>3, <1>4

LEMMA InvInit == Init => Inv
  BY EmptyNotTerminated DEF Init, Inv, ConnInv, TypeOK, WorkStages

\* The inductive invariant holds in every reachable state of the server.
THEOREM InvCorrect == Spec => []Inv
  BY InvInit, InvStep, PTL DEF Spec

-----------------------------------------------------------------------------
(* What the invariant gives *)

\* Memory safety of the callbacks: what any pending event will dereference is
\* allocated and open, for any number of connections and pool threads.
THEOREM PendingLiveCorrect == Spec => []PendingLive
<1>1. Inv => PendingLive
  BY DEF Inv, ConnInv, PendingLive, Owns
<1>2. QED
  BY <1>1, InvCorrect, PTL

\* close_data leaves nothing behind but handles whose close callback is to come.
THEOREM NoLeakCorrect == Spec => []NoLeak
<1>1. Inv => NoLeak
  BY DEF Inv, ConnInv, NoLeak
<1>2. QED
  BY <1>1, InvCorrect, PTL

\* Every connection that is still receiving has its timer started.
THEOREM DeadlineCorrect == Spec => []Deadline
<1>1. Inv => Deadline
  BY DEF Inv, ConnInv, Deadline
<1>2. QED
  BY <1>1, InvCorrect, PTL

\* A request is dispatched exactly when the received text holds a line end, for
\* any text and any way of splitting it over reads.
THEOREM DispatchCorrect == Spec => []DispatchedIffTerminated
<1>1. Inv => DispatchedIffTerminated
  BY DEF Inv, ConnInv, DispatchedIffTerminated
<1>2. QED
  BY <1>1, InvCorrect, PTL

\* From dispatch to teardown no callback writes to the text.
LEMMA FrozenStep ==
  ASSUME Inv, [Next]_vars, NEW c \in Conns, c \in started, c \in started'
  PROVE  text'[c] = text[c]
<1>1. TypeOK /\ c \notin reading /\ heap[c] # {}
  BY DEF Inv, ConnInv
<1>2. CASE UNCHANGED text
  BY <1>2
<1>3. ASSUME NEW d \in Conns, NEW owned, CloseData(d, owned)
      PROVE  text'[c] = text[c]
  <2>1. d # c
    BY <1>3 DEF CloseData
  <2>2. QED
    BY <1>1, <1>3, <2>1 DEF CloseData, TypeOK
<1>4. ASSUME NEW d \in Conns, d \in reading, NEW chunk \in Chunks, ReadData(d, chunk)
      PROVE  text'[c] = text[c]
  <2>1. d # c
    BY <1>1, <1>4
  <2>2. QED
    BY <1>1, <1>4, <2>1 DEF ReadData, TypeOK
<1>5. ASSUME NEW d \in Conns, ConnectionCb(d) \/ ReadCb(d) \/ ClientTimeoutCb(d) \/ OnWriteEnd(d)
      PROVE  text'[c] = text[c]
  BY <1>2, <1>3, <1>4, <1>5 DEF ConnectionCb, ReadCb, ClientTimeoutCb, WorkStarted, OnWriteEnd
<1>6. ASSUME NEW d \in Conns,
             \/ ProcessStart(d) \/ ProcessCommand(d) \/ AfterProcessCommand(d)
             \/ \E handle \in Handles : OnCloseFree(d, handle)
      PROVE  text'[c] = text[c]
  BY <1>2, <1>6 DEF ProcessStart, ProcessCommand, AfterProcessCommand, OnCloseFree
<1>7. QED
  BY <1>2, <1>5, <1>6 DEF Next, Main, vars

\* From dispatch to teardown no callback writes to the text a pool thread parses.
THEOREM TextFrozenCorrect == Spec => TextFrozen
<1> DEFINE Frozen == \A c \in Conns : c \in started /\ c \in started' => text'[c] = text[c]
<1>1. Inv /\ [Next]_vars => Frozen
  BY FrozenStep
<1>2. QED
  BY <1>1, InvCorrect, PTL DEF Spec, TextFrozen

\* Nothing but its own process_command ends the work of a pool thread.
LEMMA StillRunning ==
  ASSUME Inv, NEW c \in Conns, work[c] = "running", NEW d \in Conns,
         \/ ConnectionCb(d) \/ ReadCb(d) \/ ClientTimeoutCb(d) \/ ProcessStart(d)
         \/ AfterProcessCommand(d) \/ OnWriteEnd(d)
         \/ \E handle \in Handles : OnCloseFree(d, handle)
         \/ ProcessCommand(d) /\ d # c
  PROVE  work'[c] = "running"
<1>1. work \in [Conns -> WorkStages] /\ c \notin reading
  BY DEF Inv, ConnInv, TypeOK
<1>2. CASE UNCHANGED work
  BY <1>2
<1>3. CASE ReadCb(d)
  <2>1. d # c
    BY <1>1, <1>3 DEF ReadCb
  <2>2. QED
    BY <1>1, <1>3, <2>1 DEF ReadCb, ReadData, StartWork, QueueWork
<1>4. CASE ProcessStart(d) \/ AfterProcessCommand(d) \/ (ProcessCommand(d) /\ d # c)
  BY <1>1, <1>4 DEF ProcessStart, AfterProcessCommand, ProcessCommand
<1>5. CASE \/ ConnectionCb(d) \/ ClientTimeoutCb(d) \/ OnWriteEnd(d)
           \/ \E handle \in Handles : OnCloseFree(d, handle)
  BY <1>2, <1>5 DEF ConnectionCb, ClientTimeoutCb, OnWriteEnd, OnCloseFree
<1>6. QED
  BY <1>3, <1>4, <1>5

-----------------------------------------------------------------------------
(* The callbacks implement the life cycle of module Connection *)

\* The step of the abstract machine when one connection changes its phase.
LEMMA PhaseMove ==
  ASSUME NEW c \in Conns, NEW from, NEW to, Phase(c) = from, Phase(c)' = to,
         \A d \in Conns \ {c} : Phase(d)' = Phase(d)
  PROVE  Lifecycle!Move(c, from, to)
  BY DEF Lifecycle!Move, phase

\* The phase of a connection depends on its allocations and on work_started.
LEMMA PhaseSame ==
  ASSUME NEW d \in Conns, heap'[d] = heap[d], d \in started' <=> d \in started
  PROVE  Phase(d)' = Phase(d)
  BY DEF Phase

\* The phase each part of the invariant puts a connection in.
LEMMA PhaseOf ==
  ASSUME NEW c \in Conns, ConnInv(c)
  PROVE  /\ heap[c] = {} => Phase(c) = "free"
         /\ "data" \notin heap[c] /\ heap[c] # {} => Phase(c) = "closing"
         /\ "data" \in heap[c] /\ c \notin started => Phase(c) = "receiving"
         /\ c \in started /\ "write_req" \notin heap[c] => Phase(c) = "processing"
         /\ "write_req" \in heap[c] => Phase(c) = "responding"
<1>1. "data" \notin heap[c] => "write_req" \notin heap[c] /\ c \notin started
  BY DEF ConnInv
<1>2. c \notin started => "write_req" \notin heap[c]
  BY DEF ConnInv
<1>3. QED
  BY <1>1, <1>2 DEF Phase

\* close_data on an allocated connection moves it to the phase "closing".
LEMMA ClosingPhase ==
  ASSUME TypeOK, NEW c \in Conns, NEW owned, CloseData(c, owned), "client" \in owned
  PROVE  /\ Phase(c)' = "closing"
         /\ \A d \in Conns \ {c} : Phase(d)' = Phase(d)
<1>1. heap'[c] = owned \cap Handles /\ c \notin started'
  BY DEF CloseData, Freed, TypeOK
<1>2. "data" \notin heap'[c] /\ "write_req" \notin heap'[c] /\ heap'[c] # {}
  BY <1>1 DEF Handles
<1>3. Phase(c)' = "closing"
  BY <1>1, <1>2 DEF Phase
<1>4. ASSUME NEW d \in Conns, d # c
      PROVE  Phase(d)' = Phase(d)
  BY <1>4, PhaseSame DEF CloseData, TypeOK
<1>5. QED
  BY <1>3, <1>4

\* A step of the server that moves no connection stutters in the life cycle.
LEMMA PhaseStutter ==
  ASSUME \A d \in Conns : Phase(d)' = Phase(d)
  PROVE  UNCHANGED phase
  BY DEF phase

\* Every step of the server is a step of the life cycle or a stutter.
LEMMA LifecycleStep ==
  ASSUME Inv, Inv', [Next]_vars
  PROVE  [Lifecycle!Next]_phase
<1> DEFINE Goal == [Lifecycle!Next]_phase
<1>1. TypeOK /\ \A c \in Conns : ConnInv(c) /\ ConnInv(c)'
  BY DEF Inv
<1>2. ASSUME NEW c \in Conns, CloseData(c, heap[c]), "client" \in heap[c],
             Phase(c) = "receiving" \/ Phase(c) = "responding"
      PROVE  Goal
  <2>1. Lifecycle!Abandon(c) \/ Lifecycle!Finish(c)
    BY <1>1, <1>2, ClosingPhase, PhaseMove DEF Lifecycle!Abandon, Lifecycle!Finish
  <2>2. QED
    BY <2>1 DEF Lifecycle!Next
<1>3. ASSUME UNCHANGED <<heap, started>>
      PROVE  Goal
  BY <1>3, PhaseSame, PhaseStutter
<1>4. ASSUME NEW c \in Conns, ConnectionCb(c)
      PROVE  Goal
  <2>1. heap[c] = {} /\ Phase(c) = "free"
    BY <1>1, <1>4, PhaseOf DEF ConnectionCb
  <2>2. CASE StartReceiving(c) /\ UNCHANGED <<closing, text, started>>
    <3>1. /\ heap'[c] = {"data", "client", "timer"} /\ c \notin started'
          /\ \A d \in Conns \ {c} : heap'[d] = heap[d] /\ (d \in started' <=> d \in started)
      BY <1>1, <2>1, <2>2 DEF StartReceiving, TimerStart, TypeOK, ConnInv
    <3>2. Phase(c)' = "receiving"
      BY <3>1 DEF Phase
    <3>3. Lifecycle!Accept(c)
      BY <2>1, <3>1, <3>2, PhaseSame, PhaseMove DEF Lifecycle!Accept
    <3>4. QED
      BY <3>3 DEF Lifecycle!Next
  <2>3. CASE CloseData(c, {"data", "client"})
    <3>1. Lifecycle!Refuse(c)
      BY <1>1, <2>1, <2>3, ClosingPhase, PhaseMove DEF Lifecycle!Refuse
    <3>2. QED
      BY <3>1 DEF Lifecycle!Next
  <2>4. QED
    BY <1>4, <2>2, <2>3 DEF ConnectionCb
<1>5. ASSUME NEW c \in Conns, NEW chunk \in Chunks, c \in reading, ReadData(c, chunk)
      PROVE  Goal
  <2>1. "data" \in heap[c] /\ c \notin started /\ Phase(c) = "receiving"
    BY <1>1, <1>5, PhaseOf DEF ConnInv
  <2>2. /\ "data" \in heap'[c] /\ "write_req" \notin heap'[c]
        /\ \A d \in Conns \ {c} : heap'[d] = heap[d] /\ (d \in started' <=> d \in started)
    <3>1. "write_req" \notin heap[c]
      BY <1>1, <2>1 DEF ConnInv
    <3>2. heap'[c] \in {heap[c] \cup {"text"}, heap[c] \cup {"text", "work_req"}}
      BY <1>1, <1>5 DEF ReadData, TypeOK
    <3>3. \A d \in Conns \ {c} : heap'[d] = heap[d]
      BY <1>1, <1>5 DEF ReadData, TypeOK
    <3>4. \A d \in Conns \ {c} : d \in started' <=> d \in started
      BY <1>5 DEF ReadData, StartWork, ReadStop, QueueWork
    <3>5. QED
      BY <2>1, <3>1, <3>2, <3>3, <3>4
  <2>3. CASE c \in started'
    <3>1. Phase(c)' = "processing"
      BY <2>2, <2>3 DEF Phase
    <3>2. Lifecycle!Dispatch(c)
      BY <2>1, <2>2, <3>1, PhaseSame, PhaseMove DEF Lifecycle!Dispatch
    <3>3. QED
      BY <3>2 DEF Lifecycle!Next
  <2>4. CASE c \notin started'
    <3>1. Phase(c)' = "receiving"
      BY <2>2, <2>4 DEF Phase
    <3>2. QED
      BY <2>1, <2>2, <3>1, PhaseSame, PhaseStutter
  <2>5. QED
    BY <2>3, <2>4
<1>6. ASSUME NEW c \in Conns, ReadCb(c)
      PROVE  Goal
  <2>1. c \in reading /\ "client" \in heap[c] /\ Phase(c) = "receiving"
    BY <1>1, <1>6, PhaseOf DEF ReadCb, ConnInv
  <2>2. QED
    BY <1>2, <1>3, <1>5, <1>6, <2>1 DEF ReadCb
<1>7. ASSUME NEW c \in Conns, ClientTimeoutCb(c)
      PROVE  Goal
  <2>1. CASE c \in started
    BY <1>3, <1>7, <2>1 DEF ClientTimeoutCb, WorkStarted
  <2>2. CASE c \notin started
    <3>1. "client" \in heap[c] /\ Phase(c) = "receiving"
      BY <1>1, <1>7, <2>2, PhaseOf DEF ClientTimeoutCb, WorkStarted, ConnInv
    <3>2. QED
      BY <1>2, <1>7, <2>2, <3>1 DEF ClientTimeoutCb, WorkStarted
  <2>3. QED
    BY <2>1, <2>2
<1>8. ASSUME NEW c \in Conns, ProcessStart(c) \/ ProcessCommand(c)
      PROVE  Goal
  <2>1. CASE heap' = heap
    BY <1>3, <1>8, <2>1 DEF ProcessStart, ProcessCommand
  <2>2. CASE heap' = [heap EXCEPT ![c] = @ \cup {"response"}]
    <3>1. \A d \in Conns \ {c} : heap'[d] = heap[d]
      BY <1>1, <2>2 DEF TypeOK
    <3>2. heap'[c] = heap[c] \cup {"response"} /\ started' = started
      BY <1>1, <1>8, <2>2 DEF TypeOK, ProcessStart, ProcessCommand
    <3>3. c \in started /\ "data" \in heap[c] /\ "write_req" \notin heap[c]
      BY <1>1, <1>8 DEF ConnInv, ProcessStart, ProcessCommand
    <3>4. Phase(c)' = Phase(c)
      <4>1. c \in started' /\ "data" \in heap'[c] /\ "write_req" \notin heap'[c]
        BY <3>2, <3>3
      <4>2. Phase(c) = "processing" /\ Phase(c)' = "processing"
        BY <3>3, <4>1 DEF Phase
      <4>3. QED
        BY <4>2
    <3>5. QED
      BY <3>1, <3>2, <3>4, PhaseSame, PhaseStutter
  <2>3. QED
    BY <1>8, <2>1, <2>2 DEF ProcessStart, ProcessCommand
<1>9. ASSUME NEW c \in Conns, AfterProcessCommand(c)
      PROVE  Goal
  <2>1. Phase(c) = "processing"
    BY <1>1, <1>9, PhaseOf DEF AfterProcessCommand, ConnInv
  <2>2. /\ heap'[c] = heap[c] \cup {"write_req"} /\ started' = started
        /\ \A d \in Conns \ {c} : heap'[d] = heap[d]
    BY <1>1, <1>9 DEF AfterProcessCommand, TypeOK
  <2>3. Phase(c)' = "responding"
    <3>1. "data" \in heap[c] /\ c \in started
      BY <1>1, <1>9 DEF AfterProcessCommand, ConnInv
    <3>2. "data" \in heap'[c] /\ c \in started' /\ "write_req" \in heap'[c]
      BY <2>2, <3>1
    <3>3. QED
      BY <3>2 DEF Phase
  <2>4. Lifecycle!Respond(c)
    BY <2>1, <2>2, <2>3, PhaseSame, PhaseMove DEF Lifecycle!Respond
  <2>5. QED
    BY <2>4 DEF Lifecycle!Next
<1>10. ASSUME NEW c \in Conns, OnWriteEnd(c)
       PROVE  Goal
  <2>1. "client" \in heap[c] /\ Phase(c) = "responding"
    BY <1>1, <1>10, PhaseOf DEF OnWriteEnd, ConnInv
  <2>2. QED
    BY <1>2, <1>10, <2>1 DEF OnWriteEnd
<1>11. ASSUME NEW c \in Conns, NEW handle \in Handles, OnCloseFree(c, handle)
       PROVE  Goal
  <2>1. "data" \notin heap[c] /\ heap[c] # {} /\ c \notin started /\ Phase(c) = "closing"
    BY <1>1, <1>11, PhaseOf DEF OnCloseFree, ConnInv
  <2>2. /\ heap'[c] = heap[c] \ {handle} /\ started' = started
        /\ \A d \in Conns \ {c} : heap'[d] = heap[d]
    BY <1>1, <1>11 DEF OnCloseFree, TypeOK
  <2>3. "data" \notin heap'[c] /\ "write_req" \notin heap'[c]
    BY <1>1, <2>1, <2>2 DEF ConnInv
  <2>4. CASE heap'[c] = {}
    <3>1. Phase(c)' = "free"
      BY <2>1, <2>2, <2>3, <2>4 DEF Phase
    <3>2. Lifecycle!Release(c)
      BY <2>1, <2>2, <3>1, PhaseSame, PhaseMove DEF Lifecycle!Release
    <3>3. QED
      BY <3>2 DEF Lifecycle!Next
  <2>5. CASE heap'[c] # {}
    <3>1. Phase(c)' = "closing"
      BY <2>1, <2>2, <2>3, <2>5 DEF Phase
    <3>2. QED
      BY <2>1, <2>2, <3>1, PhaseSame, PhaseStutter
  <2>6. QED
    BY <2>4, <2>5
<1>12. CASE Main \/ UNCHANGED vars
  BY <1>3, <1>12 DEF Main, vars
<1>13. QED
  BY <1>4, <1>6, <1>7, <1>8, <1>9, <1>10, <1>11, <1>12 DEF Next

\* The event loop with its worker threads implements the life cycle: refinement
\* under the mapping Phase, for any number of connections.
THEOREM LifecycleCorrect == Spec => ImplementsLifecycle
<1>1. Init => Lifecycle!Init
  BY DEF Init, Lifecycle!Init, phase, Phase
<1>2. Inv /\ Inv' /\ [Next]_vars => [Lifecycle!Next]_phase
  BY LifecycleStep
<1>3. QED
  BY <1>1, <1>2, InvCorrect, PTL DEF Spec, ImplementsLifecycle, Lifecycle!Spec

=============================================================================
