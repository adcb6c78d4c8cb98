# A model of simple-c-web-server

This directory holds TLA+ modules that model the program, the TLC
configurations that check them on small instances, and proofs checked by TLAPS
of the properties that matter most for every size of the instance. All line
numbers are those of the files under `src/`.

## The system

The program is a small HTTP server on libuv, for Windows, and a JSON library
next to it that the server does not call yet.

| Component | Source | State | Operations |
|---|---|---|---|
| Event loop and connections | `server.c` 20-33, 109-152, 179-273 | one `client_request_data` per connection: text, response, `work_started`, two handles, two requests; in libuv: reading, timer, queued work, pending write, closing handles | `main`, `connection_cb`, `alloc_buffer`, `read_cb`, `client_timeout_cb`, `after_process_command`, `on_write_end`, `on_close_free`, `close_data` |
| Request processing | `server.c` 54-107, 155-176 | locals of `parseHttp`, `http_request` | `process_command`, `parseHttp`, `add_header`, `print_headers` |
| JSON lexer | `json/lexer.c` | input, position, readPosition, ch | `lexerCreate`, `lexerNext`, reading helpers |
| JSON token array | `json/lexer.c` 118-168 | the block of pointers, its size in bytes, the tokens | `parseTokens`, `parsedTokensCleanup`, `tokenCreate`, `tokenCleanup` |
| JSON parser | `json/parser.c` | token array, separators, the values built | `parseObject`, `parseArray`, `_getSeparatorsData`, `_findEnclosingTokenPosition`, `_parseValue`, the cleanups |
| Response table | `lib/response.c` | none | `getResponse`, linked but never called |
| libuv's trees | `libuv/include/tree.h` | root, children, parents and colors; for the splay tree its three parts on the way down | insert, remove, find, nearest, neighbours, smallest and largest |
| libuv | the other headers in `libuv/include` | declarations of a library that is not here | |

How they interact. The loop thread runs all callbacks, one at a time.
`connection_cb` accepts a connection, starts its 10 s timer and starts reading.
`read_cb` appends what arrives to `data->text`; the first time the text holds a
line end it stops reading and queues `process_command` on the thread pool.
`process_command` runs on a pool thread at the same time as every other callback
of the loop, reads `data->text` through `parseHttp` and sets `data->response`.
Back on the loop, `after_process_command` stops the timer and starts the write,
and `on_write_end` closes. `close_data` is also reached from an end of stream
and from the timer. libuv keeps the running timers of a loop in a red-black tree
of `tree.h` (uv-win.h:309), so every start and stop of a timer is an insertion or
a removal there. `close_data` frees the plain allocations at once; the memory of the
two handles is freed later, by their close callbacks. No locks are used: what
keeps the loop and the pool threads apart is only the order of these calls; and
what keeps two pool threads apart is that the C runtime remembers for each thread
where its `strtok` goes on.

What is hard here:

* the timer, the end of the stream and the pool thread race for the same
  connection, and each of them may end in `close_data`;
* text may arrive in any pieces, before and after the dispatch;
* calls may fail whose results are ignored (`uv_read_start`, `uv_write`);
* the request is dispatched with its first line end, so the parser sees a prefix
  of the message that may be cut anywhere;
* several requests are cut into lines at the same time, by a function with hidden
  state;
* index and size arithmetic in the JSON code, and a lexer whose loops overlap in
  the characters they take;
* pointer surgery in the trees, whose mistakes show only many calls later.

What makes each component correct:

* connections: no callback or thread meets freed or closing memory; nothing is
  left behind; each connection has a deadline; a request is dispatched exactly
  when due, and a dispatched one is answered, then closed;
* request processing: headers and body come from their parts of the text, in
  order, each header with its own value, and each thread has its own lines;
* token array: every store fits, the length is right, every token is freed;
* lexer: it ends, stays inside the input, drops and repeats no character, keeps
  words and strings whole, and yields what the parser is written for;
* parser: it reads inside the token array, yields the members of the text, and
  its cleanup meets no value that was not built;
* trees: links, order and colors stay right in the middle of a repair, every call
  returns, and callers see an ordered set.

`PROJECT.json` lists the hazards line by line with the properties that cover
them.

## Modules

**Server** models `server.c`. A connection slot `c` stands for one
`client_request_data` and all it points to. `heap[c]` is the set of its live
allocations (the fields that are not NULL), `closing[c]` the handles between
`uv_close` and the close callback, `text[c]` the bytes at `data->text`,
`started` the connections with `work_started`. What libuv remembers is there
too: `reading`, `armed` (timers), `work` (where the `uv_queue_work` request is)
and `writing` (an `on_write_end` to come). `process` is the process itself: it
runs, it has ended, or it was taken down inside a function.

Each callback is one action, with `close_data` inlined where it is called:
`Main`, `ConnectionCb`, `ReadCb`, `ClientTimeoutCb`, `AfterProcessCommand`,
`OnWriteEnd`, `OnCloseFree`. `process_command` is two actions, `ProcessStart`
(a thread takes the request) and `ProcessCommand` (the thread is done), so that
any callback may happen in between. Results that the code ignores are choices:
reading may or may not have begun, a write may or may not be pending. Bytes are
CR, LF, NUL and one other; these are all that `strstr` and `strtok` tell apart.
`ProcessCommand` reads the text as far as its outcome needs: a text without a line
takes the process down, and one with more header lines than the array has elements
(`MaxHeaders`) may take it down or be answered all the same, as what a write past
the array does is undefined.
A connection may not be reused before all its memory is released: slots stand
for structures, and the number of slots bounds the connections alive at once.
A status of -1 in `connection_cb` touches no state and has no action.

**Connection** is the abstract specification: a connection goes from free to
receiving, processing, responding, closing and back; it is abandoned only while
receiving. `Server` implements it under the mapping `Phase`.

**MCServer** gives `Server`'s constants their values for TLC.

**Workers** composes the event loop with the threads of the pool. It instantiates
`Server` as `Loop` (with as many pool threads as there are) and refines the time
between `ProcessStart` and `ProcessCommand`: a thread takes a request
(`TakeUp`), duplicates the text, calls `strtok` once for each line, and finishes,
or goes down at a header line too many (`Overrun`).
Every callback of the loop may run between two of these steps, and so may every
step of another thread. `token[t]` is the place that the runtime keeps for thread
`t`; `strtok` itself is external and given by its definition (pass over line
feeds, return what is before the next one, write a NUL in its stead). What is
done with a line is left to `HttpRequest`: the properties `KnownText` and
`OwnLines` are about the two modules fitting together. That a thread has a place
of its own is so in the runtime of Windows, for which the Makefile builds and
`winsock2.h` is included; in a runtime with one place for all threads, `OwnLines`
would not hold (the variant `OneSlot`).

**RequestText** holds the lines of a request as `strstr`, `strtok` and `sscanf`
tell them apart, and which texts are dispatched. A blank line is any one byte of
white space (server.c:86): the CR of an empty line, or a blank or tab with no CR
behind it. `HttpRequest` and `Workers` use
the same definitions, so that one cannot assume what the other does not keep.

**HttpRequest** models `parseHttp` and `add_header`. The text is a sequence of
lines, each with what `strtok` and `sscanf` tell apart; names, values and the
body are known by the number of the line they come from, so a mixed-up header
shows. The initial states are all texts that `read_cb` may dispatch, with the
last line cut anywhere. The arrays `header` and `value` are uninitialised in
every pass of the loop: a line that does not fill them leaves what the last
pass put there, or anything (`Junk`). A text without a visible line ends in the
stage `crashed`, the header after the last array element in the stage `overrun`.

**TokenArray** models `parseTokens` and `parsedTokensCleanup`, with sizes in
bytes as in the code.

**JsonTokens** holds the token types. It gives the lexer what it may return and
the parser what it may be handed (`IsTokenArray`).

**JsonLexer** models `lexerCreate` and `lexerNext`, one character per action in
the loops that read strings, numbers and words, and one action for each token of
a single character. `position`, `readPosition` and `ch` are those of the code.
A token is its type and the stretch of the text it was read from. A character
stands for all that the code treats alike; `High` is one with the top bit set,
about which `isdigit` may answer anything (`digits` fixes an answer for a
run), and the type of a word that is none of the three is left open, as
`_getTokenTypeFromLiteral` returns nothing then. If that type is string or number,
`lexerNext` leaves the literal NULL (lexer.c:98): such a token has a type of its
own, `NoLiteral`.

**JsonParser** models `parser.c`: `parseObject` and `parseArray` call each other,
and the calls under way are a stack of frames, each with the start of its
container and the passes of its loop that are to come. One pass is one action
(`PropertyPass` or `ElementPass`, with the call or `_parseValue` it makes), so
are the return of a call, the call of `main` and the cleanup. The two scans
(`End`, `Separators`) are operators, with the counters of the loops. A token is
its type and a value is the position of its token, so a value that lands under
the wrong key or in the wrong container shows. What `_parseValue` leaves without
a type is `untyped`, and the cleanup may do anything with it; a key without a
literal, a value whose literal is NULL (`ReadThroughNULL`) and a NULL container end
in the stage `crashed`.

**JsonGrammar** says which token arrays are well-formed: what may follow what, in the
innermost container around it, and that all that is opened is closed. The code has
no grammar; the properties of `JsonParser` need one, since they hold of well-formed
texts only. Of a malformed text a value may even be built twice: behind a `]` too
many, a nested array hides none of its commas from the outer object.

**MCJsonParser** builds the inputs for TLC, any tokens and well-formed texts. An
assumption that TLC evaluates checks the grammar against the latter, which are put
together from objects and arrays, and against the text of `main`.

**OrderedSet** is the abstract specification of both trees: a caller asks, gets an
answer from the set of elements that are present, and the set changes in one step.

**BinaryTree** defines the two sides and what is reached over children that may or
may not make a tree.

**RedBlackTree** models `RB_GENERATE` with one action per pass of a loop, so that
the states in the middle of a repair are there to be looked at. Mirror images are
one definition with a side. Reading a sibling or grandparent that is NULL ends in
the stage `crashed`. The fields of an element outside the tree are kept at fixed
values: they are written before they are read.

**SplayTree** models `SPLAY_GENERATE` in the same way. The children of elements in
the parts that are taken apart still point where they did, as in the code; only
`Assemble` overwrites them. Nothing in this repository instantiates it.

**ServerProofs**, **WorkersProofs**, **HttpRequestProofs**, **JsonLexerProofs**
(also of `TokenArray`, which it extends too), **JsonParserProofs**,
**RedBlackTreeProofs** and **SplayTreeProofs** hold the theorems,
**BinaryTreeProofs** the lemmas about trees.

Definitions marked "variant" next to a definition show a mistake that the
properties catch; no specification uses them.

## What is checked

| Run | Instance | Shows |
|---|---|---|
| `server_safety` | 2 connections, 1 pool thread, up to 4 bytes per connection in reads of up to 2, a clean and a failing end of stream | `PendingLive`, `NoLeak`, `Deadline`, `DispatchedIffTerminated`, `TextFrozen`, and that the callbacks implement `Connection` |
| `server_orphan` | as `server_safety` | violated: a refused `uv_write` leaves a connection for ever |
| `server_read_error` | as `server_safety` | violated: a read error other than the end of the stream is taken for data |
| `workers` | 2 connections, 2 pool threads, up to 5 bytes in one or two reads | `KnownText`, `OwnLines`, `OwnPlace` |
| `workers_liveness` | 2 connections, 1 pool thread, up to 5 bytes, a clean and a failing end of stream | `Answered`, `Released`, and that the composition implements `Server` with its fairness |
| `http_request` | all texts of up to 5 lines, 2 header slots | `PartsKept`, `BodyIsLast`, `HeadersMatch`, `OverrunOnlyWhenFull` |
| `token_array` | up to 40 tokens, 16-byte tokens, 8-byte pointers | `StoresFit`, `LengthIsCount`, `AllFreed` |
| `json_lexer` | all texts of up to 4 characters from 8, and of up to 4 pieces that are words or characters | `Progress`, `NothingSkipped`, `ParserInput`, `QuotesPair`, `WordsWhole` |
| `json_parser` | any tokens up to 4: alone, in an object, in an array and an object inside it; and well-formed objects of up to 3 members, nested three deep | `IndexesInside`, `NestingAdvances`; for the well-formed ones of all these `WellFormedRight`, `WellFormedSafe`, `WellFormedOnce` |
| `json_main` | the text of `main` | violated: the last member of each container is not built |
| `red_black_tree` | 7 elements | `NoNullRead`, `LinksAgree`, `Ordered`, `RedBlack`, `Returns`; the tree implements `OrderedSet` |
| `splay_tree` | 6 elements | `Apart`, `ClosestAtRoot`; the tree implements `OrderedSet` |

Why the bounds are enough. Connections share nothing but the pool, so two of
them and one thread show a request that waits behind another; a slot that is
released is used again, so in the liveness run one connection after the other may
take the thread before a request that waits.
Four bytes hold a line end that is split over reads, behind a NUL, with bytes
before and after it. Five lines hold a request line, a header, a blank line and
a body of two lines, or more headers than the two slots. Four arbitrary tokens
in a nested container hold one more container with two separators, and brackets
that close in the wrong order; two members of every nested kind side by side
show a comma that one would hide from, or lend to, the other. Four pieces hold a
word between two delimiters and a character more, or two words in a row, or a
string with a word in it. Two threads and two connections are all that one call
of `strtok` can disturb; five bytes hold an empty line, merged line feeds, a cut
line and a NUL, in two reads, or a request line with two header lines, one more than
the single header of these instances (`MaxHeaders = 1`). Four bytes do not hold so
many, so the overrun happens in `workers` and `workers_liveness`, which has the
callbacks of `Server` too. A red-black tree of seven elements is up to four
levels high, so that a repair moves up and then rotates, and every case of both
repairs fires with each side; a splay step looks at three elements, and six put
something on every side of them. The theorems have none of these bounds.
Deadlock is checked for the trees, which are always ready for a call. Elsewhere
it is not: the server may have stopped, and a parser or a lexer ends.

Fairness (`FairSpec`). An armed timer fires, the loop calls the completion of
finished work, of an accepted write and of a close, and `process_command` ends:
weak fairness of the loop's and the thread's steps, which libuv's loop gives.
`ProcessStart` needs strong fairness, since requests of other connections may
take the free thread first, again and again; libuv's queue is first in, first
out, so a request is not passed over for ever. Nothing is assumed of the peer,
and nothing of `uv_write` succeeding. `Released` therefore excepts a refused
write, which is the subject of `server_orphan`; both properties except a process
that has gone down. In `Workers` a thread is not
stopped for ever (weak fairness of its next step), from which `ImplementsServer`
derives the fairness of `ProcessCommand` that `Server` assumes. A call of a tree is
sequential: once it has begun it takes its next step, and no more is assumed for
`Returns`.

## What is proved

For any set of connections, any pool size, any chunks, statuses and bound:

* `Spec => []TypeOK`, `[]PendingLive`, `[]NoLeak`, `[]Deadline`,
  `[]DispatchedIffTerminated`, `Spec => TextFrozen`;
* `Spec => ImplementsLifecycle`: the refinement of `Connection`.

`PendingLive` is not inductive: that `close_data` in `on_write_end` frees nothing
that is still needed follows from there being no work and no timer at that point.
`ServerProofs!Inv` therefore says, for each connection, which events can be
pending at each stage: nothing once `data` is freed; an armed timer before the
dispatch; no reading after it; a finished write request iff the work is over.
One lemma per kind of callback shows that it keeps the invariant, with shared
lemmas for `close_data` and for the connections the callback does not touch.
The refinement uses the invariant to find the phase before and after each step.
The only assumptions are the named ones in the modules: the pool has a thread, a
`Token` is at least as large as two pointers,
and reads deliver sequences of bytes.

Type invariants are proved wherever there are proofs; TLC checks them again for the
two modules (`Server`, `JsonLexer`) in which they say more than types. The states
of the trees are checked through the properties of their links instead.

`WorkersProofs` proves `OwnPlace`, `KnownText` and `OwnLines` for any finite set of
threads, any connections, chunks and texts of any length, and that the composition
implements `Server` (without its fairness), so that each of the theorems above
holds of it too. A first invariant says that two connections never have the same
thread and that a thread in the middle of its lines has its place in its own copy;
the step of a thread that finishes is the only one that is not a stutter of the
loop. The lines need more: the invariant of `ServerProofs` is carried along
(through an instance), a thread works only while the work of its connection is
running, so its request is dispatched and nothing writes to its text; and where
strtok goes on, a line begins, the copy is still the text from there on, and all
lines before it are given, in order. `KnownText` then is a fact about the bytes
that `Terminated` saw. Before these come lemmas about the operators: the k-th
element of a finite set of places, that the lines of a text follow one another and
cover it, that what strtok has to return is the stretches without a line feed, and
that `IsToken` finds the next of them (from the least element of a set of numbers).

`HttpRequestProofs` proves all five invariants for texts of any length. `PartsKept`
and `BodyIsLast` follow from the invariant that `bodyEncountered` is set iff a
blank line behind the request line was passed. `HeadersMatch` and
`OverrunOnlyWhenFull` rest on a second one: the number of headers is the number
of header lines up to the line that was read last, and the header of each of them
is at its place among them. Lemmas about cardinalities show that passing over a
line that is no header line leaves that number alone and that a header line adds
one to it.

`JsonLexerProofs` proves the three invariants of `TokenArray`, and its types, for
inputs of any length and any sizes with `TokenSize >= 2 * PtrSize` (`Sizes`): the
invariant gives both byte counts as functions of the number of tokens, and a lemma
shows that counting in tokens leaves room for one pointer more than is stored.

It proves `TypeOK`, `Progress`, `NothingSkipped`, `QuotesPair`,
`WordsWhole` and `ParserInput` of `JsonLexer` for texts of any length. The invariant ties each token to its stretch of the text:
the stretches are in order, end where the lexer is, and every character before
that is white space or in one of them. `ParserInput` is the assumption that
`JsonParserProofs` makes of its input, tokens without a literal included, so that
the two together speak about every text that goes through both. `QuotesPair` needs a second invariant: the number of
quotes up to the lexer is even where it reads no string, and one more than at the
start of the string where it does. `WordsWhole` needs a third: what a token is made
of follows from the character it begins with, so the token that holds the first
letter of a word, which by `NothingSkipped` exists, can be no string, number or
single character, and begins and ends where the word does.

`JsonParserProofs` proves `TypeOK`, `IndexesInside` and `NestingAdvances` for token
arrays of any length, from the single assumption that the array ends with its
only end token. That no pass reads too far has no test in the code to point to;
it follows from three bounds together: the scan for the end stops at the end
token at the latest (a lemma by the well-foundedness of the natural numbers), a
container without an end makes no frame, and a separator is at least two tokens
before the end while a pass starts before the last of them. What the counters
count is not needed, so the result holds for malformed texts too.

For well-formed texts of any length and depth it proves `WellFormedRight`,
`WellFormedSafe` and `WellFormedOnce`, in three parts. The first relates the scans to
nesting levels. The set of containers of a kind that are open (`OpenOf`) grows and
shrinks by one with their brackets, so in a well-formed text no counter of
`_findEnclosingTokenPosition` is ever kept from going below zero, and each counter is
the size of its set; the recursive function of the model is shown to be that one by
exhibiting it. Hence the scan ends at the end of the container (`EndRight`), and the
separators are the commas of the container itself (`SeparatorsRight`). The second
part reads the grammar around a separator: a pass of `parseObject` finds a key, a
colon and a value, a pass of `parseArray` a value and no brace behind it, and each
value is behind the start or a separator (`PassReads`, `ValueItem`). The third is the
inductive invariant `Built`: each member is the one a pass makes (`Made`), in order,
in a container that was reached; a call has exactly the passes left whose member is
not there; and a container that was reached has a call under way or all the members
that passes make. It is needed because two calls could otherwise make the same
member, or a call could begin in a container whose members are there already; as no
token is in two innermost containers, neither happens. What is missing in the end
is then the last member of each container and nothing else.

`RedBlackTreeProofs` proves `NoNullRead`, `LinksAgree`, `Ordered`, `RedBlack` and
`Implements` for any finite set of elements. None of these is inductive, and what
a pointer reaches cannot be computed by induction here. The invariant `IndInv`
therefore says that there is a map from elements to subtrees in which each subtree
is its element and the subtrees of its children, disjoint and on their sides
(`Shape`); that the search has not lost the element it looks for (`Searching`); and
that there is a number of black elements below each, equal on both sides but at the
place the repair works on, where it is one off or where one red element has a red
parent (`Colored`). `BinaryTreeProofs` shows that such a map gives what is reached,
so the properties, which speak of reachability only, follow. For each assignment
that moves a link, a lemma gives the subtrees and the counts after it: a rotation
exchanges the subtrees of two elements, a removal takes the element out of those
above it. That no sibling is NULL then is arithmetic: below a missing black element
the other side has at least one. `RedBlack` speaks of the number of black elements
above each end of the tree; that number and the count below it have the same sum
everywhere. The refinement takes each step to a question, an answer, or a stutter
of `OrderedSet`; an answer is right because the elements that the search has not
looked at are on the far side of one that it has.

`SplayTreeProofs` proves `Apart`, `ClosestAtRoot` and `Implements` for any finite set
of elements. A tree is known here by the set of its elements (`TreeOf`), so that
lemmas can take one apart at its root and put it together again without naming
subtrees. The invariant says that the links are three trees in order, which lie
beside one another: the one below the root and the two that hang at `__node`
(`Parted`, for some sets of elements); that all that hangs at a side is on the way
not taken (`Beyond`); and that the larger elements of a removal wait below `__tmp`.
What the end of a part still links to is an element of some part, so that nothing
else is ever reached from the root, `__node` and `__tmp` (`AllReached`). For each of
the macros a lemma gives the parts after it: a link moves the root and what is
beyond it from the middle to the other side, a rotation changes no part, and
`SPLAY_ASSEMBLE` makes one tree of the three. That the root then is next to what was
searched follows from where the way ends: nothing is on that side of the root in
the middle part, and all elements of the outer part are beyond what is searched. The
refinement rests on the elements: every step of `SPLAY` keeps all of them, and each
step behind it adds or removes the one that was asked for.

Only model-checked: liveness and what depends on fairness, that is `Answered`,
`Released`, `Returns` and `ImplementsServer` in full. They are out of the prover's
reach. Every safety property that a run shows to hold is also proved.

## What is not modelled

* The response table: never called, and a table of constants.
* The build file and the page: no behaviour.
* libuv itself. Its headers but `tree.h` declare types, codes and functions without
  a body; what the program relies on is in guards and fairness.
* Failing memory allocation, everywhere; everything printed.
* `HttpRequest`: the lengths of lines, names, words and bodies and of the fixed
  buffers they are copied to, and the words of the request line. This is why the
  component is only partly modelled.
* `JsonParser`: the structures that the cleanups never free. `MembersRight` and
  `WellFormedSafe` except objects in arrays: parser.c:44 looks for their brace one
  token too far, the element is left without a type, and the model has the crash
  that the cleanup may then come to.
* A text of line feeds alone: `sscanf` reads through NULL (server.c:80). `Server`,
  `Workers` and `HttpRequest` have the step, the process is then down, and no
  property forbids it, since nothing in the repository says what should happen.
* More header lines than the array has elements (server.c:55): what the write past
  it may do is undefined. `HttpRequest` ends there; in `Server` and `Workers` the
  process goes down or the request is answered, and other memory is not touched.
  Nothing states a limit, so no property forbids it.
* The first lines of a body, of which only the last is kept (server.c:94), words that
  are prefixes of `true`, `false` and `null`, and the early end of a text whose
  unknown word happens to have the type of the end token (lexer.c:239): the models
  have them and the properties allow them, as nothing says what should happen.
* `RB_AUGMENT`, which is empty, the `RB_FOREACH` macros, which nothing uses, and
  `_lexerPeek`, which nothing calls.

## What could come next

1. `HttpRequest`: lengths of names, values and lines against the arrays.
2. `JsonParser`: the cleanups as walks of their own, with the allocations each
   value owns, and ownership of the literals between lexer and parser.
