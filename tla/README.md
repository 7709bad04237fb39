# A TLA+ model of MyWebSocket

MyWebSocket is a C++ HTTP and WebSocket server on libuv and http-parser. This
directory models its parts: the WebSocket frame parser and the frames that are
sent, the life of a WebSocket session, the life of an HTTP connection up to the
upgrade, the request that is filled and routed, the response, pipelined
requests and their answers, the lists of sessions of a server, the asynchronous
reading of files, and the dates of JSON web tokens. TLC checks the models on
small instances; TLAPS proves the safety properties of all of them for every value
of the constants.

## The system

Everything runs on the thread of one libuv loop. There is no parallelism: what
is hard is the *order* of the loop's callbacks and what happens *inside* one of
them, because a callback calls the application, and the application calls back
into the object that is calling it. Objects are kept alive by `shared_ptr`s and
reached through raw pointers (`client->data`, `timer->data`, `m_client`), so
the order decides whether a pointer still points to something.

| Component | State | Operations | Interacts with | What makes it correct |
|---|---|---|---|---|
| `websocket_parser` | status, `m_byteNeed`, continuation flag, mask index, the frame | `parse` | called by `WsSession::handleMessage`, calls `handleWsFrame` | the messages that were encoded come out, however reads cut them |
| `WsSession` | `readyState`, `m_client`, callbacks, pending `WriteCtx` | `connect`, `close`, `send`, `sendFile`, `recv_cb`, write callback | libuv, `WsServer`, the application | closed once, told once, never used after it is gone |
| `WsServer` | `m_wsSessions` | `onUpgrade`, push, remove | `HttpServer` (callback), `WsSession` | lists exactly the sessions that are not closed |
| `HttpServer::Session` | `m_isKeepAlive`, timer, http_parser, `m_req` | `recv_cb`, `handle_request`, `upgradeToWs`, timer | libuv, http-parser, `httpResp` | closed once, kept connections are timed, upgrade hands the handle over |
| `HttpServer` | `m_sessions`, router, callbacks | accept, `closeSession`, `upgradeSession` | `Session`, `WsServer` | owns every open connection |
| `httpResp` | status, headers, body, raw `m_client`, `onSent` | `send*`, `onWriteEnd` | `Session`, `FileReader` | answers the connection it was made for |
| `FileReader` | chain of `uv_fs` requests, buffers | `fileRead` | `httpResp`, `WsSession` | ends, in one of error and close |
| `httpRouter` | routes per method | `get`, `post`, `dispatch` | `Session` | takes the first route that matches, with its parameters |
| `httpReq` | url, headers, body, params, cached query | filled by the parser's callbacks, `query` | `Session`, the application | holds the request that was sent, and nothing of the one before |
| `JwtUtil` | none; the claims are in the token | `sign`, `verify` | application | no token is good for longer than it was to be |
| `ssl` | none | digests | application, `upgradeToWs` | pure functions |

libuv, http-parser and leptjson are vendored. Of libuv the models contain what
the server relies on: reads happen only between `uv_read_start` and
`uv_read_stop`; a write finishes at once or later, in order; `uv_close` cancels
what is queued and runs the write callbacks before the close callback; a timer
that is started fires unless it is stopped; `uv_write` does not copy what it is
given, and refuses a handle that is closing; `uv_fs_req_cleanup` is for requests that
are finished. Of http-parser: whether the bytes
are a request, a part of one or none, an upgrade, what a length of 0 does, and in
which order and in which parts, one of no byte among them, the strings of a request
are reported. Of leptjson: an integer is kept in an `int`. The map names the lines of
these libraries that the definitions stand for. Of jwt-cpp,
which is not in the repository: dates are whole seconds, a claim that is set
again replaces the one before, and a token is accepted from its `iat` to its `exp`.

`PROJECT.json` lists the components, the runs, the line-by-line map from
definitions to source, and the hazards: the places where this code is hard to
test.

## Modules

| Module | Models | Checked by | Proofs |
|---|---|---|---|
| `WsStreams` | what the bytes of a connection mean: the layout drawn in `websocket_parser.h`, and messages of frames | `MCWsParser` | used by `WsParserProofs` |
| `WsParser` | `websocket_parser.cpp` | `MCWsParser` | `WsParserProofs` |
| `WsSend` | `WsSession::inter_send` | `MCWsParser` | `WsParserProofs` |
| `WsReadBack` | the encoder and the decoder together: the streams that calls of `send` and `sendPong` write | `MCWsParser` | `WsParserProofs` |
| `WsSession` | `WebSocket.cpp`, `WsServer.cpp`: one session | `MCWsSession` | `WsSessionProofs` |
| `HttpSession` | `httpserver.cpp`: one connection | `MCHttpSession` | `HttpSessionProofs` |
| `Router`, `Request` | `httpRouter.cpp`, `httpReq.cpp`, the parser's callbacks in `httpserver.cpp` | `MCRequest` | `ApplicationProofs` |
| `Response` | `httpResp.cpp` | `MCResponse` | `ResponseProofs` |
| `OneAnswer` | what `Response` promises (abstract) | as a property of `Response` | its safety, in `ResponseProofs` |
| `Pipeline` | the requests of a connection and their answers, by number | `Pipeline` | `PipelineProofs` |
| `Exchange` | what `Pipeline` promises a client that waits (abstract) | as a property of `Pipeline` | its safety, in `PipelineProofs` |
| `Server` | both lists of sessions, several connections, the upgrade | `Server` | `ServerProofs` |
| `Registry` | what the lists promise (abstract) | as a property of `Server` | `ServerProofs` |
| `FileReader` | `FileReader.cpp` and the callbacks its users install | `FileReader` | `FileReaderProofs` |
| `FileResult` | what `FileReader` promises (abstract) | as a property of `FileReader` | its safety, in `FileReaderProofs` |
| `Jwt` | `jwt.cpp` | `MCJwt` | `ApplicationProofs` |

How they fit together: `HttpSession` and `WsSession` follow one connection through
every callback; `Pipeline` and `Response` open up what `HttpSession` only counts
(which answer belongs to which request, and what one answer goes through);
`Request` opens up what it takes as decided (keep-alive, the route); `Server` puts
several connections of both kinds side by side and takes from each only when it
comes, is upgraded and leaves.

Operators whose names begin with `M` directly before a definition are mutants:
the same definition with a plausible mistake in it. Each property is violated
when one of them takes the place of the original.

### WsParser

One action for each case of the `switch` in `parse()`, one byte per step; the
payload cases take as much of the chunk as `to_read` does. `Receive(n)` is a
call of `parse()` with the next `n` bytes. `PayloadComplete` is the end of
`case payload` with its fall through to `case complete`; with an empty payload
it uses up no byte, which is what `ch += to_read - 1` amounts to. The length is
a number: at most eight bytes are shifted in, so 64 bits are never exceeded.

The constant `Streams` is a set of byte streams together with what they mean, so
that the properties can compare what the application is given with what was sent.
`WsStreams` says what a description of a stream is and when it is true of the bytes
(`WellFormed`), without a parser: where each frame begins and how it is laid out
(`FramesFill`, `LaidOut`), which frames make up a message (`Fragmented`, after RFC 6455,
5.4), what its payload is, unmasked (`Content`, `Gathered`), and which frames end one
(`MessagesEnd`). The last frame may be cut short. `MCWsParser` builds its streams with
an encoder written from the same layout, independently of the parser, and
`ScriptsAssumption` has TLC check that every stream of a script is well-formed; this
ties the streams of the run to the hypothesis of the theorems.

A ping may come between the fragments of a message; the parser takes it for
another fragment. `disturbed` marks the messages of a stream that this concerns,
and `DeliveredInOrder` says that no other message suffers.

### WsSend and WsReadBack

`Header` is the frame header of `inter_send`, `SendText` and `SendPong` are what
`send`, `sendFile` and `sendPong` write; the length is a `size_t`, and `Shifted` is the
`>>` that takes it apart. `WsReadBack` describes what calls of these write:
`Written(s, calls)` says that the bytes of the stream `s` are those that `inter_send`
produces for the calls, one frame behind the other, and that its messages are the
calls. `MCWsParser` builds such streams from lists of payload lengths
(`SendsAssumption`: they are `Written`) and gives their bytes to `WsParser`, so that the
encoder and the decoder of the project are checked against each other.
Whole messages are small; around the borders of the length encoding only the
header is sent, and `HeaderUnderstood` says what the parser then waits for.

### WsSession

`todo` is the stack of what the running callback has still to do. A frame of a
chunk, a call of the application's callback, the `inter_close()` behind it, the
removal from the server's list and the second `delete` of the write callback are
entries of it. The application may act while one of its callbacks is on top of
the stack, or between events when it holds a pointer. The loop chooses its next
event when the stack is empty. So a callback is not atomic, exactly where the
code is not.

`Alive` says that some `shared_ptr` still keeps the session. A step of a
destroyed session, a use of the freed handle, a `uv_close` of a handle that is
closing and the double `delete` set `fault` and end the behaviour; what a
program does after undefined behaviour is not modelled. So does a file that could not
be opened or closed (`FileFailedStale`): `m_onError` has deleted the reader that
`FileReader::onOpen` or `onClose` then goes on with; after a failed read (`FileFailed`)
nothing comes behind `m_onError`.

### HttpSession

The same construction for an HTTP connection: `todo` holds the requests of the
chunk that is parsed, or the write callbacks of the round that runs. A request
is abstracted to what decides the connection's fate (keep-alive or not, the
last one or not, an upgrade or not). The handler answers at once, or keeps the
`httpRespPtr` and answers later (`pending`), which is also what `sendFile` does.
`Lock` is the `weak_ptr::lock` in `onSent`: the Session lives while it is in
`m_sessions`. After an upgrade the handle is `"handed"` over to a WsSession, which
may free it (`WsFrees`). `attached` says that a WsServer has registered its callback;
`OnUpgrade` may do that at any time, or never. The last `recv_cb` may have stopped the
timer for nothing: it was called with `nread = 0`, or the chunk held only empty lines,
which http_parser skips in front of a request (`"blank"`); `spurious` remembers either.

### Router and Request

`Router` has the pure part: a template is a sequence of parts, `ParsePathToRegex`
turns it into a pattern and the names of its parameters, `FirstMatch` and `Assigned`
are the two loops of `dispatch()`; `Picked` is what a loop keeps that takes some of the
elements of a sequence. An expression stands for the set of segments
it accepts. `Request` has the fields of `m_req` as variables and an action for each
callback of http_parser. A request may have any method of `Methods`; the router has
routes for two of them (`RouteMethods`). The constructor of `httpReq` does not set the
method, so it starts as any. `left` is what the parser has still to report of the
request, and `Report(cb, n)` hands over the next `n` pieces of a string, so a string
arrives whole or in parts. A read may also end directly behind the url, the name or
the value of a header: the parser sees that the string is over only when the next read
begins, where it has marked the string anew, and reports it once more with no byte
(http_parser.c:687-704). `onReqURL` and `onReqHeaderField` then assign nothing over
what they had; `onReqHeaderValue` inserts nothing, for the key is there. `cut` remembers
the ends of reads that do harm. A key's piece may be written in capitals, which
`OnReqHeaderField` lowers. The next request uses the same `httpReq`; the
application has a raw pointer to it and may call `query()` at any time after the
first handler was given it.

### Response and OneAnswer

One `httpResp`: the content, the FileReaders it has started (`m_reader` is an index
of them, as several calls of `sendFile` overwrite it), and the writes that libuv
has. The buffers of a write are not copied, so a write that has not left is
spoilt (`intact`) when `m_head` or `m_body` is written again or its reader deleted.
A FileReader opens, reads and closes its file, here by one buffer at a time, and may
fail in each: `ReadFailed` is the end of it, `OpenFailed` and `ReaderCloseFailed` use the
reader that `m_onError` has deleted, and the latter may send the error twice. A read that
is `short` is taken for the end (`ReadLast`). The README allows one send; the interface
allows more, and so does the model: `clearContent` and `onSent` at any time, and a
connection that closes before the answer. Past a use of freed memory (`fault`) this
model goes on as if the memory had kept its contents, so that what the properties say
of later states is what a program that survives shows.

`OneAnswer` is the promise to an application that keeps the rule: what leaves is
what was asked for, or for a file the error; nothing leaves after it; and the session is
told, once. The mapping gives it everything that left and the number of tellings, so a
second answer or a second telling is a step that `OneAnswer` does not have. Its `kept` is
mapped to `UsedAsMeant`, which takes in that no read was short: nothing is promised from
the step that breaks the rule. Its `broken` is `fault`: after a file that could not be
opened, what is done is as promised, but the program may not live to do it.

### Pipeline and Exchange

Requests and answers of a connection have numbers. A handler answers at once
(`Write` in `HandleRequest`) or keeps the response (`kept`) and answers later (`Respond`).
Nothing in `httpResp` remembers that it was sent, so that the application may send a
response again (`SendAgain`, at most `Resends` times): `again` counts these. An
answer is `queued`, then written (`wire`), and its `onSent` is `due` until the loop
calls it; there is one `m_isKeepAlive` and one timer for all of them. The next
request may be read at any time, before the answer to the one before, and before
its `onSent` (libuv reads a second time when the first read has filled the buffer,
and runs the callbacks of writes afterwards); `overlapped` remembers either, `gone`
that the peer has ended the connection. `Exchange` is what a client that stays and waits
may expect, its service and the end of a silent connection included; its `waits` is
mapped to `~overlapped /\ ~gone /\ again = 0`.

### Server and Registry

Each connection has a `place`, and the two lists are sequences, for `Removed` is the
find, swap and pop of `removeSession` and `removeWsSession`. `todo` is the stack of the
running callback, as in `WsSession`: in the callbacks of one session the application
may close any other, so removals nest. `reader`, `data` and `buffer` say whose
callbacks `uv_read_start` was given, whose object `client->data` is, and who owns
the receive buffer; the upgrade moves all three, in several steps, between which
the application is called. `Registry` says the lists are sets that a connection
enters, changes and leaves once.

### Jwt

Tokens with their claims `iat` and `exp`, a clock that ticks `Tick` times a second, and
the payloads that `verify()` has returned, which the application may sign again.
The claims of a payload have been parsed by leptjson, whose `set_integer` takes an `int`
(`SetInteger`; `Half` stands for 2^31): a date from 2038 on becomes an early one, and a
token that is signed anew with it is refused, never prolonged.
Each token remembers, as history, the first token of its line.

### FileReader and FileResult

`inflight` is the one `uv_fs` request that is at work; each callback of
`FileReader.cpp` is an action that ends it and starts the next, and each has a
second action for `req->result < 0`. `lens` is the `len` of every buffer in
`m_bufferVec`, from which `appendToBuff` hands over the first `m_buffUsed`. The
reader belongs to its users: `m_onError` deletes it in `httpResp` and in
`WsSession`, the write callback only in `httpResp`, and nobody when the write is
`refused`. A file has a `size`; a read may return less than the buffer holds before
its end (`short`), which to the code is the end of the file.
`m_onError` is not always the last thing that a callback does. `rest` is the callback
that has still to go on: `OnOpenRest` looks at and cleans up a request of the deleted
reader, `OnCloseRest` does that and calls `m_onClose` behind `m_onError`, or finds it no
longer set; each step of a reader that is deleted sets `fault`. Each of the three
requests has a life in `reqs` (unset, busy, finished, clean); `Started`, `Finished` and
`Cleaned` are what the callbacks do with them, in the order of the code, and a clean-up
outside that life is `misuse`.

`FileResult` says what a caller of `fileRead` relies on: the reading ends, in one call
of `m_onClose` or `m_onError`; only when the file would not close may `m_onClose` follow
`m_onError`; and the announced length is the length of what is handed over. `FileReader`
implements it under the mapping `Result`, which has every call that was made (`told`) and
adds up the buffers (`BytesOf`).

## Runs

| Run | Shows |
|---|---|
| `ws_parser_chunks` | Up to 3 frames (fragmented, masked and unmasked, 1-, 3- and 9-byte lengths, empty and oversize), up to 4 with pings between the fragments of a message, a pong and up to three texts as the server writes them, and the server's headers for lengths around 125, 2^8, 2^15, 2^16, 2^20, 2^24 and near 2^31; all cut into reads in every way. The application is given the messages in order and promptly; a ping inside a message damages that message and itself, and nothing else; the connection is refused exactly for an oversize frame; after a header the parser waits for exactly the payload |
| `ws_session_life` | Two reads of one or two frames of every kind, three application calls at every point, every outcome of every write: `OpenIsUsable`, `ClosedIsForgotten`, `FaultCauses`, and that a closing handle is deleted |
| `http_session_life` | Three reads of one to three inputs, pipelined requests, late answers, empty reads and empty lines, with and without WsServer: ownership, the timer, `UntimedIsUnfinished` (a connection that nothing will ever close has sent nothing, or nothing complete, or its last read brought nothing), the causes of faults, that kept connections end and closing handles are deleted (`KeptAliveEnds`) |
| `http_timer_handle` (violation) | The timer handle is not closed before the Session is destroyed |
| `file_reader_chain` | Files of 0 to 24 bytes in buffers of 4, every request failing or not, short reads, both users: completeness (`WholeUnlessShort`), lifetime of the buffers, what is left open or undeleted (`LeakCauses`), what is used after its deletion and which requests are cleaned up out of their life (`StaleCauses`), and the refinement of `FileResult`, its liveness included |
| `request_fill` | Two requests of one connection, cut anywhere, two routes: a handler has the whole body; url, method, headers and keep-alive as sent unless a read ended inside one of them, or directly behind the url or a name; the query of this url; and all parameters of its route but the last |
| `request_fragments` (violation) | A url or header that two reads bring is not joined, or is emptied when the first read ends directly behind it |
| `request_params` (violation) | The README's example finds no parameter |
| `response_use` | A response sent once or twice, at once or after a file that cannot be opened, read or closed or is read short, cleared, with a replaced `onSent`, to a connection that may close or be lost: an error carries nothing of the answer it replaces, memory errors, answers that are cut, readers that are not deleted and a session that is not told have only the causes the properties name, and `OneAnswer` is implemented |
| `pipeline` | Three requests, ahead of their answers or not, two responses sent again, and a peer that leaves at any time: an answer overtakes only one that was kept or is sent again, and is lost only when requests overlap, a response is sent again or the peer leaves; for a client that waits the connection is closed only when all is answered (`Exchange` is implemented) |
| `server_lists` | Four connections, closes nested in each other's callbacks: `ListsExact`, `ReadsOwn`, `Leaves`, and `Registry` is implemented |
| `jwt_time` | Tokens signed, verified and signed again while time passes: nothing outlives the first of its line, `maxAge_hours` holds, and no token ends early by the rounding or, while an `int` holds its `exp`, by the parsing |

**Bounds.** `WsParser`: payload lengths 0, 2 and 5 and a limit of 300, with one
message of that length and frames that announce one byte more (of which two bytes
are sent), reach every length relation that the code tells apart: empty,
shorter and longer than the mask key, at the limit and over it. Three frames are
enough for a fragmented message before or after another one, four for one with a
ping in any gap and a message behind it; a ping can only disturb the message it is
in. The encoder uses the extended lengths for small payloads too, which the parser
accepts. Of what the server writes, payloads of 0, 1 and 3 bytes come before a third
message, and one of 125, 126 and 300 alone, so that every form of the length is
followed by a whole payload.
`WsSession`: a fault takes one chunk or one write and at most two application
calls; two chunks of two frames and three calls leave room for a session that is
used, closed from inside a callback and used again. `HttpSession`: three reads
let a connection be kept, used again and closed, and pipelined pairs meet every
state of the timer. `FileReader`: `MaxBufs` full buffers of `BufSize` bytes and a
last one reach the empty file, the file that ends with a buffer and the one that
does not, with the vector of buffers growing several times. The proofs do not depend on any bound.
`Request`: what one request
leaves for the next needs two; five pieces are the longest string; two routes, so
that the second is reached past the first; a `PUT` request, for which the router has
no routes. `Response`: two sends are enough for the
second to meet every state of the first; a file of one buffer takes two reads, between
which its reader may be deleted and the first of which may be short. `Pipeline`: three requests allow two
pairs that overlap in different ways, two resends one of each of two responses or of
the same. `Server`:
swap-and-pop differs from a plain removal from three elements on; four
connections and two nested closes leave one that is not concerned. `Jwt`: two ticks
a second for the rounding, an hour of two seconds, a clock of nine ticks, over
which every token of the instance ends; an `int` of eight values, which the dates of the
instance outgrow.

**Deadlock** is not checked: a connection ends, and so does a program that meets
a fault.

**Fairness.** `WF(Run)`: a callback, once it has begun, goes on and returns, and
the application's callbacks return (the model lets the application make at most
`MaxCalls` calls). `WF(FinishClose)`: libuv runs the closing handles in every
iteration of its loop. `WF(TimerCb)`: a timer that is due fires; it assumes a
sensible value of `setKeepAliveTimeout`. `WF(Callback)` in `FileReader`: libuv's
thread pool finishes every file request, successfully or not, and calls back;
files are finite (`MaxBufs`). In `Response`, `WF(ReaderNext)` and `WF(WriteNext)`: libuv ends
what it was given, a write by writing it or, when the connection is lost, with
an error. In `Pipeline` the loop writes, calls `onSent`, fires the timer, and the
application answers what it has kept, which is the application's part of the
contract, without which no request is answered. In `Server`, a callback that runs
goes on (the application makes at most `MaxCalls` calls), and `CloseCb` runs.
Elsewhere nothing is assumed of the peer, of writes being finished, or of the
application ever answering.

## Findings

Three runs show a disagreement between the code and what is said of it:

1. **The timer handle is never closed** (`http_timer_handle`): libuv's handle
   list keeps a node in the freed Session.
2. **Strings that two reads bring are not joined** (`request_fragments`): a url is
   replaced by its last part, a header keeps the first part of its value. When a read
   ends directly behind the url or a name, the last part is empty.
3. **The last parameter of a route is never stored** (`request_params`), and so the
   only parameter of the README's example is not there.

The other places where the code does less than a caller would expect are named by
the properties of the passing runs, each of which says that this is the only way
in which it happens:

4. **Empty frames wait** (`DeliveredPromptly` excepts them). `complete` is reached only
   from inside the loop over bytes, so a frame with an empty payload is handled when
   the first byte of the *next* frame is looked at.
5. **A cancelled write closes twice** (`FaultCauses` of `WsSession`). The write callback
   calls `inter_close()`, which has no check of `readyState`; libuv asserts.
   With assertions off the same callback deletes its context twice.
6. **Upgrade without WsServer** (`FaultCauses` of `HttpSession`) reaches an assertion.
7. **A read that brings nothing stops the timer** (`UntimedIsUnfinished` excepts it by
   `spurious`): one of `nread = 0`, which http_parser takes for the end of the stream,
   or of empty lines only. Nothing starts the timer again, and the connection stays
   until the peer ends it.
8. **File requests are cleaned up unfinished** (`StaleCauses`): `m_read_req`
   while it closes the file, and `m_close_req`, which is never initialised, when
   a read fails.
9. **A file that cannot be opened or closed** makes the reader be used after its deletion
   (`StaleCauses`, `MemoryCauses`, `FaultCauses` of `WsSession`), and a failed close calls
   both callbacks (`FileResult` excepts it).
10. **A short read ends a file** (`WholeUnlessShort`, `AnswersAsked`): its first part is
   sent as the whole.
11. **A response sent again** is written again, and its `onSent` decides once more over
   the connection (`OrderCauses`, `LostCauses`).
12. **Dates from 2038 on** do not survive `verify()` and `sign()` (`UsableAtOnce`).

`FaultCauses` in both session modules is the positive side: it lists all causes
of faults, and the theorems show that there are no others. In `HttpSession` these
are an answer given after the connection ended (`httpResp` has the raw
`m_client`), a timer left running by an upgrade that was pipelined behind a
kept request, and the assertion. `StaleCauses` and `LeakCauses` do the same for
`FileReader`: a failed open or close uses the deleted reader, a failed read leaves the
file open, and these are the only ways. In the same manner `OrderCauses` and `LostCauses` (`Pipeline`),
`MemoryCauses`, `LeakCauses` and `ToldCauses` (`Response`), `WholeIsFaithful` (`Request`) and
`DeliveredInOrder` (`WsParser`) name everything that can go wrong, and the runs show
that nothing else does; for all of these there are theorems.

## Proofs

The theorems have the form `Spec => []P`, or `Spec => Abstract!Init /\ [][Abstract!Next]_vars`
for the safety of an abstract specification, or `Spec => [][A]_vars` for what no step
may do, without bounds on the constants. Each
module proves its own inductive invariant (`InitInv`, one lemma or step per action,
then the theorem), and the properties of the runs follow from it.

**Assumptions**, all evaluated by TLC on every run: the streams have the type of
`WsStreams`, `Xor` maps bytes to bytes, chunks are sequences of inputs of which one that
fails is the last (`ChunksAssumption`), bounds are natural numbers, a file buffer is not
empty, a second has at least one tick, an `int` has values and a missing claim is none
of them (`ClaimAssumption`), `expires_seconds` and `maxAge_hours` are integers,
and texts and files are different things with a size (`ContentsAssumption`); the strings
of a request and the parts of a template are sequences, a request has one of the
`Methods`, and a template is for one of the two methods that have routes
(`RequestsAssumption`, `TemplatesAssumption`). The three
theorems on what the parser delivers have the hypothesis `WellFormed(input)`: of bytes
that are no frames of RFC 6455 nothing is promised. `ScriptsAssumption` shows that every
script stream of `ws_parser_chunks` satisfies it. That the streams `inter_send` writes
satisfy it is proved (`WrittenWellFormed`). `SentIsReadBack` has two hypotheses of its own:
the stream is what the calls write (`Written`, which `SendsAssumption` shows of the streams
of the run), and no payload is over the limit of the parser or of `size_t` (`Sendable`).

**Recursion.** An induction theorem takes an operator as its parameter, which the
provers cannot instantiate. Where a definition is recursive (the sum of the buffers,
`Picked`, the frames of a stream, the headers of a request) the proofs argue by the
least counterexample instead: the set of places at which the claim fails is a set of
natural numbers, so it is empty or has a least member (`Least`), which the recursive
equation refutes.

* `WsParserProofs`: `ParserInv` is inductive together with `TypeOK`. `MaskAligned`
  alone is not: the index in `payload` is right because it was 0 when the header
  was left, and the key is complete because `maskKey` counts its bytes down
  (`Len(mask_key) + byteNeed = 4`).
  On top of it `StreamInv` says where the parser is in the stream: what it has not
  looked at is the rest of the bytes (`Rest`), it is in frame `k`, at the byte its status
  and `m_byteNeed` say (`Place(k)`), the messages that end before frame `k` are delivered
  (`Past(k)`), and what it has stored of the current message is the payload before this
  frame and the bytes of it so far, unmasked (`Stored(k, p)`). There is a lemma for every
  case of the `switch`. No induction over the stream is needed: the frames of a
  stream carry what is known of their message, so that the step from one frame to
  the next is local. `InOrder`, `Promptly` and `OversizeOnly` hold for any number of
  frames, any lengths and every way to cut the bytes.
  `HeadersUnderstood` is `HeaderUnderstood` for every length that a `size_t` holds: the
  bytes of `Header`, put together as `payloadLen` does, are the length again (the lemmas
  on `Shifted`). `SentIsReadBack` is the round trip: the parser gives the application the
  calls of `send` and `sendPong` of the other side, in their order, unchanged and without an error, for
  every number of calls and every way to cut the bytes; it follows from `InOrder` and
  `OversizeOnly` once the stream is shown to be well-formed.
* `WsSessionProofs`: `SessionInv` adds to `OpenIsUsable` and `FaultCauses` how the
  stack and the state agree: the removal from the server's list is pending while
  a closed session is still listed (`CloseInv`), `connect()` finds an open handle
  (`ConnectInv`), and every pending `inter_close()` belongs to a `recv_cb`, to a
  failed write or to an OPEN session (`StackInv`). Lemmas about replacing the top
  of a stack carry the induction; there is one step per action. From the invariant
  before and after a step follows `ClosedForGood`: what no step does to a session that
  was closed (`StaysClosed`).
* `HttpSessionProofs`: `HttpInv` adds to `OwnedOnce`, `TimerOwned` and `FaultCauses`
  that input is only parsed while the Session is registered and its timer is
  stopped (`StackInv`; otherwise `handle_request` could clear `m_isKeepAlive` under
  a running timer), that a handle is handed over only to a WsServer
  (`HandedInv`), and that a kept connection is timed or owes an answer
  (`AnswerInv`), from which `KeptAliveIsTimed` follows. `UntimedInv` extends
  `UntimedIsUnfinished` to the middle of a callback: a registered connection is
  `Unfinished` or `Attended`, that is timed, or an answer or an `onSent` is on its way,
  or there is input left to parse that brings one. The case of empty lines was
  found by this proof. `EndedForGood` says that no step writes into a Session whose
  connection has ended (`Untouched`); what keeps the parser away is that input is only
  on the stack of a registered Session (`InputIsOwned`).
* `FileReaderProofs`: `ReaderInv` is inductive together with `TypeOK`. `LengthInv` says
  that during the reads all buffers are full-sized and the first `m_buffUsed` are
  filled, which makes the last, cut buffer come out right; `ChainInv` says that
  nobody was told, nothing failed and nothing is written while a request is at
  work, which `LeakCauses` and `BuffersOutliveWrite` need, and which of the requests is busy
  or finished (for `StaleCauses`: then the clean-ups of a callback come out as they do);
  `ToldInv` says which callbacks were called for which result, and that a callback which
  has still to go on finds its reader deleted. `(b + 1) * BufSize` is a
  lemma of its own. `FileAlwaysWhole` follows from the buffers adding up to what
  was read, and `LeakHasCauses` from who has been told. `EndsOnce` is the safety of
  `FileResult` under the mapping `Result` that the run checks; that the sum of the buffers
  is what `LengthInv` says (all but the last are full) is a least counterexample.
* `ServerProofs`: the central lemma, `RemovedFacts`, says that find, swap and pop takes
  exactly one element out of a list without repetitions. `ListsExact` and `ReadsOwn` need
  `StackInv`: of the nested callbacks at most the next step closes a connection,
  and each connection joins once and is removed once, at a time when its place
  allows it; and `BufferInv`: the receive buffer goes with the session. `Refinement` is
  the whole of `Registry`, which has no liveness.
* `PipelineProofs`: the invariant has two parts. `Loose` holds always: only what was asked
  is answered, and what is in front was asked for before or is `late` (`InTurn`, which
  speaks of written and queued answers as one sequence), which gives `OrderCauses`. `Strict`
  holds until a response is sent again: each answer is in one place (`Apart`), and a client
  that waits has at most one request in the works (`OneAtATime`), which gives `LostCauses`
  and `SafeExchange`, the safety of `Exchange`. The two cannot be one: a resent answer is in
  two places. `EachAnswerOnce`: a step writes one answer at the end of what was written, or
  none, and before a resend one that was neither written nor lost (`WritesOnce`).
* `ResponseProofs`: `Basics` holds in every use of a response, misuse included; `Once`
  holds when one answer is sent and no close has failed: freed memory was used by `onOpen`
  only (`FaultIsOpen`), there is at most one reader, of the file that was asked for
  (`OneReader`), which was read to its end if no read was short (`ReadWhole`), `m_sendType`
  tells what `onWriteEnd` has to delete (`TypeTells`), the answer is unsent, with libuv or
  ended (`Phases`), and everything that libuv has or that left is right (`AllRight`). From
  it follow `MemoryCauses`, `LeakCauses`, `AnswersAsked`, `ToldCauses` and `SafeAnswer`, the
  safety of `OneAnswer`.
* `ApplicationProofs`, the request: `RequestInv` says how far the parser has come and
  what it has filled. What it has still to report is the end of what was sent, its first
  string perhaps shortened (`LeftInv`); the body is what came of it (`BodyInv`); as long
  as no read has ended where `cut` counts it, url, method and the first value of every key
  reported so far are those sent (`FieldsInv`), which depends on `m_tmpKey` being the key
  of the header whose value is next; a value whose string is all there, but for the call
  with no byte, counts as reported (`ValueOver`, `Given`), which is why a read may end behind
  it; keep-alive is that of these headers (`KeepInv`). The
  routes are those of templates (`RoutesInv`), and a handler's route is one that the path
  matches (`MatchInv`). `WholeIsFaithful`, `QueryFresh` and `ParamsAllButLast` follow for every
  set of requests, templates and cuts. What `query()` returns is a fold over the url; the
  proof of `QueryFresh` does not open it, as only which url it is applied to matters.
  `ParamsAllButLast` asks that names and groups agree in number; `NamedParamsAreOwn` shows
  that they do for every template whose groups all have a name.
* `ApplicationProofs`, the tokens: every token and every payload has the dates of the
  first token of its line, rounded down to seconds, or earlier ones (`Dated`), and the same
  `exp` as long as an `int` holds it (`Exact`, `Fits`); the rest is arithmetic with lemmas on
  rounding and on what an `int` makes of a date (`IntOfDate`).

The type invariants of the first four modules are theorems too (`TypeCorrect`,
`SessionTypeCorrect`, `HttpTypeCorrect`, `ReaderTypeCorrect`). Those
of `Request`, `Response`, `Pipeline` and `Server` are conjuncts of `WholeIsFaithful`,
`MemoryCauses`, `OrderCauses` and `ListsExact`.

Every safety property of the passing runs has a theorem. Only model-checked are the
liveness properties `ClosingCompletes`, `KeptAliveEnds` and `Leaves`, and those of
`FileResult`, `OneAnswer` and `Exchange`: they need fairness, and with it `ENABLED`, which
this version of the prover does not handle.

## Not modelled

* The text of HTTP messages: status lines, MIME types, the format of headers. The
  models keep which headers there are; that `Content-Length` is the length of what the
  buffers hold is `FileResult`'s for files, and one expression of `send()` for strings.
* Server start-up (`bind`, `listen`, `start`) and `set_ip`: straight-line calls of libuv
  without state of their own.
* The size and growth of the receive buffer: `Server` follows who owns it.
* The value of the keep-alive timeout: the models know only that the timer is
  armed and fires.
* What an expression of a route matches inside a segment, or across segments:
  `std::regex` is taken as a set of segments.
* The content of files and of JSON; `transform` in `jwt.cpp`, which copies values
  between two libraries' types; digests and signatures, which are OpenSSL's;
  of leptjson all but the width of its integers.
* The example programs and the tests; their calls are among those the models
  allow the application.

## What could be added

* Liveness, when the prover supports it: the invariants that such proofs begin with
  (`StackInv` of the session modules, `OneAtATime` of `Pipeline`, `Phases` of `Response`) are
  there.
* A model of the handle shared by an upgraded `HttpSession` and its `WsSession` with both
  sets of callbacks in full; `Server` has the hand-over, and each session module the
  rest of its side.
* If the last parameter of a route, the strings that two reads bring or the timer
  handle are mended in the code, the three runs that show a violation are to be turned
  into invariants: `ParamsAllButLast` then speaks of all parameters, and `FieldsInv` needs no
  exception.
