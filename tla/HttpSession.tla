---------------------------- MODULE HttpSession ----------------------------
(***************************************************************************)
(* One connection of HttpServer (src/src/core/httpserver.cpp): from the    *)
(* accept to the close of its handle, or to the moment WsServer takes it   *)
(* over.  The module holds the Session and its entry in m_sessions, the    *)
(* keep-alive timer, the httpResp objects and their writes                 *)
(* (src/src/core/httpResp.cpp), and the libuv stream.                      *)
(*                                                                         *)
(* As in WsSession, todo is what the running callback of the event loop    *)
(* has still to do, and the loop picks an event when it is empty.  The     *)
(* application sees a request and answers it once, at once or later; it    *)
(* has no way to close a Session.                                          *)
(***************************************************************************)
EXTENDS Integers, Sequences

CONSTANTS
  Chunks,       \* what one read may bring: sequences of Inputs
  MaxChunks     \* bound: reads of one connection

(* Complete requests, by what http_parser and needKeepConnection make of    *)
(* their headers: "plain" is HTTP/1.1 without a Connection header, "close"  *)
(* ends the parser's work, "upgradeKeep" is an upgrade (the method CONNECT  *)
(* is one) whose first Connection header is keep-alive.                     *)
Requests == {"keep", "plain", "close", "upgrade", "upgradeKeep"}

(* Input that brings nothing: the empty lines that http_parser skips before *)
(* a request, and the read_cb with nread = 0 after a read that filled the   *)
(* buffer.                                                                  *)
Nothing == {"blank", "again"}

(* Other input: the first part of a request; bytes that are no request.     *)
Inputs == Requests \cup {"partial", "bad"} \cup Nothing

Upgrades == {"upgrade", "upgradeKeep"}

ASSUME ChunksAssumption ==
  \A c \in Chunks : /\ c \in Seq(Inputs)
                    /\ \A i \in 1..(Len(c) - 1) : c[i] # "again"

ASSUME BoundsAssumption == MaxChunks \in Nat

VARIABLES
  registered,  \* the Session is in m_sessions: the only lasting reference
  client,      \* *m_client: "none" before the accept, "open", "closing",
               \* "freed", or "handed" over to a WsSession
  reading,     \* uv_read_start is in force for this Session
  keepAlive,   \* m_isKeepAlive
  timer,       \* m_keepAliveTimer: "none", "stopped", "armed", "closed"
  timerData,   \* m_keepAliveTimer.data is the Session, not nullptr
  parser,      \* m_parser: "start", "partial", "dead", "error"
  pending,     \* httpResp objects whose answer is still to be sent
  queued,      \* responses in libuv's write queue, by kind
  done,        \* responses written, whose callback is due
  todo,        \* what the running callback has still to do
  fault,       \* the assertion or dangling reference met, or "none"
  attached,    \* a WsServer is attached: onUpgradeCb is set
  spurious,    \* history: the latest read brought nothing
  chunks       \* counter for MaxChunks

owner  == <<registered, keepAlive, timer, timerData>>
stream == <<client, reading>>
writes == <<pending, queued, done>>
aside  == <<attached, spurious, chunks>>
vars   == <<owner, stream, parser, writes, todo, fault, aside>>

(* A response carries the onSent callback of initResp or of upgradeToWs.    *)
Responses == {"resp", "upgradeResp"}

Steps == Inputs \cup Responses \cup {"closeCb"}

Init ==
  /\ registered = FALSE
  /\ client = "none"
  /\ reading = FALSE
  /\ keepAlive = FALSE
  /\ timer = "none"
  /\ timerData = FALSE
  /\ parser = "start"
  /\ pending = 0
  /\ queued = <<>>
  /\ done = <<>>
  /\ todo = <<>>
  /\ fault = "none"
  /\ attached = FALSE
  /\ spurious = FALSE
  /\ chunks = 0

Idle == todo = <<>> /\ fault = "none"

Doing(step) == fault = "none" /\ todo # <<>> /\ Head(todo) = step

Fail(what) == /\ fault' = what
              /\ UNCHANGED <<owner, stream, parser, writes, todo, aside>>

-----------------------------------------------------------------------------
(* HttpServer::onUpgrade: a WsServer is attached, before the server starts  *)
(* or while it runs.                                                        *)
OnUpgrade ==
  /\ Idle
  /\ ~attached
  /\ attached' = TRUE
  /\ UNCHANGED <<owner, stream, parser, writes, todo, fault, spurious, chunks>>

(* inter_on_connect                                                         *)

(* The constructor of Session: the timer is initialised, not started.       *)
NewSession ==
  /\ timer' = "stopped"
  /\ timerData' = TRUE
  /\ UNCHANGED keepAlive

(* The Session enters m_sessions, and reading begins.                       *)
HandleConnect ==
  /\ NewSession
  /\ registered' = TRUE
  /\ reading' = TRUE

Accept ==
  /\ Idle
  /\ client = "none"
  /\ client' = "open"
  /\ HandleConnect
  /\ UNCHANGED <<parser, writes, todo, fault, aside>>

(* uv_accept fails: the handle is closed again, there is no Session.        *)
AcceptFailed ==
  /\ Idle
  /\ client = "none"
  /\ client' = "closing"
  /\ UNCHANGED <<owner, reading, parser, writes, todo, fault, aside>>

-----------------------------------------------------------------------------
(* The keep-alive timer                                                     *)

(* The data that stopKeepAliveTimer cleared is not set again.               *)
MStartKeepAliveTimer ==
  /\ timer' = "armed"
  /\ keepAlive' = TRUE
  /\ UNCHANGED timerData

StartKeepAliveTimer ==
  /\ timerData' = TRUE
  /\ timer' = "armed"
  /\ keepAlive' = TRUE

(* m_isKeepAlive survives.                                                  *)
MStopKeepAliveTimer ==
  /\ timerData' = FALSE
  /\ timer' = "stopped"
  /\ UNCHANGED keepAlive

StopKeepAliveTimer ==
  /\ keepAlive' = FALSE
  /\ timerData' = FALSE
  /\ timer' = "stopped"

(* recv_cb, before it parses.                                               *)
StopIfKeptAlive ==
  IF keepAlive THEN StopKeepAliveTimer
               ELSE UNCHANGED <<keepAlive, timer, timerData>>

(* removeSession is forgotten.                                              *)
MCloseSession(isUpgrade) ==
  /\ reading' = FALSE
  /\ client' = IF isUpgrade THEN "handed" ELSE "closing"
  /\ UNCHANGED registered

(* removeSession drops the only lasting reference: the Session is destroyed *)
(* when the callback returns, with the timer handle in it.                  *)
RemoveSession == registered' = FALSE

(* The timer handle is not closed.                                          *)
CloseSession(isUpgrade) ==
  /\ reading' = FALSE
  /\ client' = IF isUpgrade THEN "handed" ELSE "closing"
  /\ RemoveSession

-----------------------------------------------------------------------------
(* recv_cb                                                                  *)

Recv(chunk) ==
  /\ Idle
  /\ reading
  /\ chunks < MaxChunks
  /\ chunks' = chunks + 1
  /\ spurious' = \A i \in 1..Len(chunk) : chunk[i] \in Nothing
  /\ StopIfKeptAlive
  /\ todo' = chunk
  /\ UNCHANGED <<registered, stream, parser, writes, fault, attached>>

(* The timer is left running.                                               *)
MRecvEnd ==
  /\ Idle
  /\ reading
  /\ CloseSession(FALSE)
  /\ UNCHANGED <<keepAlive, timer, timerData, parser, writes, todo, fault,
                 aside>>

(* nread < 0                                                                *)
RecvEnd ==
  /\ Idle
  /\ reading
  /\ StopKeepAliveTimer
  /\ CloseSession(FALSE)
  /\ UNCHANGED <<parser, writes, todo, fault, aside>>

(* What is left of a chunk when http_parser_execute returns early: a        *)
(* further call of recv_cb, if there is one.                                *)
Skipped == IF todo[Len(todo)] = "again" THEN <<"again">> ELSE <<>>

Parsing(what) == Doing(what) /\ parser \in {"start", "partial"}

Partial ==
  /\ Parsing("partial")
  /\ parser' = "partial"
  /\ todo' = Tail(todo)
  /\ UNCHANGED <<owner, stream, writes, fault, aside>>

(* Bytes that are no request, or any after the last request: the error is   *)
(* logged, and the connection stays as it is.                               *)
ParseError ==
  /\ \/ Parsing("bad")
     \/ parser = "dead" /\ \E what \in Inputs \ Nothing : Doing(what)
     \/ parser = "error" /\ \E what \in Inputs \ {"again"} : Doing(what)
  /\ parser' = "error"
  /\ todo' = Skipped
  /\ UNCHANGED <<owner, stream, writes, fault, aside>>

(* The empty lines are skipped.                                             *)
Blank ==
  /\ Doing("blank")
  /\ parser # "error"
  /\ todo' = Tail(todo)
  /\ UNCHANGED <<owner, stream, parser, writes, fault, aside>>

(* nread = 0: the timer is stopped as for any input, and http_parser takes  *)
(* a length of 0 for the end of the stream.                                 *)
Again ==
  /\ Doing("again")
  /\ StopIfKeptAlive
  /\ parser' = IF parser = "partial" THEN "error" ELSE parser
  /\ todo' = Tail(todo)
  /\ UNCHANGED <<registered, stream, writes, fault, aside>>

-----------------------------------------------------------------------------
(* handle_request and httpResp::send                                        *)

(* uv_write of a response: at once ("now") when nothing is queued before    *)
(* it, or left to the loop.                                                 *)
Write(kind, r) ==
  IF r = "now" /\ queued = <<>>
  THEN done' = Append(done, kind) /\ UNCHANGED queued
  ELSE queued' = Append(queued, kind) /\ UNCHANGED done

NeedKeepConnection(req) == req \in {"keep", "upgradeKeep"}

(* A handler of the application, or handle_errReq: it answers at once, or   *)
(* later, when the file is read or when it pleases, by the httpRespPtr.     *)
Answer(r) ==
  \/ Write("resp", r) /\ UNCHANGED pending
  \/ r = "later" /\ pending' = pending + 1 /\ UNCHANGED <<queued, done>>

HandleRequest(req, r) ==
  /\ Parsing(req)
  /\ req \notin Upgrades
  /\ keepAlive' = NeedKeepConnection(req)
  /\ Answer(r)
  /\ parser' = IF req = "close" THEN "dead" ELSE "start"
  /\ todo' = Tail(todo)
  /\ UNCHANGED <<registered, timer, timerData, stream, fault, aside>>

(* upgradeToWs.  http_parser returns after an upgrade.                      *)
UpgradeToWs(req, r) ==
  /\ Parsing(req)
  /\ req \in Upgrades
  /\ keepAlive' = NeedKeepConnection(req)
  /\ Write("upgradeResp", r)
  /\ parser' = "start"
  /\ todo' = Skipped
  /\ UNCHANGED <<registered, timer, timerData, stream, pending, fault, aside>>

(* The answer that was kept: the httpResp has only the raw m_client.  When  *)
(* the handle is closing, uv_write fails and onSent is never called; when   *)
(* it is handed over, the answer goes into the WebSocket stream.            *)
Respond(r) ==
  /\ Idle
  /\ pending > 0
  /\ pending' = pending - 1
  /\ \/ client = "open" /\ Write("resp", r) /\ UNCHANGED fault
     \/ client = "closing" /\ UNCHANGED <<queued, done, fault>>
     \/ /\ client \in {"handed", "freed"}
        /\ fault' = IF client = "freed" THEN "stale_client" ELSE "misdirected"
        /\ UNCHANGED <<queued, done>>
  /\ UNCHANGED <<owner, stream, parser, todo, aside>>

-----------------------------------------------------------------------------
(* The loop's side of the stream                                            *)

WriteDone ==
  /\ Idle
  /\ client \in {"open", "handed"}
  /\ queued # <<>>
  /\ queued' = Tail(queued)
  /\ done' = Append(done, Head(queued))
  /\ UNCHANGED <<owner, stream, parser, pending, todo, fault, aside>>

RunWriteCallbacks ==
  /\ Idle
  /\ client \in {"open", "handed"}
  /\ done # <<>>
  /\ todo' = done
  /\ done' = <<>>
  /\ UNCHANGED <<owner, stream, parser, pending, queued, fault, aside>>

(* uv__finish_close: the queue is cancelled; onWriteEnd does not look at    *)
(* the status.                                                              *)
FinishClose ==
  /\ Idle
  /\ client = "closing"
  /\ todo' = done \o queued \o <<"closeCb">>
  /\ queued' = <<>>
  /\ done' = <<>>
  /\ UNCHANGED <<owner, stream, parser, pending, fault, aside>>

CloseCb ==
  /\ Doing("closeCb")
  /\ client' = "freed"
  /\ todo' = Tail(todo)
  /\ UNCHANGED <<owner, reading, parser, writes, fault, aside>>

(* onSent works on a Session that may be gone.                              *)
MLock == TRUE

(* weak_ptr::lock in onSent: the Session is still there.                    *)
Lock == registered

(* onWriteEnd of a response, with the onSent of initResp.                   *)
OnSentKeep ==
  /\ Doing("resp")
  /\ Lock
  /\ keepAlive
  /\ StartKeepAliveTimer
  /\ todo' = Tail(todo)
  /\ UNCHANGED <<registered, stream, parser, writes, fault, aside>>

(* A connection that is not kept is not closed.                             *)
MOnSentClose ==
  /\ Doing("resp")
  /\ Lock
  /\ ~keepAlive
  /\ todo' = Tail(todo)
  /\ UNCHANGED <<owner, stream, parser, writes, fault, aside>>

OnSentClose ==
  /\ Doing("resp")
  /\ Lock
  /\ ~keepAlive
  /\ IF client = "closing" \/ client = "freed"
     THEN Fail(IF client = "freed" THEN "stale_client" ELSE "uv_close_assert")
     ELSE /\ CloseSession(FALSE)
          /\ todo' = Tail(todo)
          /\ UNCHANGED <<keepAlive, timer, timerData, parser, writes, fault,
                         aside>>

(* The onSent of upgradeToWs: upgradeSession, and WsServer::onUpgrade.      *)
OnSentUpgrade ==
  /\ Doing("upgradeResp")
  /\ Lock
  /\ attached
  /\ CloseSession(TRUE)
  /\ todo' = Tail(todo)
  /\ UNCHANGED <<keepAlive, timer, timerData, parser, writes, fault, aside>>

(* assert(onUpgradeCb != nullptr)                                           *)
OnSentNoUpgrade ==
  /\ Doing("upgradeResp")
  /\ Lock
  /\ ~attached
  /\ Fail("upgrade_assert")

OnSentGone ==
  /\ \E kind \in Responses : Doing(kind)
  /\ ~Lock
  /\ todo' = Tail(todo)
  /\ UNCHANGED <<owner, stream, parser, writes, fault, aside>>

(* keepAliveTimerCb.  libuv has stopped the timer before the call.          *)
TimerCb ==
  /\ Idle
  /\ timer = "armed"
  /\ registered
  /\ timer' = "stopped"
  /\ IF timerData THEN CloseSession(FALSE)
                  ELSE UNCHANGED <<registered, stream>>
  /\ UNCHANGED <<keepAlive, timerData, parser, writes, todo, fault, aside>>

(* The timer was still armed when the Session was destroyed.                *)
TimerCbStale ==
  /\ Idle
  /\ timer = "armed"
  /\ ~registered
  /\ Fail("stale_session")

(* The WsSession that took over is closed, and its handle deleted.          *)
WsFrees ==
  /\ Idle
  /\ client = "handed"
  /\ client' = "freed"
  /\ queued' = <<>>
  /\ done' = <<>>
  /\ UNCHANGED <<owner, reading, parser, pending, todo, fault, aside>>

-----------------------------------------------------------------------------
When == {"now", "later"}

Run ==
  \/ Partial \/ ParseError \/ Blank \/ Again
  \/ \E req \in Requests, r \in When : HandleRequest(req, r)
  \/ \E req \in Requests, r \in When : UpgradeToWs(req, r)
  \/ OnSentKeep \/ OnSentClose \/ OnSentUpgrade \/ OnSentNoUpgrade \/ OnSentGone
  \/ CloseCb

Event ==
  \/ OnUpgrade
  \/ Accept \/ AcceptFailed
  \/ \E chunk \in Chunks : Recv(chunk)
  \/ RecvEnd
  \/ \E r \in When : Respond(r)
  \/ WriteDone \/ RunWriteCallbacks \/ FinishClose
  \/ TimerCb \/ TimerCbStale
  \/ WsFrees

Next == Run \/ Event

(* A callback, once started, goes on; the loop gets to the handles that are *)
(* closing and to the timers that are due.                                  *)
Fairness == WF_vars(Run) /\ WF_vars(FinishClose) /\ WF_vars(TimerCb)

Spec == Init /\ [][Next]_vars /\ Fairness

-----------------------------------------------------------------------------
(* Properties                                                               *)

Faults == {"none", "uv_close_assert", "upgrade_assert", "stale_client",
           "stale_session", "misdirected"}

(* Every variable keeps its type; in particular a response is sent for a    *)
(* request that waits for one: pending is never negative.                   *)
TypeOK ==
  /\ registered \in BOOLEAN
  /\ client \in {"none", "open", "closing", "freed", "handed"}
  /\ reading \in BOOLEAN
  /\ keepAlive \in BOOLEAN
  /\ timer \in {"none", "stopped", "armed", "closed"}
  /\ timerData \in BOOLEAN
  /\ parser \in {"start", "partial", "dead", "error"}
  /\ pending \in Nat
  /\ queued \in Seq(Responses)
  /\ done \in Seq(Responses)
  /\ todo \in Seq(Steps)
  /\ fault \in Faults
  /\ attached \in BOOLEAN
  /\ spurious \in BOOLEAN
  /\ chunks \in 0..MaxChunks

(* The list m_sessions, the state of the handle and the read in force agree *)
(* whatever ends the connection (the peer, a sent response, the timer, an   *)
(* upgrade): recv_cb, which takes the Session from client->data, is called  *)
(* only while m_sessions keeps that Session alive.                          *)
OwnedOnce ==
  /\ registered <=> client = "open"
  /\ reading <=> registered

(* The keep-alive timer runs only for a connection that m_isKeepAlive says  *)
(* is kept, and no close leaves it running.  Only an upgrade, which does    *)
(* not stop it, does.                                                       *)
TimerOwned ==
  timer = "armed" =>
    /\ keepAlive
    /\ registered \/ (attached /\ client \in {"handed", "freed"})

(* A connection that m_isKeepAlive says is kept, and that has nothing left  *)
(* to answer or to send, has its timer running: it cannot stay for ever.    *)
KeptAliveIsTimed ==
  /\ Idle /\ registered /\ keepAlive
  /\ pending = 0 /\ queued = <<>> /\ done = <<>>
  => timer = "armed"

(* The connections that only the peer can end: every other one has an       *)
(* answer under way or its timer running.  They sent nothing yet, or a part *)
(* of a request, or what is no request, or the last recv_cb stopped the     *)
(* timer for nread = 0 or for empty lines; so neither a request whose       *)
(* header came in late nor one answered while the next came in leaves a     *)
(* connection behind.                                                       *)
UntimedIsUnfinished ==
  /\ Idle /\ registered /\ timer # "armed"
  /\ pending = 0 /\ queued = <<>> /\ done = <<>>
  => chunks = 0 \/ parser \in {"partial", "error"} \/ spurious

(* What the unguarded pointers allow, and only that.  The handle is never   *)
(* closed twice, though the peer, the timer and every sent response may     *)
(* each close it.  It is used after its deletion only by an answer sent     *)
(* after the connection ended.  A Session is used after its destruction     *)
(* only by a timer that an upgrade left running, and upgradeSession fails   *)
(* only in a server to which no WsServer was attached.                      *)
FaultCauses ==
  /\ fault # "uv_close_assert"
  /\ fault = "stale_client" => client = "freed" /\ ~registered
  /\ fault = "misdirected" => client = "handed" /\ attached
  /\ fault = "stale_session" =>
       attached /\ keepAlive /\ client \in {"handed", "freed"}
  /\ fault = "upgrade_assert" => ~attached

(* What a callback of the loop may find when it starts and while it runs:   *)
(* input is parsed only while the Session is registered and its timer is    *)
(* not running, and never together with write callbacks; the close callback *)
(* is the last of its round, on a handle that is closing.                   *)
StackInv ==
  /\ \/ todo \in Seq(Inputs) /\ registered /\ timer # "armed"
     \/ todo \in Seq(Responses \cup {"closeCb"})
  /\ \A i \in 1..Len(todo) :
       todo[i] = "closeCb" => i = Len(todo) /\ client = "closing"

(* A handle that is handed over was handed over to a WsServer.              *)
HandedInv == client = "handed" => attached

(* A kept connection is timed, or an answer that will start the timer is    *)
(* still to be given, to be sent or to be told about; a running timer has   *)
(* its Session; and a connection is not kept before it is accepted.         *)
AnswerInv ==
  /\ registered /\ keepAlive =>
       \/ timer = "armed"
       \/ pending > 0 \/ queued # <<>> \/ done # <<>>
       \/ todo # <<>> /\ Head(todo) \in Responses
  /\ timer = "armed" => timerData
  /\ client = "none" => ~keepAlive

(* The inductive invariant of HttpSessionProofs.                            *)
HttpInv ==
  OwnedOnce /\ TimerOwned /\ FaultCauses /\ StackInv /\ HandedInv /\ AnswerInv

(* A connection whose timer was started is closed and its handle deleted,   *)
(* unless the peer is heard from again or the program meets a fault:        *)
(* startKeepAliveTimer restores the data that keepAliveTimerCb looks at.    *)
(* So is every handle that is closing: the callbacks of the cancelled       *)
(* responses that run before the close callback do not stop it.             *)
KeptAliveEnds ==
  /\ \A n \in 0..MaxChunks :
       (timer = "armed" /\ chunks = n)
         ~> (client \in {"freed", "handed"} \/ chunks > n \/ fault # "none")
  /\ client = "closing" ~> (client = "freed" \/ fault # "none")

-----------------------------------------------------------------------------
(* A statement of the repository that the code does not keep                *)

(* libuv's handle.rst:145 on uv_close: "This MUST be called on each handle  *)
(* before memory is released."  The Session, with m_keepAliveTimer in it,   *)
(* is destroyed when it has left m_sessions and its callback has returned.  *)
TimerClosedFirst ==
  ~registered /\ todo = <<>> => timer \in {"none", "closed"}
=============================================================================
