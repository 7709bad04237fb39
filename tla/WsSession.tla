----------------------------- MODULE WsSession -----------------------------
(***************************************************************************)
(* The life of one WebSocket connection: WsSession                         *)
(* (src/src/core/WebSocket.cpp), its entry in WsServer::m_wsSessions, the  *)
(* libuv stream m_client with its write queue, and the application's       *)
(* callbacks.                                                              *)
(*                                                                         *)
(* Everything runs on the thread of one event loop.  A callback of the     *)
(* loop runs to completion, but it is not atomic: it calls the             *)
(* application, which calls send(), close() and sendFile() back.  The      *)
(* variable todo is what the running callback has still to do, innermost   *)
(* first; the loop picks its next event when todo is empty.                *)
(*                                                                         *)
(* The program's assertions and its uses of deleted memory end the model:  *)
(* fault says which one was met, and no action follows it.                 *)
(***************************************************************************)
EXTENDS Integers, Sequences, SequencesExt

CONSTANTS
  Chunks,     \* what one read may bring: sequences of FrameKinds
  MaxChunks,  \* bound: reads of one connection
  MaxCalls    \* bound: calls the application makes

(* What the parser makes of the bytes of one read: messages of each kind    *)
(* handleWsFrame tells apart, and at the end perhaps a frame with which     *)
(* parse() returns an error.                                                *)
FrameKinds == {"pong", "ping", "close", "message", "unmasked", "refused"}

ASSUME ChunksAssumption ==
  \A c \in Chunks : /\ c \in Seq(FrameKinds)
                    /\ \A i \in 1..(Len(c) - 1) : c[i] # "refused"

ASSUME BoundsAssumption == MaxChunks \in Nat /\ MaxCalls \in Nat

VARIABLES
  readyState,  \* WsSession::readyState; "NONE" before the session exists
  registered,  \* the session is in WsServer::m_wsSessions
  held,        \* the application keeps a WsSessionPtr
  client,      \* *m_client: "open", "closing" after uv_close, "freed"
  reading,     \* uv_read_start is in force
  queued,      \* WriteCtx in libuv's write queue
  done,        \* the results of finished writes whose callback is due
  files,       \* FileReaders at work for sendFile
  leaked,      \* references to the session that nothing will release
  todo,        \* what the running callback has still to do
  closes,      \* history: how often m_onCloseCb was due
  fault,       \* the assertion or dangling reference met, or "none"
  chunks,      \* counter for MaxChunks
  calls        \* counter for MaxCalls

session == <<readyState, registered, held, leaked, closes>>
stream  == <<client, reading, queued, done>>
bounds  == <<chunks, calls>>
vars    == <<session, stream, files, todo, fault, bounds>>

Callbacks == {"serverOnConnectCb", "onConnectCb", "onMessageCb", "onErrorCb",
              "onCloseCb"}

WriteCbs == {"writeOk", "writeErr"}

(* The entries of todo that own a reference to the session: an argument     *)
(* shared_from_this(), the local ws of onUpgrade, ctx->m_owner and the      *)
(* local ss of the write callback.                                          *)
Owning == Callbacks \cup WriteCbs \cup
          {"connect", "removeWsSession", "deleteAgain"}

Steps == FrameKinds \cup Owning \cup {"interClose", "returnRecv", "closeCb"}

Init ==
  /\ readyState = "NONE"
  /\ registered = FALSE
  /\ held = FALSE
  /\ client = "open"
  /\ reading = FALSE
  /\ queued = 0
  /\ done = <<>>
  /\ files = 0
  /\ leaked = 0
  /\ todo = <<>>
  /\ closes = 0
  /\ fault = "none"
  /\ chunks = 0
  /\ calls = 0

(* Some shared_ptr keeps the WsSession from being destroyed.                *)
Alive ==
  \/ registered \/ held
  \/ files > 0 \/ leaked > 0 \/ queued > 0 \/ done # <<>>
  \/ \E i \in 1..Len(todo) : todo[i] \in Owning

(* The event loop is between two callbacks.                                 *)
Idle == todo = <<>> /\ fault = "none"

(* The running callback continues with step.                                *)
Doing(step) == fault = "none" /\ todo # <<>> /\ Head(todo) = step

(* The current step is replaced by steps.                                   *)
Continue(steps) == todo' = steps \o Tail(todo)

Fail(what) == /\ fault' = what
              /\ UNCHANGED <<session, stream, files, todo, bounds>>

-----------------------------------------------------------------------------
(* WsServer::onUpgrade and connect()                                        *)

OnUpgrade ==
  /\ Idle
  /\ readyState = "NONE"
  /\ readyState' = "CLOSED"
  /\ registered' = TRUE
  /\ todo' = <<"serverOnConnectCb", "connect">>
  /\ UNCHANGED <<held, leaked, closes, stream, files, fault, bounds>>

Connect ==
  /\ Doing("connect")
  /\ reading' = TRUE
  /\ readyState' = "OPEN"
  /\ Continue(<<"onConnectCb">>)
  /\ UNCHANGED <<registered, held, leaked, closes, client, queued, done, files,
                 fault, bounds>>

-----------------------------------------------------------------------------
(* inter_close()                                                            *)

(* inter_close() leaves readyState alone.                                   *)
MStaysOpen(rs) == rs

(* readyState after inter_close().                                          *)
StateOnClose(rs) == "CLOSED"

InterClose ==
  /\ Doing("interClose")
  /\ Alive
  /\ client = "open"
  /\ readyState' = StateOnClose(readyState)
  /\ reading' = FALSE
  /\ client' = "closing"
  /\ closes' = closes + 1
  /\ Continue(<<"onCloseCb", "removeWsSession">>)
  /\ UNCHANGED <<registered, held, leaked, queued, done, files, fault, bounds>>

(* The handle is closed already: uv_close asserts that it is not, or the    *)
(* memory is gone.                                                          *)
InterCloseAgain ==
  /\ Doing("interClose")
  /\ Alive
  /\ client # "open"
  /\ Fail(IF client = "freed" THEN "stale_client" ELSE "uv_close_assert")

(* this was destroyed: by the callback before it, or by an earlier frame of *)
(* the same chunk.                                                          *)
InterCloseStale ==
  /\ Doing("interClose")
  /\ ~Alive
  /\ Fail("stale_session")

(* The server goes on listing the session.                                  *)
MRemoveWsSession ==
  /\ Doing("removeWsSession")
  /\ Continue(<<>>)
  /\ UNCHANGED <<session, stream, files, fault, bounds>>

RemoveWsSession ==
  /\ Doing("removeWsSession")
  /\ registered' = FALSE
  /\ Continue(<<>>)
  /\ UNCHANGED <<readyState, held, leaked, closes, stream, files, fault, bounds>>

-----------------------------------------------------------------------------
(* inter_send()                                                             *)

(* uv_write with outcome r: finished at once ("ok", "err") when nothing is  *)
(* queued before it, or left to the loop ("later").  On a closing handle it *)
(* returns UV_EBADF, which nobody looks at: ctx and its m_owner stay.       *)
(* readers: FileReaders that own what is sent, and are never deleted.       *)
InterSend(r, readers) ==
  \/ /\ client = "open"
     /\ IF r # "later" /\ queued = 0
        THEN done' = Append(done, r) /\ UNCHANGED queued
        ELSE queued' = queued + 1 /\ UNCHANGED done
     /\ leaked' = leaked + readers
     /\ UNCHANGED fault
  \/ /\ client = "closing"
     /\ leaked' = leaked + readers + 1
     /\ UNCHANGED <<queued, done, fault>>
  \/ /\ client = "freed"
     /\ fault' = "stale_client"
     /\ UNCHANGED <<queued, done, leaked>>

Results == {"ok", "err", "later"}

-----------------------------------------------------------------------------
(* recv_cb(), handleMessage(), handleWsFrame()                              *)

Recv(chunk) ==
  /\ Idle
  /\ reading
  /\ chunks < MaxChunks
  /\ chunks' = chunks + 1
  /\ todo' = IF readyState = "OPEN" THEN chunk \o <<"returnRecv">>
                                     ELSE <<>>
  /\ UNCHANGED <<session, stream, files, fault, calls>>

(* nread < 0: the peer closed, or the read failed.                          *)
RecvEnd ==
  /\ Idle
  /\ reading
  /\ todo' = <<"interClose">>
  /\ UNCHANGED <<session, stream, files, fault, bounds>>

ReturnRecv ==
  /\ Doing("returnRecv")
  /\ Continue(<<>>)
  /\ UNCHANGED <<session, stream, files, fault, bounds>>

(* handleWsFrame.  Nothing looks at readyState, so the frames behind a      *)
(* close frame of the same chunk are handled too.                           *)
OnFrame(kind) ==
  CASE kind = "pong"     -> <<>>
    [] kind = "close"    -> <<"interClose">>
    [] kind = "message"  -> <<"onMessageCb">>
    [] kind = "unmasked" -> <<"onErrorCb", "interClose">>

HandleWsFrame(kind) ==
  /\ Doing(kind)
  /\ Alive
  /\ Continue(OnFrame(kind))
  /\ UNCHANGED <<session, stream, files, fault, bounds>>

(* The error path of handleMessage.                                         *)
HandleRefused ==
  /\ Doing("refused")
  /\ Alive
  /\ Continue(<<"onErrorCb", "interClose">>)
  /\ UNCHANGED <<session, stream, files, fault, bounds>>

HandlePing(r) ==
  /\ Doing("ping")
  /\ Alive
  /\ InterSend(r, 0)
  /\ Continue(<<>>)
  /\ UNCHANGED <<readyState, registered, held, closes, client, reading, files,
                 bounds>>

(* The parse loop goes on in a session that an earlier frame destroyed.     *)
FrameStale ==
  /\ \E kind \in FrameKinds : Doing(kind)
  /\ ~Alive
  /\ Fail("stale_session")

-----------------------------------------------------------------------------
(* The loop's side of the stream                                            *)

WriteDone(r) ==
  /\ Idle
  /\ client = "open"
  /\ queued > 0
  /\ queued' = queued - 1
  /\ done' = Append(done, r)
  /\ UNCHANGED <<session, client, reading, files, todo, fault, bounds>>

Due(results) ==
  [i \in 1..Len(results) |-> IF results[i] = "ok" THEN "writeOk" ELSE "writeErr"]

RunWriteCallbacks ==
  /\ Idle
  /\ client = "open"
  /\ done # <<>>
  /\ todo' = Due(done)
  /\ done' = <<>>
  /\ UNCHANGED <<session, client, reading, queued, files, fault, bounds>>

(* uv__finish_close: what is still queued is cancelled with UV_ECANCELED,   *)
(* all write callbacks run, then the callback given to uv_close.            *)
FinishClose ==
  /\ Idle
  /\ client = "closing"
  /\ todo' = Due(done) \o [i \in 1..queued |-> "writeErr"] \o <<"closeCb">>
  /\ queued' = 0
  /\ done' = <<>>
  /\ UNCHANGED <<session, client, reading, files, fault, bounds>>

(* The close callback does not delete the handle.                           *)
MCloseCb ==
  /\ Doing("closeCb")
  /\ Continue(<<>>)
  /\ UNCHANGED <<session, stream, files, fault, bounds>>

CloseCb ==
  /\ Doing("closeCb")
  /\ client' = "freed"
  /\ Continue(<<>>)
  /\ UNCHANGED <<session, reading, queued, done, files, fault, bounds>>

(* The callback of uv_write.  After an error it deletes ctx, closes, and    *)
(* falls through to the delete of the successful case.                      *)
WriteCbOk ==
  /\ Doing("writeOk")
  /\ Continue(<<>>)
  /\ UNCHANGED <<session, stream, files, fault, bounds>>

WriteCbErr ==
  /\ Doing("writeErr")
  /\ Continue(<<"onErrorCb", "interClose", "deleteAgain">>)
  /\ UNCHANGED <<session, stream, files, fault, bounds>>

DeleteAgain ==
  /\ Doing("deleteAgain")
  /\ Fail("ctx_double_delete")

(* The FileReader of sendFile is done.  On success its onClose callback     *)
(* sends the contents; the reader, and the session it captures, is never    *)
(* deleted.                                                                 *)
FileSent(r) ==
  /\ Idle
  /\ files > 0
  /\ files' = files - 1
  /\ InterSend(r, 1)
  /\ UNCHANGED <<readyState, registered, held, closes, client, reading, todo,
                 bounds>>

(* A read failed: the callback of sendFile deletes the reader.              *)
FileFailed ==
  /\ Idle
  /\ files > 0
  /\ files' = files - 1
  /\ UNCHANGED <<session, stream, todo, fault, bounds>>

(* The same callback, called by onOpen or onClose, which then go on with    *)
(* the reader.                                                              *)
FileFailedStale ==
  /\ Idle
  /\ files > 0
  /\ Fail("stale_reader")

-----------------------------------------------------------------------------
(* The application: inside a callback, or by a pointer it kept              *)

InCallback == \E cb \in Callbacks : Doing(cb)

MayCall == InCallback \/ (Idle /\ held)

Send(r) ==
  /\ MayCall
  /\ calls < MaxCalls
  /\ calls' = calls + 1
  /\ InterSend(r, 0)
  /\ UNCHANGED <<readyState, registered, held, closes, client, reading, files,
                 todo, chunks>>

SendFile ==
  /\ MayCall
  /\ calls < MaxCalls
  /\ calls' = calls + 1
  /\ files' = files + 1
  /\ UNCHANGED <<session, stream, todo, fault, chunks>>

(* close() without its early return.                                        *)
MClosesAgain == TRUE

(* The early return of close().                                             *)
NotClosed == readyState # "CLOSED"

Close ==
  /\ MayCall
  /\ calls < MaxCalls
  /\ calls' = calls + 1
  /\ todo' = IF NotClosed THEN <<"interClose">> \o todo ELSE todo
  /\ UNCHANGED <<session, stream, files, fault, chunks>>

Hold ==
  /\ InCallback
  /\ held' = TRUE
  /\ UNCHANGED <<readyState, registered, leaked, closes, stream, files, todo,
                 fault, bounds>>

Drop ==
  /\ MayCall
  /\ held' = FALSE
  /\ UNCHANGED <<readyState, registered, leaked, closes, stream, files, todo,
                 fault, bounds>>

Return ==
  /\ InCallback
  /\ Continue(<<>>)
  /\ UNCHANGED <<session, stream, files, fault, bounds>>

-----------------------------------------------------------------------------
(* The steps the loop takes by itself once it has been given the event.     *)
Run ==
  \/ Connect
  \/ InterClose \/ InterCloseAgain \/ InterCloseStale \/ RemoveWsSession
  \/ \E kind \in FrameKinds \ {"ping", "refused"} : HandleWsFrame(kind)
  \/ \E r \in Results : HandlePing(r)
  \/ HandleRefused \/ FrameStale \/ ReturnRecv
  \/ WriteCbOk \/ WriteCbErr \/ DeleteAgain
  \/ CloseCb
  \/ Return

Event ==
  \/ OnUpgrade
  \/ \E chunk \in Chunks : Recv(chunk)
  \/ RecvEnd
  \/ \E r \in {"ok", "err"} : WriteDone(r)
  \/ RunWriteCallbacks
  \/ FinishClose
  \/ \E r \in Results : FileSent(r)
  \/ FileFailed \/ FileFailedStale

Application ==
  \/ \E r \in Results : Send(r)
  \/ SendFile \/ Close \/ Hold \/ Drop

Next == Run \/ Event \/ Application

(* A callback, once started, goes on, and callbacks return; the loop gets   *)
(* to the handles that are closing.                                         *)
Fairness == WF_vars(Run) /\ WF_vars(FinishClose)

Spec == Init /\ [][Next]_vars /\ Fairness

-----------------------------------------------------------------------------
Faults == {"none", "uv_close_assert", "stale_client", "stale_session",
           "ctx_double_delete", "stale_reader"}

(* The type invariant of the session, its stream and the running callback.  *)
TypeOK ==
  /\ readyState \in {"NONE", "CLOSED", "OPEN"}
  /\ registered \in BOOLEAN
  /\ held \in BOOLEAN
  /\ client \in {"open", "closing", "freed"}
  /\ reading \in BOOLEAN
  /\ queued \in Nat
  /\ done \in Seq({"ok", "err"})
  /\ files \in Nat
  /\ leaked \in Nat
  /\ todo \in Seq(Steps)
  /\ closes \in Nat
  /\ fault \in Faults
  /\ chunks \in Nat
  /\ calls \in Nat

(* A session that says OPEN can be used: its handle is open and the server  *)
(* still lists it; and the loop reads into a session exactly while it is    *)
(* OPEN, so recv_cb never runs for one that was closed or destroyed.        *)
OpenIsUsable ==
  /\ readyState = "OPEN" => client = "open" /\ registered
  /\ reading <=> readyState = "OPEN"

(* A closed session is given up completely: once the callback that closed   *)
(* it is done, m_onCloseCb was called exactly once and WsServer no longer   *)
(* lists the session, whatever the application did inside its callbacks.    *)
ClosedIsForgotten ==
  Idle /\ client # "open" => closes = 1 /\ ~registered

(* All the ways this class can reach an assertion or deleted memory: a      *)
(* write that failed or was cancelled; a frame handled behind one that      *)
(* closed the session, or an m_onErrorCb that closed it, in one recv_cb; a  *)
(* message sent when the handle is freed; and a file that could not be      *)
(* opened or closed, which meets the loop and no callback of the session.   *)
(* Neither the peer's end of stream nor any order of the application's      *)
(* close() calls is among them.                                             *)
FaultCauses ==
  /\ fault \in {"uv_close_assert", "stale_session"} =>
       /\ readyState = "CLOSED"
       /\ Contains(todo, "returnRecv") \/ Contains(todo, "deleteAgain")
  /\ fault = "ctx_double_delete" => Contains(todo, "deleteAgain")
  /\ fault = "stale_client" => client = "freed"
  /\ fault = "stale_reader" => todo = <<>> /\ readyState # "NONE"

(* Why the above hold: how the pending steps and the state of the session   *)
(* agree at every moment of a callback.  The handle and the session close   *)
(* together, and the removal from WsServer is pending until it is done.     *)
CloseInv ==
  /\ readyState = "NONE" => /\ client = "open" /\ todo = <<>> /\ ~held
                            /\ queued = 0 /\ done = <<>> /\ files = 0
  /\ client = "open" => closes = 0 /\ ~Contains(todo, "removeWsSession")
  /\ client # "open" => /\ readyState = "CLOSED"
                        /\ closes = 1
                        /\ registered => Contains(todo, "removeWsSession")

(* close() before connect() does nothing, so connect() finds an open handle.*)
ConnectInv ==
  Contains(todo, "connect") =>
    /\ client = "open" /\ registered /\ readyState = "CLOSED"
    /\ todo \in {<<"serverOnConnectCb", "connect">>, <<"connect">>}

(* A pending inter_close() belongs to a recv_cb or to a failed write, or it *)
(* is next while the session is OPEN; frames are handled inside a recv_cb;  *)
(* the handle is deleted last.                                              *)
StackInv ==
  \A i \in 1..Len(todo) :
    /\ todo[i] = "closeCb" => i = Len(todo) /\ client = "closing"
    /\ todo[i] \in FrameKinds => todo[Len(todo)] = "returnRecv"
    /\ todo[i] = "interClose" =>
         \/ todo[Len(todo)] = "returnRecv"
         \/ i < Len(todo) /\ todo[i + 1] = "deleteAgain"
         \/ i = 1 /\ readyState = "OPEN"

(* The inductive invariant: all of the above at once.                       *)
SessionInv == OpenIsUsable /\ FaultCauses /\ CloseInv /\ ConnectInv /\ StackInv

(* uv_close leads to the callback that deletes the handle, through all the  *)
(* write callbacks libuv owes, unless one of them ends the program.         *)
ClosingCompletes == client = "closing" ~> client = "freed" \/ fault # "none"
=============================================================================
