------------------------------- MODULE Server -------------------------------
(***************************************************************************)
(* The connections of one HttpServer and the WsServer on top of it         *)
(* (src/src/core/httpserver.cpp, WsServer.cpp, WebSocket.cpp): the two     *)
(* lists of sessions, the hand-over of a connection and of its receive     *)
(* buffer from one to the other, and closes inside closes: the callbacks   *)
(* of a WsSession may close other sessions.                                *)
(*                                                                         *)
(* What one session does with its input and its writes is HttpSession's    *)
(* and WsSession's; here it leaves when it pleases.  todo is what the      *)
(* running callback of the loop has still to do, innermost first.          *)
(***************************************************************************)
EXTENDS Naturals, Sequences

CONSTANTS
  Conns,     \* the connections
  MaxCalls   \* bound: calls of close() in callbacks

VARIABLES
  sessions,    \* HttpServer::m_sessions
  wsSessions,  \* WsServer::m_wsSessions
  place,       \* of each connection: "none", "http", "joining" (upgraded, not
               \* connected), "ws" (OPEN), "closing" (uv_close), "gone"
  reader,      \* whose callbacks uv_read_start has: "none", "http", "ws"
  data,        \* whose this client->data is
  buffer,      \* whose m_recvBuf the memory is; "none", "freed", "lost"
  todo,
  calls        \* counter for MaxCalls

lists == <<sessions, wsSessions>>
vars  == <<lists, place, reader, data, buffer, todo, calls>>

Init ==
  /\ sessions = <<>>
  /\ wsSessions = <<>>
  /\ place = [c \in Conns |-> "none"]
  /\ reader = [c \in Conns |-> "none"]
  /\ data = [c \in Conns |-> "none"]
  /\ buffer = [c \in Conns |-> "none"]
  /\ todo = <<>>
  /\ calls = 0

Members(list) == {list[i] : i \in 1..Len(list)}

(* The last is popped without the swap.                                     *)
MRemoved(list, c) ==
  IF c \in Members(list) THEN SubSeq(list, 1, Len(list) - 1) ELSE list

(* removeSession and removeWsSession: std::find, swap with the last, pop.   *)
Removed(list, c) ==
  IF c \notin Members(list) THEN list
  ELSE LET i == CHOOSE i \in 1..Len(list) :
                  list[i] = c /\ \A j \in 1..(i - 1) : list[j] # c
       IN  [j \in 1..(Len(list) - 1) |-> IF j = i THEN list[Len(list)] ELSE list[j]]

Idle == todo = <<>>

Doing(step, c) == todo # <<>> /\ Head(todo) = <<step, c>>

-----------------------------------------------------------------------------
(* inter_on_connect and handle_connect                                      *)
Accept(c) ==
  /\ Idle
  /\ place[c] = "none"
  /\ place' = [place EXCEPT ![c] = "http"]
  /\ data' = [data EXCEPT ![c] = "http"]
  /\ buffer' = [buffer EXCEPT ![c] = "http"]
  /\ sessions' = Append(sessions, c)
  /\ reader' = [reader EXCEPT ![c] = "http"]
  /\ UNCHANGED <<wsSessions, todo, calls>>

(* closeSession of a session that ends: the peer's end, the timer, or the   *)
(* answer to a request that is not to be kept.  ~Session frees the buffer.  *)
CloseSession(c) ==
  /\ Idle
  /\ place[c] = "http"
  /\ reader' = [reader EXCEPT ![c] = "none"]
  /\ place' = [place EXCEPT ![c] = "closing"]
  /\ sessions' = Removed(sessions, c)
  /\ buffer' = [buffer EXCEPT ![c] = "freed"]
  /\ UNCHANGED <<wsSessions, data, todo, calls>>

TransferBufferToWsSession(c) == buffer' = [buffer EXCEPT ![c] = "ws"]

(* upgradeSession: closeSession without uv_close, then WsServer::onUpgrade, *)
(* which makes the WsSession, lists it, and calls the application and       *)
(* connect().                                                               *)
UpgradeSession(c) ==
  /\ Idle
  /\ place[c] = "http"
  /\ reader' = [reader EXCEPT ![c] = "none"]
  /\ sessions' = Removed(sessions, c)
  /\ TransferBufferToWsSession(c)
  /\ wsSessions' = Append(wsSessions, c)
  /\ place' = [place EXCEPT ![c] = "joining"]
  /\ todo' = <<<<"callback", c>>, <<"connect", c>>>>
  /\ UNCHANGED <<data, calls>>

(* client->data is still the HTTP Session.                                  *)
MConnect(c) ==
  /\ Doing("connect", c)
  /\ reader' = [reader EXCEPT ![c] = "ws"]
  /\ place' = [place EXCEPT ![c] = "ws"]
  /\ todo' = <<<<"callback", c>>>> \o Tail(todo)
  /\ UNCHANGED <<lists, data, buffer, calls>>

Connect(c) ==
  /\ Doing("connect", c)
  /\ data' = [data EXCEPT ![c] = "ws"]
  /\ reader' = [reader EXCEPT ![c] = "ws"]
  /\ place' = [place EXCEPT ![c] = "ws"]
  /\ todo' = <<<<"callback", c>>>> \o Tail(todo)
  /\ UNCHANGED <<lists, buffer, calls>>

-----------------------------------------------------------------------------
(* A frame, an end or an error that closes a WsSession, or the application  *)
(* outside of any callback.                                                 *)
WsEnds(c) ==
  /\ Idle
  /\ place[c] = "ws"
  /\ todo' = <<<<"interClose", c>>>>
  /\ UNCHANGED <<lists, place, reader, data, buffer, calls>>

(* In a callback the application closes another session, or the one it was  *)
(* called for; close() of one that is CLOSED returns.                       *)
CloseInCallback(c, d) ==
  /\ Doing("callback", c)
  /\ calls < MaxCalls
  /\ place[d] = "ws"
  /\ calls' = calls + 1
  /\ todo' = <<<<"interClose", d>>>> \o todo
  /\ UNCHANGED <<lists, place, reader, data, buffer>>

CallbackReturns(c) ==
  /\ Doing("callback", c)
  /\ todo' = Tail(todo)
  /\ UNCHANGED <<lists, place, reader, data, buffer, calls>>

InterClose(c) ==
  /\ Doing("interClose", c)
  /\ place' = [place EXCEPT ![c] = "closing"]
  /\ reader' = [reader EXCEPT ![c] = "none"]
  /\ todo' = <<<<"callback", c>>, <<"removeWsSession", c>>>> \o Tail(todo)
  /\ UNCHANGED <<lists, data, buffer, calls>>

(* The session stays in the list.                                           *)
MRemoveWsSession(c) ==
  /\ Doing("removeWsSession", c)
  /\ todo' = Tail(todo)
  /\ UNCHANGED <<lists, place, reader, data, buffer, calls>>

(* ~WsSession does not free m_recvBuf.                                      *)
RemoveWsSession(c) ==
  /\ Doing("removeWsSession", c)
  /\ wsSessions' = Removed(wsSessions, c)
  /\ buffer' = [buffer EXCEPT ![c] = "lost"]
  /\ todo' = Tail(todo)
  /\ UNCHANGED <<sessions, place, reader, data, calls>>

(* The callback of uv_close deletes the handle.                             *)
CloseCb(c) ==
  /\ Idle
  /\ place[c] = "closing"
  /\ place' = [place EXCEPT ![c] = "gone"]
  /\ UNCHANGED <<lists, reader, data, buffer, todo, calls>>

-----------------------------------------------------------------------------
Running(c) ==
  \/ Connect(c) \/ CallbackReturns(c) \/ InterClose(c) \/ RemoveWsSession(c)
  \/ \E d \in Conns : CloseInCallback(c, d)

Next ==
  \E c \in Conns :
    \/ Accept(c) \/ CloseSession(c) \/ UpgradeSession(c) \/ WsEnds(c)
    \/ Running(c)
    \/ CloseCb(c)

(* A callback that runs goes on, and the loop calls what is due.            *)
Fairness ==
  /\ WF_vars(\E c \in Conns : Running(c))
  /\ \A c \in Conns : WF_vars(CloseCb(c))

Spec == Init /\ [][Next]_vars /\ Fairness

-----------------------------------------------------------------------------
Steps == {"callback", "connect", "interClose", "removeWsSession"}

(* The type invariant of the two lists and of what each connection has.     *)
TypeOK ==
  /\ sessions \in Seq(Conns)
  /\ wsSessions \in Seq(Conns)
  /\ place \in [Conns -> {"none", "http", "joining", "ws", "closing", "gone"}]
  /\ reader \in [Conns -> {"none", "http", "ws"}]
  /\ data \in [Conns -> {"none", "http", "ws"}]
  /\ buffer \in [Conns -> {"none", "http", "ws", "freed", "lost"}]
  /\ todo \in Seq(Steps \X Conns)
  /\ calls \in Nat

Distinct(list) == \A i, j \in 1..Len(list) : list[i] = list[j] => i = j

Removing(c) == \E i \in 1..Len(todo) : todo[i] = <<"removeWsSession", c>>

(* Each list holds each of its sessions once, and no other: whatever nested *)
(* closes remove in between, swap-and-pop takes out the one it was asked    *)
(* for.  A WsSession is listed until its close callback has returned.       *)
ListsExact ==
  /\ TypeOK
  /\ Distinct(sessions) /\ Distinct(wsSessions)
  /\ Members(sessions) = {c \in Conns : place[c] = "http"}
  /\ Members(wsSessions) = {c \in Conns : place[c] \in {"joining", "ws"} \/ Removing(c)}

(* A connection that is being read gives its bytes to the session that owns *)
(* it, in a buffer that this session owns and has not freed or given away   *)
(* (recv_alloc_cb would never return for a buffer of length 0).             *)
ReadsOwn ==
  \A c \in Conns : reader[c] # "none" =>
    /\ data[c] = reader[c]
    /\ buffer[c] = reader[c]
    /\ place[c] = reader[c]

(* A connection that is closed is forgotten by the lists and its handle     *)
(* deleted.                                                                 *)
Leaves ==
  \A c \in Conns :
    place[c] = "closing" ~>
      place[c] = "gone" /\ c \notin Members(sessions) \cup Members(wsSessions)

(* The lists are sets of connections (Registry).                            *)
Sets ==
  INSTANCE Registry WITH
    http <- Members(sessions), ws <- Members(wsSessions),
    left <- {c \in Conns : place[c] \in {"closing", "gone"}}
              \ (Members(sessions) \cup Members(wsSessions))

Implements == Sets!Spec
=============================================================================
