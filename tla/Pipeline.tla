------------------------------ MODULE Pipeline ------------------------------
(***************************************************************************)
(* The requests of one HTTP connection, by number, and the answers to them *)
(* (src/src/core/httpserver.cpp, httpResp.cpp).  HttpSession has the whole *)
(* life of a connection, and counts its answers; here it is told which     *)
(* answer belongs to which request.  A Session has one m_isKeepAlive and   *)
(* one timer for all of them.                                              *)
(*                                                                         *)
(* The peer sends whole requests, none of them an upgrade, and ends the    *)
(* connection, when it pleases; the application sends each response when   *)
(* it pleases, and may send one again.                                     *)
(***************************************************************************)
EXTENDS Naturals, Sequences, SequencesExt, FiniteSets

CONSTANTS
  N,          \* bound: requests of the connection
  Resends     \* bound: responses sent again

ASSUME BoundsAssumption == N \in Nat /\ Resends \in Nat

VARIABLES
  wants,      \* which of the requests ask for keep-alive
  handled,    \* requests handled so far
  keepAlive,  \* m_isKeepAlive
  timer,      \* m_keepAliveTimer is armed
  open,       \* the Session is in m_sessions, its handle is not closing
  kept,       \* requests whose httpResp the application has kept
  queued,     \* answers in libuv's write queue
  due,        \* answers written, whose callback is due
  wire,       \* history: answers written
  called,     \* history: answers whose onSent was called
  lost,       \* history: answers that will not be written
  late,       \* history: requests not answered at once, or answered again
  again,      \* history: how often a response was sent again
  overlapped, \* history: a request was handled before the one before it
              \* was done with
  gone        \* history: the peer ended the connection

loop == <<keepAlive, timer, open>>
outs == <<kept, queued, due, wire, called, lost>>
vars == <<wants, handled, loop, outs, late, again, overlapped, gone>>

Init ==
  /\ wants \in [1..N -> BOOLEAN]
  /\ handled = 0
  /\ keepAlive = FALSE
  /\ timer = FALSE
  /\ open = TRUE
  /\ kept = {}
  /\ queued = <<>>
  /\ due = <<>>
  /\ wire = <<>>
  /\ called = {}
  /\ lost = {}
  /\ late = {}
  /\ again = 0
  /\ overlapped = FALSE
  /\ gone = FALSE

-----------------------------------------------------------------------------
(* What the socket takes is written at once, past what is queued.           *)
MWrite(i) ==
  /\ \/ /\ due' = Append(due, i)
        /\ wire' = Append(wire, i)
        /\ UNCHANGED queued
     \/ /\ queued' = Append(queued, i)
        /\ UNCHANGED <<due, wire>>
  /\ UNCHANGED lost

(* uv_write: at once, when nothing is queued before it, or by the loop.     *)
Write(i) ==
  /\ \/ /\ queued = <<>>
        /\ due' = Append(due, i)
        /\ wire' = Append(wire, i)
        /\ UNCHANGED queued
     \/ /\ queued' = Append(queued, i)
        /\ UNCHANGED <<due, wire>>
  /\ UNCHANGED lost

(* The next request is read: after the answer to the one before, or ahead   *)
(* of it, in the same read or in a later one; or when that answer is out    *)
(* and its callback still due, by the second read after a full buffer.      *)
Arrives(i) ==
  /\ open
  /\ i = handled + 1
  /\ handled' = i
  /\ overlapped' = (overlapped \/ Cardinality(called) < handled)
  /\ \/ Write(i) /\ UNCHANGED <<kept, late>>
     \/ /\ kept' = kept \cup {i}
        /\ late' = late \cup {i}
        /\ UNCHANGED <<queued, due, wire, lost>>
  /\ UNCHANGED <<wants, open, called, again, gone>>

(* The timer goes on.                                                       *)
MHandleRequest(i) ==
  /\ Arrives(i)
  /\ keepAlive' = wants[i]
  /\ UNCHANGED timer

(* recv_cb, which stops the timer of a kept connection, handle_request, and *)
(* the handler, which answers at once or keeps the response.                *)
HandleRequest(i) ==
  /\ Arrives(i)
  /\ keepAlive' = wants[i]
  /\ timer' = (timer /\ ~keepAlive)

(* send(): uv_write on a handle that is closing fails, and nobody is told.  *)
Send(i) ==
  IF open THEN Write(i)
  ELSE lost' = lost \cup {i} /\ UNCHANGED <<queued, due, wire>>

(* The application answers what it has kept.                                *)
Respond(i) ==
  /\ i \in kept
  /\ kept' = kept \ {i}
  /\ Send(i)
  /\ UNCHANGED <<wants, handled, loop, called, late, again, overlapped, gone>>

(* The application sends a response that was sent before: nothing in        *)
(* httpResp says that it was.                                               *)
SendAgain(i) ==
  /\ again < Resends
  /\ i \in (1..handled) \ kept
  /\ again' = again + 1
  /\ late' = late \cup {i}
  /\ Send(i)
  /\ UNCHANGED <<wants, handled, loop, kept, called, overlapped, gone>>

WriteDone ==
  /\ open
  /\ queued # <<>>
  /\ queued' = Tail(queued)
  /\ due' = Append(due, Head(queued))
  /\ wire' = Append(wire, Head(queued))
  /\ UNCHANGED <<wants, handled, loop, kept, called, lost, late, again,
                 overlapped, gone>>

(* close(): the writes still queued are cancelled.                          *)
Close ==
  /\ open' = FALSE
  /\ queued' = <<>>
  /\ lost' = lost \cup ToSet(queued)

Callback ==
  /\ due # <<>>
  /\ due' = Tail(due)
  /\ called' = called \cup {Head(due)}
  /\ UNCHANGED <<wants, handled, kept, wire, late, again, overlapped, gone>>

(* onSent of initResp                                                       *)
OnSentKeep ==
  /\ Callback
  /\ open /\ keepAlive
  /\ timer' = TRUE
  /\ UNCHANGED <<keepAlive, open, queued, lost>>

(* The connection is not closed after the answer.                           *)
MOnSentClose ==
  /\ Callback
  /\ open /\ ~keepAlive
  /\ UNCHANGED <<keepAlive, timer, open, queued, lost>>

OnSentClose ==
  /\ Callback
  /\ open /\ ~keepAlive
  /\ Close
  /\ UNCHANGED <<keepAlive, timer>>

OnSentGone ==
  /\ Callback
  /\ ~open
  /\ UNCHANGED <<keepAlive, timer, open, queued, lost>>

(* keepAliveTimerCb                                                         *)
TimerCb ==
  /\ open
  /\ timer
  /\ timer' = FALSE
  /\ Close
  /\ UNCHANGED <<wants, handled, keepAlive, kept, due, wire, called, late,
                 again, overlapped, gone>>

(* recv_cb with nread < 0                                                   *)
RecvEnd ==
  /\ open
  /\ Close
  /\ keepAlive' = FALSE
  /\ timer' = FALSE
  /\ gone' = TRUE
  /\ UNCHANGED <<wants, handled, kept, due, wire, called, late, again,
                 overlapped>>

-----------------------------------------------------------------------------
OnSent == OnSentKeep \/ OnSentClose \/ OnSentGone

Next ==
  \/ \E i \in 1..N : HandleRequest(i) \/ Respond(i) \/ SendAgain(i)
  \/ WriteDone
  \/ OnSent
  \/ TimerCb
  \/ RecvEnd

(* The loop writes, calls back and fires its timers; the application        *)
(* answers what it has kept.                                                *)
Fairness ==
  /\ WF_vars(WriteDone)
  /\ WF_vars(OnSent)
  /\ WF_vars(TimerCb)
  /\ WF_vars(\E i \in 1..N : Respond(i))

Spec == Init /\ [][Next]_vars /\ Fairness

-----------------------------------------------------------------------------
(* The type invariant; what is kept, queued, written or lost is the answer  *)
(* to a request that handle_request has seen.                               *)
TypeOK ==
  /\ wants \in [1..N -> BOOLEAN]
  /\ handled \in 0..N /\ again \in 0..Resends
  /\ {keepAlive, timer, open, overlapped, gone} \subseteq BOOLEAN
  /\ kept \cup called \cup lost \cup late \subseteq 1..handled
  /\ ToSet(queued) \cup ToSet(due) \cup ToSet(wire) \subseteq 1..handled

(* An answer overtakes that of an earlier request only if the application   *)
(* did not answer the earlier one at once, or answered it again: nothing in *)
(* httpResp or Session holds an answer back until its turn.                 *)
OrderCauses ==
  /\ TypeOK
  /\ \A a, b \in 1..Len(wire) : a < b /\ wire[b] < wire[a] => wire[b] \in late

(* An answer is lost only when the peer has left, a response is sent again  *)
(* or requests overlap: then the m_isKeepAlive of a later request decides   *)
(* what an earlier answer does to the connection, and the timer armed by an *)
(* earlier answer runs while a later one is made.                           *)
LostCauses == lost # {} => overlapped \/ gone \/ again > 0

(* As long as requests do not overlap and each response is sent once, a     *)
(* client that stays is served as Exchange says: every request answered in  *)
(* its turn, once, the connection closed only between two exchanges, and in *)
(* the end.                                                                 *)
Promise ==
  INSTANCE Exchange WITH
    asked <- handled, answered <- Len(wire),
    waits <- ~overlapped /\ ~gone /\ again = 0

Implements == Promise!Spec
=============================================================================
