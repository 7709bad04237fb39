------------------------- MODULE HttpSessionProofs -------------------------
(***************************************************************************)
(* For every set of chunks, every number of reads, and whenever a WsServer *)
(* is attached: an HTTP connection is owned once, its timer runs only      *)
(* while it is kept, a kept connection is timed, and FaultCauses lists     *)
(* every way to a fault.                                                   *)
(***************************************************************************)
EXTENDS HttpSession, SequenceTheorems, TLAPS

(* What is left to do after the first step.                                 *)
LEMMA TailElems ==
  ASSUME NEW S, NEW t \in Seq(S), t # <<>>
  PROVE  /\ Tail(t) \in Seq(S)
         /\ Len(Tail(t)) = Len(t) - 1
         /\ \A i \in 1..Len(Tail(t)) : Tail(t)[i] = t[i + 1]
         /\ Head(t) = t[1] /\ Head(t) \in S
         /\ Len(t) \in Nat \ {0}
  OBVIOUS

(* The sequences of at most one step.                                       *)
LEMMA ShortSeqs ==
  ASSUME NEW S, NEW x \in S
  PROVE  <<x>> \in Seq(S) /\ <<>> \in Seq(S)
  OBVIOUS

(* A step taken off the running callback leaves the shape of the rest; the  *)
(* close callback, still to come, keeps its place at the end.               *)
LEMMA StackTail ==
  ASSUME TypeOK, StackInv, todo # <<>>
  PROVE  /\ Tail(todo) \in Seq(Steps)
         /\ Head(todo) \in Inputs =>
              /\ Tail(todo) \in Seq(Inputs) /\ registered /\ timer # "armed"
              /\ Skipped \in Seq(Inputs)
         /\ Head(todo) \notin Inputs =>
              Tail(todo) \in Seq(Responses \cup {"closeCb"})
         /\ \A i \in 1..Len(Tail(todo)) :
              Tail(todo)[i] = "closeCb" =>
                i = Len(Tail(todo)) /\ client = "closing"
         /\ Head(todo) = "closeCb" => client = "closing" /\ Len(Tail(todo)) = 0
  <1>1. Tail(todo) \in Seq(Steps)
    BY TailElems DEF TypeOK
  <1>2. ASSUME Head(todo) \in Inputs
        PROVE  /\ Tail(todo) \in Seq(Inputs) /\ registered /\ timer # "armed"
               /\ Skipped \in Seq(Inputs)
    <2>1. Head(todo) \notin Responses \cup {"closeCb"}
      BY <1>2 DEF Inputs, Nothing, Requests, Responses
    <2>2. todo \notin Seq(Responses \cup {"closeCb"})
      <3> HIDE DEF Responses
      <3> QED  BY <2>1, TailElems
    <2>3. todo \in Seq(Inputs) /\ registered /\ timer # "armed"
      BY <2>2 DEF StackInv
    <2>4. Skipped \in Seq(Inputs)
      <3>1. "again" \in Inputs
        BY DEF Inputs, Nothing
      <3> QED
        BY <3>1, ShortSeqs DEF Skipped
    <2> QED
      BY <2>3, <2>4, TailElems
  <1>3. ASSUME Head(todo) \notin Inputs
        PROVE  Tail(todo) \in Seq(Responses \cup {"closeCb"})
    <2>1. todo \notin Seq(Inputs)
      BY <1>3, TailElems
    <2> QED
      BY <2>1, TailElems DEF StackInv
  <1>4. \A i \in 1..Len(Tail(todo)) :
          Tail(todo)[i] = "closeCb" => i = Len(Tail(todo)) /\ client = "closing"
    BY TailElems DEF StackInv, TypeOK
  <1>5. ASSUME Head(todo) = "closeCb"
        PROVE  client = "closing" /\ Len(Tail(todo)) = 0
    <2>1. todo[1] = "closeCb" /\ 1 \in 1..Len(todo)
      BY <1>5, TailElems DEF TypeOK
    <2>2. client = "closing" /\ Len(todo) = 1
      BY <2>1 DEF StackInv
    <2> QED
      BY <2>2, TailElems DEF TypeOK
  <1> QED
    BY <1>1, <1>2, <1>3, <1>4, <1>5

(* uv_write puts a response at the end of one of the two queues.            *)
LEMMA WriteQueues ==
  ASSUME TypeOK, NEW kind \in Responses, NEW r, Write(kind, r)
  PROVE  /\ queued' \in Seq(Responses) /\ done' \in Seq(Responses)
         /\ queued' # <<>> \/ done' # <<>>
  <1>0. /\ queued \in Seq(Responses) /\ done \in Seq(Responses)
        /\ \A s \in Seq(Responses) : /\ Append(s, kind) \in Seq(Responses)
                                     /\ Append(s, kind) # <<>>
    BY AppendProperties DEF TypeOK
  <1>1. CASE r = "now" /\ queued = <<>>
    <2>1. done' = Append(done, kind) /\ queued' = queued
      BY <1>1 DEF Write
    <2> QED BY <2>1, <1>0
  <1>2. CASE ~(r = "now" /\ queued = <<>>)
    <2>1. queued' = Append(queued, kind) /\ done' = done
      BY <1>2 DEF Write
    <2> QED BY <2>1, <1>0
  <1> QED
    BY <1>1, <1>2

-----------------------------------------------------------------------------
(* The initial state.                                                       *)
LEMMA InitInv == Init => TypeOK /\ HttpInv
  <1> SUFFICES ASSUME Init PROVE TypeOK /\ HttpInv
    OBVIOUS
  <1>0. \A S : <<>> \in Seq(S)
    OBVIOUS
  <1>1. TypeOK
    <2>1. 0 \in Nat /\ 0 \in 0..MaxChunks
      BY BoundsAssumption
    <2> QED
      BY <1>0, <2>1, Zenon DEF Init, TypeOK, Faults
  <1>2. OwnedOnce /\ TimerOwned /\ FaultCauses /\ HandedInv /\ AnswerInv
    BY DEF Init, OwnedOnce, TimerOwned, FaultCauses, HandedInv, AnswerInv
  <1>3. StackInv
    BY <1>0 DEF Init, StackInv
  <1> QED
    BY <1>1, <1>2, <1>3 DEF HttpInv

-----------------------------------------------------------------------------
(* Every action keeps the types.                                            *)
LEMMA TypeNext == TypeOK /\ HttpInv /\ [Next]_vars => TypeOK'
  <1> SUFFICES ASSUME TypeOK, HttpInv, [Next]_vars PROVE TypeOK'
    OBVIOUS
  <1> USE BoundsAssumption DEF aside
  <1>0. StackInv /\ Inputs \subseteq Steps /\ Responses \subseteq Steps
        /\ \A S : <<>> \in Seq(S)
    BY DEF HttpInv, Steps
  <1>1. CASE Accept \/ AcceptFailed
    BY <1>1 DEF Accept, AcceptFailed, HandleConnect, NewSession, TypeOK,
       owner, writes
  <1>2. ASSUME NEW chunk \in Chunks, Recv(chunk) PROVE TypeOK'
    <2>1. chunk \in Seq(Steps)
      BY <1>0, ChunksAssumption
    <2>2. chunks' \in 0..MaxChunks
      BY <1>2 DEF Recv, TypeOK
    <2> QED
      BY <1>2, <2>1, <2>2
      DEF Recv, StopIfKeptAlive, StopKeepAliveTimer, TypeOK, stream, writes
  <1>3. CASE RecvEnd
    BY <1>3 DEF RecvEnd, StopKeepAliveTimer, CloseSession, RemoveSession,
       TypeOK, writes
  <1>4. CASE Partial \/ ParseError \/ Blank
    <2>1. todo' \in Seq(Steps)
      BY <1>0, <1>4, StackTail, SMTT(40)
      DEF Partial, ParseError, Blank, Parsing, Doing, Inputs, Nothing
    <2> QED
      BY <1>4, <2>1 DEF Partial, ParseError, Blank, TypeOK, owner, stream, writes
  <1>5. CASE Again
    <2>1. todo' \in Seq(Steps)
      BY <1>0, <1>5, StackTail DEF Again, Doing
    <2> QED
      BY <1>5, <2>1
      DEF Again, StopIfKeptAlive, StopKeepAliveTimer, TypeOK, stream, writes
  <1>6. ASSUME NEW req \in Requests, NEW r \in When, HandleRequest(req, r)
        PROVE  TypeOK'
    <2>1. todo' \in Seq(Steps)
      BY <1>0, <1>6, StackTail DEF HandleRequest, Parsing, Doing
    <2>2. queued' \in Seq(Responses) /\ done' \in Seq(Responses)
          /\ pending' \in Nat
      BY <1>6, WriteQueues DEF HandleRequest, Answer, TypeOK, Responses
    <2>3. keepAlive' \in BOOLEAN
      BY <1>6 DEF HandleRequest, NeedKeepConnection
    <2> QED
      BY <1>6, <2>1, <2>2, <2>3 DEF HandleRequest, TypeOK, stream
  <1>7. ASSUME NEW req \in Requests, NEW r \in When, UpgradeToWs(req, r)
        PROVE  TypeOK'
    <2>1. todo' \in Seq(Steps)
      BY <1>0, <1>7, StackTail DEF UpgradeToWs, Parsing, Doing, Inputs
    <2>2. queued' \in Seq(Responses) /\ done' \in Seq(Responses)
      BY <1>7, WriteQueues DEF UpgradeToWs, Responses
    <2>3. keepAlive' \in BOOLEAN
      BY <1>7 DEF UpgradeToWs, NeedKeepConnection
    <2> QED
      BY <1>7, <2>1, <2>2, <2>3 DEF UpgradeToWs, TypeOK, stream
  <1>8. ASSUME NEW r \in When, Respond(r) PROVE TypeOK'
    <2>1. queued' \in Seq(Responses) /\ done' \in Seq(Responses)
      BY <1>8, WriteQueues DEF Respond, Responses, TypeOK
    <2>2. pending' \in Nat /\ fault' \in Faults
      BY <1>8 DEF Respond, TypeOK, Faults
    <2> QED
      BY <1>8, <2>1, <2>2 DEF Respond, TypeOK, owner, stream
  <1>9. CASE WriteDone
    <2>1. queued' \in Seq(Responses) /\ done' \in Seq(Responses)
      BY <1>9, TailElems DEF WriteDone, TypeOK
    <2> QED
      BY <1>9, <2>1 DEF WriteDone, TypeOK, owner, stream
  <1>10. CASE RunWriteCallbacks
    <2>1. todo' \in Seq(Steps) /\ done' \in Seq(Responses)
      BY <1>0, <1>10 DEF RunWriteCallbacks, TypeOK
    <2> QED
      BY <1>10, <2>1 DEF RunWriteCallbacks, TypeOK, owner, stream
  <1>11. CASE FinishClose
    <2>1. <<"closeCb">> \in Seq(Steps)
      BY ShortSeqs DEF Steps
    <2>2. done \in Seq(Steps) /\ queued \in Seq(Steps)
      BY <1>0 DEF TypeOK
    <2>3. todo' \in Seq(Steps)
      BY <1>11, <2>1, <2>2 DEF FinishClose
    <2>4. queued' \in Seq(Responses) /\ done' \in Seq(Responses)
      BY <1>0, <1>11 DEF FinishClose
    <2> QED
      BY <1>11, <2>3, <2>4 DEF FinishClose, TypeOK, owner, stream
  <1>12. CASE CloseCb \/ OnSentGone
    <2>1. todo' \in Seq(Steps)
      BY <1>0, <1>12, StackTail DEF CloseCb, OnSentGone, Doing
    <2> QED
      BY <1>12, <2>1 DEF CloseCb, OnSentGone, TypeOK, owner, stream, writes
  <1>13. CASE OnSentKeep
    <2>1. todo' \in Seq(Steps)
      BY <1>0, <1>13, StackTail DEF OnSentKeep, Doing
    <2> QED
      BY <1>13, <2>1
      DEF OnSentKeep, StartKeepAliveTimer, TypeOK, stream, writes
  <1>14. CASE OnSentClose
    <2>1. Tail(todo) \in Seq(Steps)
      BY <1>0, <1>14, StackTail DEF OnSentClose, Doing
    <2> QED
      BY <1>14, <2>1, ZenonT(40)
      DEF OnSentClose, CloseSession, RemoveSession, Fail, Faults, TypeOK,
         owner, stream, writes
  <1>15. CASE OnSentUpgrade
    <2>1. todo' \in Seq(Steps)
      BY <1>0, <1>15, StackTail DEF OnSentUpgrade, Doing
    <2> QED
      BY <1>15, <2>1 DEF OnSentUpgrade, CloseSession, RemoveSession, TypeOK,
         writes
  <1>16. CASE OnSentNoUpgrade \/ TimerCbStale
    BY <1>16
    DEF OnSentNoUpgrade, TimerCbStale, Fail, Faults, TypeOK, owner, stream,
       writes
  <1>17. CASE TimerCb
    BY <1>17 DEF TimerCb, CloseSession, RemoveSession, TypeOK, stream, writes
  <1>18. CASE WsFrees
    BY <1>0, <1>18 DEF WsFrees, TypeOK, owner
  <1>19. CASE OnUpgrade
    BY <1>19 DEF OnUpgrade, TypeOK, owner, stream, writes
  <1>20. CASE UNCHANGED vars
    BY <1>20 DEF vars, TypeOK, owner, stream, writes
  <1> QED
    BY <1>1, <1>2, <1>3, <1>4, <1>5, <1>6, <1>7, <1>8, <1>9, <1>10, <1>11,
       <1>12, <1>13, <1>14, <1>15, <1>16, <1>17, <1>18, <1>19, <1>20
    DEF Next, Run, Event

-----------------------------------------------------------------------------
(* A step of a parsing callback: input remains, and nothing of the handle   *)
(* or of the timer changes, except that the timer may be stopped.           *)
LEMMA ParseStep ==
  ASSUME TypeOK, HttpInv, fault = "none", fault' = fault,
         todo # <<>>, Head(todo) \in Inputs,
         todo' = Tail(todo) \/ todo' = Skipped,
         UNCHANGED <<registered, stream, attached>>,
         timer' = timer \/ timer' = "stopped"
  PROVE  OwnedOnce' /\ TimerOwned' /\ FaultCauses' /\ StackInv' /\ HandedInv'
  <1>1. /\ registered /\ timer # "armed"
        /\ Tail(todo) \in Seq(Inputs) /\ Skipped \in Seq(Inputs)
    BY StackTail DEF HttpInv
  <1>2. OwnedOnce' /\ TimerOwned' /\ FaultCauses' /\ HandedInv'
    BY <1>1 DEF HttpInv, OwnedOnce, TimerOwned, FaultCauses, HandedInv, stream
  <1>3. todo' \in Seq(Inputs)
    BY <1>1
  <1>4. "closeCb" \notin Inputs
    BY DEF Inputs, Nothing, Requests
  <1>5. \A i \in 1..Len(todo') : todo'[i] # "closeCb"
    BY <1>3, <1>4
  <1>6. StackInv'
    BY <1>1, <1>3, <1>5 DEF StackInv, stream
  <1> QED
    BY <1>2, <1>6

(* An event that starts no callback keeps StackInv.                         *)
LEMMA IdleStack ==
  ASSUME todo = <<>>, UNCHANGED todo
  PROVE  StackInv'
  <1>1. todo' \in Seq(Responses \cup {"closeCb"}) /\ Len(todo') = 0
    OBVIOUS
  <1> QED
    BY <1>1 DEF StackInv

(* The next write callback of a round.                                      *)
LEMMA RoundStack ==
  ASSUME TypeOK, HttpInv, todo # <<>>, Head(todo) \in Responses \cup {"closeCb"},
         todo' = Tail(todo),
         client' = client \/ client # "closing" \/ Head(todo) = "closeCb"
  PROVE  StackInv'
  <1>1. Head(todo) \notin Inputs
    BY DEF Responses, Inputs, Nothing, Requests
  <1>2. todo' \in Seq(Responses \cup {"closeCb"})
    BY <1>1, StackTail DEF HttpInv
  <1>3. \A i \in 1..Len(todo') :
          todo'[i] = "closeCb" => i = Len(todo') /\ client' = "closing"
    <2>1. CASE client' = client
      BY <2>1, StackTail DEF HttpInv
    <2>2. CASE client # "closing"
      BY <2>2, StackTail DEF HttpInv
    <2>3. CASE Head(todo) = "closeCb"
      <3>1. 1..Len(todo') = {}
        BY <2>3, StackTail DEF HttpInv
      <3> QED
        BY <3>1
    <2> QED
      BY <2>1, <2>2, <2>3
  <1> QED
    BY <1>2, <1>3 DEF StackInv

(* Only OnUpgrade attaches a WsServer.                                      *)
LEMMA AttachedStays == [Next]_vars => OnUpgrade \/ attached' = attached
  <1> SUFFICES ASSUME [Next]_vars PROVE OnUpgrade \/ attached' = attached
    OBVIOUS
  <1>1. CASE Run
    BY <1>1 DEF Run, Partial, ParseError, Blank, Again, HandleRequest, UpgradeToWs,
       OnSentKeep, OnSentClose, OnSentUpgrade, OnSentNoUpgrade, OnSentGone,
       CloseCb, Fail, aside
  <1>2. CASE Event
    BY <1>2 DEF Event, Accept, AcceptFailed, Recv, RecvEnd, Respond, WriteDone,
       RunWriteCallbacks, FinishClose, TimerCb, TimerCbStale, WsFrees, Fail, aside
  <1>3. CASE UNCHANGED vars
    BY <1>3 DEF vars, aside
  <1> QED
    BY <1>1, <1>2, <1>3 DEF Next

(* A WsServer that is attached excuses what it excused before.              *)
LEMMA OnUpgradeInv == TypeOK /\ HttpInv /\ OnUpgrade => HttpInv'
  <1> SUFFICES ASSUME TypeOK, HttpInv, OnUpgrade PROVE HttpInv'
    OBVIOUS
  <1>1. /\ UNCHANGED <<owner, stream, writes, todo, fault>>
        /\ attached' /\ ~attached /\ todo = <<>> /\ fault = "none"
    BY DEF OnUpgrade, Idle
  <1>2. OwnedOnce' /\ TimerOwned' /\ FaultCauses' /\ HandedInv' /\ AnswerInv'
    BY <1>1 DEF HttpInv, OwnedOnce, TimerOwned, FaultCauses, HandedInv, AnswerInv,
       owner, stream, writes
  <1> QED
    BY <1>1, <1>2, IdleStack DEF HttpInv

(* Every other action keeps the invariant.                                  *)
LEMMA StepInv ==
  TypeOK /\ HttpInv /\ [Next]_vars /\ attached' = attached => HttpInv'
  <1> SUFFICES ASSUME TypeOK, HttpInv, [Next]_vars, attached' = attached
               PROVE  HttpInv'
    OBVIOUS
  <1>0. /\ OwnedOnce /\ TimerOwned /\ FaultCauses /\ StackInv /\ HandedInv
        /\ AnswerInv
    BY DEF HttpInv
  <1>1. CASE Accept \/ AcceptFailed
    <2>1. StackInv'
      BY <1>1, IdleStack DEF Accept, AcceptFailed, Idle
    <2>2. OwnedOnce' /\ TimerOwned' /\ FaultCauses' /\ HandedInv'
      BY <1>0, <1>1 DEF Accept, AcceptFailed, HandleConnect, NewSession, Idle,
         OwnedOnce, TimerOwned,
                        FaultCauses, HandedInv, owner
    <2>3. AnswerInv'
      BY <1>0, <1>1 DEF Accept, AcceptFailed, HandleConnect, NewSession, Idle,
         AnswerInv, OwnedOnce,
                        TimerOwned, owner, writes
    <2> QED
      BY <2>1, <2>2, <2>3 DEF HttpInv
  <1>2. ASSUME NEW chunk \in Chunks, Recv(chunk) PROVE HttpInv'
    <2>1. chunk \in Seq(Inputs)
      BY ChunksAssumption
    <2>2. /\ registered /\ fault = "none" /\ UNCHANGED <<registered, stream, fault>>
          /\ ~keepAlive' /\ timer' # "armed"
      BY <1>0, <1>2 DEF Recv, Idle, StopIfKeptAlive, StopKeepAliveTimer,
                        OwnedOnce, TimerOwned, TypeOK, stream
    <2>3. "closeCb" \notin Inputs
      BY DEF Inputs, Nothing, Requests
    <2>4. \A i \in 1..Len(chunk) : chunk[i] # "closeCb"
      BY <2>1, <2>3
    <2>5. StackInv'
      BY <1>2, <2>1, <2>2, <2>4 DEF Recv, StackInv
    <2>6. OwnedOnce' /\ TimerOwned' /\ FaultCauses' /\ HandedInv' /\ AnswerInv'
      BY <1>0, <2>2 DEF OwnedOnce, TimerOwned, FaultCauses, HandedInv,
                        AnswerInv, stream
    <2> QED
      BY <2>5, <2>6 DEF HttpInv
  <1>3. CASE RecvEnd
    <2>1. StackInv'
      BY <1>3, IdleStack DEF RecvEnd, Idle
    <2>2. OwnedOnce' /\ TimerOwned' /\ FaultCauses' /\ HandedInv' /\ AnswerInv'
      BY <1>3 DEF RecvEnd, Idle, CloseSession, RemoveSession,
         StopKeepAliveTimer, OwnedOnce,
                  TimerOwned, FaultCauses, HandedInv, AnswerInv
    <2> QED
      BY <2>1, <2>2 DEF HttpInv
  <1>4. CASE Partial \/ ParseError \/ Blank
    <2>1. /\ todo # <<>> /\ Head(todo) \in Inputs /\ fault = "none"
          /\ todo' = Tail(todo) \/ todo' = Skipped
          /\ UNCHANGED <<owner, stream, writes, fault>>
      BY <1>4 DEF Partial, ParseError, Blank, Parsing, Doing, Inputs, Nothing
    <2>2. AnswerInv'
      <3>1. Head(todo) \notin Responses
        BY <2>1 DEF Inputs, Nothing, Requests, Responses
      <3> QED
        BY <1>0, <2>1, <3>1 DEF AnswerInv, owner, stream, writes
    <2> QED
      BY <2>1, <2>2, ParseStep DEF HttpInv, owner
  <1>5. CASE Again
    <2>1. /\ todo # <<>> /\ Head(todo) \in Inputs /\ fault = "none"
          /\ todo' = Tail(todo) /\ UNCHANGED <<registered, stream, writes, fault>>
          /\ timer' = timer \/ timer' = "stopped"
      BY <1>5 DEF Again, Doing, Inputs, Nothing, StopIfKeptAlive, StopKeepAliveTimer
    <2>2. AnswerInv'
      <3>1. ~keepAlive' /\ timer # "armed"
        BY <1>0, <1>5, <2>1, StackTail
        DEF Again, StopIfKeptAlive, StopKeepAliveTimer, TypeOK
      <3> QED
        BY <2>1, <3>1 DEF AnswerInv
    <2> QED
      BY <2>1, <2>2, ParseStep DEF HttpInv
  <1>6. ASSUME NEW req \in Requests, NEW r \in When,
               HandleRequest(req, r) \/ UpgradeToWs(req, r)
        PROVE  HttpInv'
    <2>1. /\ todo # <<>> /\ Head(todo) \in Inputs /\ fault = "none"
          /\ todo' = Tail(todo) \/ todo' = Skipped
          /\ UNCHANGED <<registered, timer, timerData, stream, fault>>
      BY <1>6 DEF HandleRequest, UpgradeToWs, Parsing, Doing, Inputs
    <2>2. queued' # <<>> \/ done' # <<>> \/ pending' > 0
      BY <1>6, WriteQueues DEF HandleRequest, Answer, UpgradeToWs, Responses,
         TypeOK
    <2>3. AnswerInv'
      <3>1. registered
        BY <1>0, <2>1, StackTail
      <3> QED
        BY <1>0, <2>1, <2>2, <3>1 DEF AnswerInv, OwnedOnce, stream
    <2> QED
      BY <2>1, <2>3, ParseStep DEF HttpInv
  <1>7. ASSUME NEW r \in When, Respond(r) PROVE HttpInv'
    <2>1. StackInv'
      BY <1>7, IdleStack DEF Respond, Idle
    <2>2. OwnedOnce' /\ TimerOwned' /\ FaultCauses' /\ HandedInv'
      BY <1>0, <1>7 DEF Respond, Idle, OwnedOnce, TimerOwned, FaultCauses,
                        HandedInv, owner, stream
    <2>3. AnswerInv'
      BY <1>0, <1>7, WriteQueues
      DEF Respond, AnswerInv, OwnedOnce, owner, stream, Responses
    <2> QED
      BY <2>1, <2>2, <2>3 DEF HttpInv
  <1>8. CASE WriteDone
    <2>1. StackInv'
      BY <1>8, IdleStack DEF WriteDone, Idle
    <2>2. OwnedOnce' /\ TimerOwned' /\ FaultCauses' /\ HandedInv'
      BY <1>0, <1>8 DEF WriteDone, Idle, OwnedOnce, TimerOwned, FaultCauses,
                        HandedInv, owner, stream
    <2>3. done' # <<>>
      BY <1>8, TailElems DEF WriteDone, TypeOK
    <2>4. AnswerInv'
      BY <1>0, <1>8, <2>3 DEF WriteDone, AnswerInv, owner, stream
    <2> QED
      BY <2>1, <2>2, <2>4 DEF HttpInv
  <1>9. CASE RunWriteCallbacks
    <2>1. /\ todo' \in Seq(Responses) /\ todo' # <<>>
          /\ UNCHANGED <<owner, stream, fault>>
      BY <1>9 DEF RunWriteCallbacks, TypeOK
    <2>2. "closeCb" \notin Responses
      BY DEF Responses
    <2>3. \A i \in 1..Len(todo') : todo'[i] # "closeCb"
      BY <2>1, <2>2
    <2>4. StackInv'
      BY <2>1, <2>3 DEF StackInv
    <2>5. Head(todo') \in Responses
      BY <2>1
    <2>6. OwnedOnce' /\ TimerOwned' /\ FaultCauses' /\ HandedInv'
      BY <1>0, <2>1 DEF OwnedOnce, TimerOwned, FaultCauses, HandedInv, owner,
                        stream
    <2>7. AnswerInv'
      BY <1>0, <2>1, <2>5 DEF AnswerInv, owner, stream
    <2> QED
      BY <2>4, <2>6, <2>7 DEF HttpInv
  <1>10. CASE FinishClose
    <2>1. /\ todo' = done \o queued \o <<"closeCb">> /\ client = "closing"
          /\ UNCHANGED <<owner, stream, fault>>
          /\ done \in Seq(Responses) /\ queued \in Seq(Responses)
      BY <1>10 DEF FinishClose, TypeOK
    <2>2. "closeCb" \notin Responses
      BY DEF Responses
    <2>3. StackInv'
      <3>1. todo' \in Seq(Responses \cup {"closeCb"})
        BY <2>1
      <3>2. done \o queued \in Seq(Responses)
        BY <2>1
      <3>3. \A i \in 1..Len(done \o queued) : (done \o queued)[i] # "closeCb"
        BY <2>2, <3>2
      <3>4. \A i \in 1..Len(todo') : todo'[i] = "closeCb" => i = Len(todo')
        BY <2>1, <3>2, <3>3
      <3> QED
        BY <2>1, <3>1, <3>4 DEF StackInv, stream
    <2>4. OwnedOnce' /\ TimerOwned' /\ FaultCauses' /\ HandedInv'
      BY <1>0, <2>1 DEF OwnedOnce, TimerOwned, FaultCauses, HandedInv, owner,
                        stream
    <2>5. AnswerInv'
      BY <1>0, <2>1 DEF AnswerInv, OwnedOnce, owner, stream
    <2> QED
      BY <2>3, <2>4, <2>5 DEF HttpInv
  <1>11. CASE CloseCb
    <2>1. StackInv'
      BY <1>11, RoundStack DEF CloseCb, Doing
    <2>2. client = "closing"
      BY <1>0, <1>11, StackTail DEF CloseCb, Doing
    <2>3. OwnedOnce' /\ TimerOwned' /\ FaultCauses' /\ HandedInv' /\ AnswerInv'
      BY <1>0, <1>11, <2>2 DEF CloseCb, Doing, OwnedOnce, TimerOwned,
         FaultCauses, HandedInv, AnswerInv, owner
    <2> QED
      BY <2>1, <2>3 DEF HttpInv
  <1>12. CASE OnSentKeep
    <2>1. StackInv'
      BY <1>12, RoundStack DEF OnSentKeep, Doing, Responses, stream
    <2>2. OwnedOnce' /\ TimerOwned' /\ FaultCauses' /\ HandedInv' /\ AnswerInv'
      BY <1>0, <1>12 DEF OnSentKeep, Doing, Lock, StartKeepAliveTimer,
         OwnedOnce,
         TimerOwned, FaultCauses, HandedInv, AnswerInv, stream
    <2> QED
      BY <2>1, <2>2 DEF HttpInv
  <1>13. CASE OnSentClose
    <2>1. /\ client = "open" /\ ~keepAlive /\ todo # <<>> /\ Head(todo) = "resp"
          /\ fault = "none" /\ CloseSession(FALSE) /\ todo' = Tail(todo)
          /\ UNCHANGED <<keepAlive, timer, timerData, fault>>
      BY <1>0, <1>13 DEF OnSentClose, Doing, Lock, OwnedOnce
    <2>2. StackInv'
      BY <2>1, RoundStack DEF Responses
    <2>3. OwnedOnce' /\ TimerOwned' /\ FaultCauses' /\ HandedInv' /\ AnswerInv'
      BY <1>0, <2>1 DEF CloseSession, RemoveSession, OwnedOnce, TimerOwned,
         FaultCauses,
         HandedInv, AnswerInv
    <2> QED
      BY <2>2, <2>3 DEF HttpInv
  <1>14. CASE OnSentUpgrade
    <2>1. client = "open"
      BY <1>0, <1>14 DEF OnSentUpgrade, Lock, OwnedOnce
    <2>2. StackInv'
      BY <1>14, <2>1, RoundStack DEF OnSentUpgrade, Doing, Responses
    <2>3. OwnedOnce' /\ TimerOwned' /\ FaultCauses' /\ HandedInv' /\ AnswerInv'
      BY <1>0, <1>14 DEF OnSentUpgrade, Doing, CloseSession, RemoveSession,
         OwnedOnce,
         TimerOwned, FaultCauses, HandedInv, AnswerInv
    <2> QED
      BY <2>2, <2>3 DEF HttpInv
  <1>15. CASE OnSentNoUpgrade \/ TimerCbStale
    <2>1. UNCHANGED <<owner, stream, writes, todo>>
      BY <1>15 DEF OnSentNoUpgrade, TimerCbStale, Fail
    <2>2. OwnedOnce' /\ TimerOwned' /\ StackInv' /\ HandedInv' /\ AnswerInv'
      BY <1>0, <2>1 DEF OwnedOnce, TimerOwned, StackInv, HandedInv, AnswerInv,
         owner, stream, writes
    <2>3. FaultCauses'
      BY <1>0, <1>15, <2>1 DEF OnSentNoUpgrade, TimerCbStale, Fail,
         FaultCauses,
         TimerOwned, owner, stream
    <2> QED
      BY <2>2, <2>3 DEF HttpInv
  <1>16. CASE OnSentGone
    <2>1. StackInv'
      BY <1>16, RoundStack DEF OnSentGone, Doing, stream
    <2>2. OwnedOnce' /\ TimerOwned' /\ FaultCauses' /\ HandedInv' /\ AnswerInv'
      BY <1>0, <1>16 DEF OnSentGone, Lock, OwnedOnce, TimerOwned, FaultCauses,
         HandedInv, AnswerInv, owner, stream
    <2> QED
      BY <2>1, <2>2 DEF HttpInv
  <1>17. CASE TimerCb
    <2>1. StackInv'
      BY <1>17, IdleStack DEF TimerCb, Idle
    <2>2. CloseSession(FALSE)
      BY <1>0, <1>17 DEF TimerCb, AnswerInv
    <2>3. OwnedOnce' /\ TimerOwned' /\ FaultCauses' /\ HandedInv' /\ AnswerInv'
      BY <1>17, <2>2 DEF TimerCb, Idle, CloseSession, RemoveSession,
         OwnedOnce, TimerOwned,
         FaultCauses, HandedInv, AnswerInv
    <2> QED
      BY <2>1, <2>3 DEF HttpInv
  <1>18. CASE WsFrees
    <2>1. StackInv'
      BY <1>18, IdleStack DEF WsFrees, Idle
    <2>2. OwnedOnce' /\ TimerOwned' /\ FaultCauses' /\ HandedInv' /\ AnswerInv'
      BY <1>0, <1>18 DEF WsFrees, Idle, OwnedOnce, TimerOwned, FaultCauses,
         HandedInv, AnswerInv, owner
    <2> QED
      BY <2>1, <2>2 DEF HttpInv
  <1>19. CASE UNCHANGED vars
    BY <1>0, <1>19 DEF vars, HttpInv, OwnedOnce, TimerOwned, FaultCauses,
       StackInv, HandedInv, AnswerInv, owner, stream, writes
  <1>20. ~OnUpgrade
    BY DEF OnUpgrade
  <1> QED
    BY <1>1, <1>2, <1>3, <1>4, <1>5, <1>6, <1>7, <1>8, <1>9, <1>10, <1>11,
       <1>12, <1>13, <1>14, <1>15, <1>16, <1>17, <1>18, <1>19, <1>20
    DEF Next, Run, Event

(* Every action keeps the invariant.                                        *)
LEMMA InvNext == TypeOK /\ HttpInv /\ [Next]_vars => HttpInv'
  BY AttachedStays, OnUpgradeInv, StepInv

-----------------------------------------------------------------------------
(* The types and the inductive invariant hold in every reachable state.     *)
THEOREM HttpInvariant == Spec => [](TypeOK /\ HttpInv)
  BY InitInv, TypeNext, InvNext, PTL DEF Spec

(* m_sessions, the handle and the read in force agree: recv_cb never finds  *)
(* a Session that closeSession has let go.                                  *)
THEOREM AlwaysOwnedOnce == Spec => []OwnedOnce
  <1>1. TypeOK /\ HttpInv => OwnedOnce
    BY DEF HttpInv
  <1> QED
    BY <1>1, HttpInvariant, PTL

(* Only an upgrade leaves the keep-alive timer running for a Session that   *)
(* is gone.                                                                 *)
THEOREM TimerAlwaysOwned == Spec => []TimerOwned
  <1>1. TypeOK /\ HttpInv => TimerOwned
    BY DEF HttpInv
  <1> QED
    BY <1>1, HttpInvariant, PTL

(* A kept connection that has nothing to answer or to send is timed.        *)
THEOREM KeptAliveAlwaysTimed == Spec => []KeptAliveIsTimed
  <1>1. TypeOK /\ HttpInv => KeptAliveIsTimed
    BY DEF TypeOK, HttpInv, AnswerInv, KeptAliveIsTimed, Idle
  <1> QED
    BY <1>1, HttpInvariant, PTL

(* The handle is never closed twice, and every fault has the cause that     *)
(* FaultCauses gives it.                                                    *)
THEOREM HttpFaultsHaveCauses == Spec => []FaultCauses
  <1>1. TypeOK /\ HttpInv => FaultCauses
    BY DEF HttpInv
  <1> QED
    BY <1>1, HttpInvariant, PTL

(* The variables of HttpSession keep their types; the code never sends an   *)
(* answer that no request waits for.                                        *)
THEOREM HttpTypeCorrect == Spec => []TypeOK
  <1>1. TypeOK /\ HttpInv => TypeOK
    OBVIOUS
  <1> QED
    BY <1>1, HttpInvariant, PTL

-----------------------------------------------------------------------------
(* The connections that only the peer can end *)

(* Something will end the connection or start its timer: the timer, an      *)
(* answer, an onSent that runs, or input of which an answer or an error     *)
(* will come.                                                               *)
Attended ==
  \/ timer = "armed"
  \/ pending > 0 \/ queued # <<>> \/ done # <<>>
  \/ todo # <<>> /\ Head(todo) \in Responses
  \/ \E i \in 1..Len(todo) : todo[i] \in Inputs \ Nothing

Unfinished == chunks = 0 \/ parser \in {"partial", "error"} \/ spurious

UntimedInv ==
  /\ registered /\ fault = "none" => Attended \/ Unfinished
  /\ client = "none" => chunks = 0

(* What is parsed comes before what is not: input that brings something is  *)
(* the first of the chunk, or is still in the rest of it.                   *)
LEMMA StillToCome ==
  ASSUME TypeOK, todo # <<>>, Head(todo) \in Nothing,
         \E i \in 1..Len(todo) : todo[i] \in Inputs \ Nothing
  PROVE  \E i \in 1..Len(Tail(todo)) : Tail(todo)[i] \in Inputs \ Nothing
  <1>1. PICK i \in 1..Len(todo) : todo[i] \in Inputs \ Nothing
    OBVIOUS
  <1>2. Head(todo) = todo[1] /\ Len(todo) \in Nat /\ Len(Tail(todo)) = Len(todo) - 1
        /\ \A k \in 1..Len(Tail(todo)) : Tail(todo)[k] = todo[k + 1]
    BY TailElems DEF TypeOK
  <1>3. i # 1
    BY <1>1, <1>2
  <1>4. i - 1 \in 1..Len(Tail(todo)) /\ Tail(todo)[i - 1] = todo[i]
    BY <1>2, <1>3
  <1> QED
    BY <1>1, <1>4

(* No read before the accept.                                               *)
LEMMA UnreadNext ==
  ASSUME TypeOK, HttpInv, UntimedInv, [Next]_vars
  PROVE  (client = "none" => chunks = 0)'
  <1>0. OwnedOnce
    BY DEF HttpInv
  <1>1. CASE Run
    BY <1>0, <1>1 DEF Run, Partial, ParseError, Blank, Again, HandleRequest, UpgradeToWs,
       OnSentKeep, OnSentClose, OnSentUpgrade, OnSentNoUpgrade, OnSentGone, CloseCb,
       CloseSession, Fail, aside, stream, UntimedInv
  <1>2. CASE Event
    BY <1>0, <1>2 DEF Event, OnUpgrade, Accept, AcceptFailed, Recv, RecvEnd, Respond,
       WriteDone, RunWriteCallbacks, FinishClose, TimerCb, TimerCbStale, WsFrees,
       CloseSession, Fail, aside, stream, UntimedInv, OwnedOnce
  <1>3. CASE UNCHANGED vars
    BY <1>3 DEF vars, aside, stream, UntimedInv
  <1> QED
    BY <1>1, <1>2, <1>3 DEF Next

(* Every action keeps it.                                                   *)
LEMMA UntimedNext ==
  ASSUME TypeOK, HttpInv, UntimedInv, [Next]_vars
  PROVE  UntimedInv'
  <1> SUFFICES ASSUME registered', fault' = "none" PROVE (Attended \/ Unfinished)'
    BY UnreadNext DEF UntimedInv
  <1>0. OwnedOnce /\ StackInv /\ AnswerInv
    BY DEF HttpInv
  <1>1. CASE OnUpgrade
    BY <1>1 DEF OnUpgrade, UntimedInv, Attended, Unfinished, owner, writes
  <1>2. CASE Accept \/ AcceptFailed
    BY <1>2 DEF Accept, AcceptFailed, aside, UntimedInv, Unfinished
  <1>3. ASSUME NEW chunk \in Chunks, Recv(chunk) PROVE (Attended \/ Unfinished)'
    <2>1. todo' = chunk /\ chunk \in Seq(Inputs)
          /\ spurious' = \A i \in 1..Len(chunk) : chunk[i] \in Nothing
      BY <1>3, ChunksAssumption DEF Recv
    <2>2. CASE \A i \in 1..Len(chunk) : chunk[i] \in Nothing
      <3>1. spurious'
        BY <2>1, <2>2, Zenon
      <3> QED
        BY <3>1 DEF Unfinished
    <2>3. CASE \E i \in 1..Len(chunk) : chunk[i] \notin Nothing
      <3>1. PICK i \in 1..Len(chunk) : chunk[i] \notin Nothing
        BY <2>3
      <3>2. i \in 1..Len(todo') /\ todo'[i] \in Inputs \ Nothing
        BY <2>1, <3>1
      <3> QED
        BY <3>2 DEF Attended
    <2> QED
      BY <2>2, <2>3
  <1>4. CASE RecvEnd \/ OnSentUpgrade \/ TimerCb \/ OnSentNoUpgrade \/ TimerCbStale
    BY <1>0, <1>4 DEF RecvEnd, OnSentUpgrade, TimerCb, OnSentNoUpgrade, TimerCbStale,
       CloseSession, RemoveSession, Fail, AnswerInv
  <1>5. CASE Partial \/ ParseError
    BY <1>5 DEF Partial, ParseError, Unfinished
  <1>6. CASE Blank \/ Again
    <2>1. /\ todo # <<>> /\ Head(todo) \in Nothing /\ todo' = Tail(todo) /\ fault = "none"
          /\ UNCHANGED <<registered, writes, aside>>
          /\ parser' = parser \/ parser' = "error"
      BY <1>6 DEF Blank, Again, Doing, Nothing, owner
    <2>2. timer # "armed" /\ Head(todo) \notin Responses
      <3>1. Head(todo) \in Inputs /\ Head(todo) \notin Responses
        BY <2>1 DEF Inputs, Nothing, Responses
      <3> QED
        BY <1>0, <2>1, <3>1, StackTail
    <2>3. CASE \E i \in 1..Len(todo) : todo[i] \in Inputs \ Nothing
      BY <2>1, <2>3, StillToCome DEF Attended
    <2>4. CASE pending > 0 \/ queued # <<>> \/ done # <<>>
      BY <2>1, <2>4 DEF Attended, writes
    <2>5. CASE Unfinished
      BY <2>1, <2>5 DEF Unfinished, aside
    <2> QED
      BY <2>1, <2>2, <2>3, <2>4, <2>5 DEF UntimedInv, Attended
  <1>7. ASSUME NEW req \in Requests, NEW r \in When,
               HandleRequest(req, r) \/ UpgradeToWs(req, r)
        PROVE  Attended'
    <2>1. (\E kind \in Responses : Write(kind, r)) \/ pending' = pending + 1
      BY <1>7 DEF HandleRequest, Answer, UpgradeToWs, Responses
    <2>2. queued' # <<>> \/ done' # <<>> \/ pending' > 0
      BY <2>1, WriteQueues DEF TypeOK
    <2> QED
      BY <2>2 DEF Attended
  <1>8. ASSUME NEW r \in When, Respond(r) PROVE Attended'
    <2>1. client = "open"
      BY <1>0, <1>8 DEF Respond, OwnedOnce, owner
    <2>2. Write("resp", r)
      BY <1>8, <2>1 DEF Respond
    <2> QED
      BY <2>2, WriteQueues DEF Responses, Attended
  <1>9. CASE WriteDone
    <2>1. done' # <<>>
      BY <1>9, TailElems DEF WriteDone, TypeOK
    <2> QED
      BY <2>1 DEF Attended
  <1>10. CASE RunWriteCallbacks
    <2>1. todo' # <<>> /\ todo' \in Seq(Responses)
      BY <1>10 DEF RunWriteCallbacks, TypeOK
    <2>2. Head(todo') \in Responses
      BY <2>1
    <2> QED
      BY <2>1, <2>2 DEF Attended
  <1>11. CASE FinishClose \/ CloseCb \/ WsFrees
    <2>1. ~registered
      BY <1>0, <1>11, StackTail DEF FinishClose, CloseCb, WsFrees, Doing, OwnedOnce
    <2> QED
      BY <1>11, <2>1 DEF FinishClose, CloseCb, WsFrees, owner
  <1>12. CASE OnSentKeep
    BY <1>12 DEF OnSentKeep, StartKeepAliveTimer, Attended
  <1>13. CASE OnSentClose \/ OnSentGone
    BY <1>0, <1>13 DEF OnSentClose, OnSentGone, Lock, CloseSession, RemoveSession, Fail,
       OwnedOnce, owner
  <1>14. CASE UNCHANGED vars
    BY <1>14 DEF vars, owner, writes, aside, UntimedInv, Attended, Unfinished
  <1> QED
    BY <1>1, <1>2, <1>3, <1>4, <1>5, <1>6, <1>7, <1>8, <1>9, <1>10, <1>11, <1>12, <1>13,
       <1>14 DEF Next, Run, Event

(* A connection that stays for ever unless the peer ends it has sent        *)
(* nothing, or no whole request, or its last bytes brought nothing.         *)
THEOREM UntimedAreUnfinished == Spec => []UntimedIsUnfinished
  <1>1. Init => UntimedInv
    BY DEF Init, UntimedInv
  <1>2. TypeOK /\ HttpInv /\ UntimedInv /\ [Next]_vars => UntimedInv'
    BY UntimedNext
  <1>3. Spec => []UntimedInv
    BY <1>1, <1>2, HttpInvariant, PTL DEF Spec
  <1>4. TypeOK /\ UntimedInv => UntimedIsUnfinished
    BY DEF TypeOK, UntimedInv, Attended, Unfinished, UntimedIsUnfinished, Idle
  <1> QED
    BY <1>3, <1>4, HttpTypeCorrect, PTL

-----------------------------------------------------------------------------
(* What no callback does once the connection of a Session has ended: list   *)
(* the Session in m_sessions or read into it again, or write into its       *)
(* m_isKeepAlive, its timer or its m_parser, whose memory is released.  Its *)
(* handle goes only on to be deleted, and no further request waits for an   *)
(* answer.  onSent and the parser have nothing but weak_ptr::lock and the   *)
(* read that was stopped to keep them away.                                 *)
Untouched ==
  client \in {"closing", "handed", "freed"} =>
    /\ ~registered' /\ ~reading'
    /\ UNCHANGED <<keepAlive, timer, timerData, parser, chunks>>
    /\ client' \in {client, "freed"}
    /\ pending' <= pending

(* Input is parsed only for a Session that m_sessions still holds.          *)
LEMMA InputIsOwned ==
  ASSUME TypeOK, HttpInv, NEW what \in Inputs, Doing(what)
  PROVE  registered
  <1>1. what \notin Responses \cup {"closeCb"}
    BY DEF Inputs, Requests, Nothing, Responses
  <1>2. todo # <<>> /\ Head(todo) = what
    BY DEF Doing
  <1>3. CASE todo \in Seq(Responses \cup {"closeCb"})
    BY <1>1, <1>2, <1>3
  <1> QED
    BY <1>3 DEF HttpInv, StackInv

(* A Session whose connection has ended is not touched, in every step.      *)
THEOREM EndedForGood == Spec => [][Untouched]_vars
  <1>1. TypeOK /\ HttpInv /\ (TypeOK /\ HttpInv)' /\ [Next]_vars => [Untouched]_vars
    <2> SUFFICES ASSUME TypeOK, HttpInv, TypeOK', HttpInv', Next,
                        client \in {"closing", "handed", "freed"}
                 PROVE  Untouched
      BY DEF Untouched
    <2>1. ~registered /\ ~reading
      BY DEF HttpInv, OwnedOnce
    <2>2. \A what \in Inputs : ~Doing(what)
      BY <2>1, InputIsOwned
    <2>3. Requests \subseteq Inputs /\ Nothing \subseteq Inputs
          /\ {"partial", "bad", "blank", "again"} \subseteq Inputs
      BY DEF Inputs, Nothing
    <2>4. \/ OnSentGone \/ CloseCb \/ OnUpgrade
          \/ \E r \in When : Respond(r)
          \/ WriteDone \/ RunWriteCallbacks \/ FinishClose
          \/ TimerCbStale \/ WsFrees
      BY <2>1, <2>2, <2>3
      DEF Next, Run, Event, Partial, ParseError, Blank, Again, HandleRequest,
          UpgradeToWs, Parsing, OnSentKeep, OnSentClose, OnSentUpgrade,
          OnSentNoUpgrade, Lock, Accept, AcceptFailed, Recv, RecvEnd, TimerCb
    <2>5. /\ UNCHANGED <<owner, reading, parser, chunks>>
          /\ client' \in {client, "freed"}
          /\ pending' \in {pending, pending - 1}
      BY <2>4
      DEF OnSentGone, CloseCb, OnUpgrade, Respond, WriteDone, RunWriteCallbacks,
          FinishClose, TimerCbStale, WsFrees, Fail, stream, writes, aside
    <2> QED
      BY <2>1, <2>5 DEF Untouched, owner, TypeOK
  <1> QED
    BY <1>1, HttpInvariant, PTL DEF Spec
=============================================================================
