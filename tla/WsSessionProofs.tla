-------------------------- MODULE WsSessionProofs --------------------------
(***************************************************************************)
(* For every set of chunks and every number of reads and application       *)
(* calls: a session that says OPEN is usable, a closed one is forgotten,   *)
(* and FaultCauses lists every way to a fault.                             *)
(***************************************************************************)
EXTENDS WsSession, TLAPS

(* What a callback has to do after its first step was replaced by steps.    *)
LEMMA ContinueElems ==
  ASSUME NEW t \in Seq(Steps), t # <<>>, NEW steps \in Seq(Steps),
         NEW u, u = steps \o Tail(t)
  PROVE  /\ u \in Seq(Steps)
         /\ Len(u) = Len(steps) + Len(t) - 1
         /\ \A i \in 1..Len(steps) : u[i] = steps[i]
         /\ \A i \in (Len(steps) + 1)..Len(u) : u[i] = t[i - Len(steps) + 1]
         /\ \A i \in 2..Len(t) : u[i + Len(steps) - 1] = t[i]
         /\ Head(t) = t[1] /\ Head(t) \in Steps
         /\ Len(t) \in Nat \ {0}
         /\ Len(steps) \in Nat
  OBVIOUS

(* What is pending after steps replaced the first step.                     *)
LEMMA ContinueContains ==
  ASSUME NEW t \in Seq(Steps), t # <<>>, NEW steps \in Seq(Steps),
         NEW u, u = steps \o Tail(t), NEW x
  PROVE  /\ Contains(u, x) => Contains(steps, x) \/ Contains(t, x)
         /\ Contains(t, x) /\ Head(t) # x => Contains(u, x)
         /\ Contains(steps, x) => Contains(u, x)
  <1>1. Contains(u, x) => Contains(steps, x) \/ Contains(t, x)
    <2> SUFFICES ASSUME NEW i \in 1..Len(u), u[i] = x
                 PROVE  Contains(steps, x) \/ Contains(t, x)
      BY DEF Contains
    <2>1. CASE i <= Len(steps)
      BY <2>1, ContinueElems DEF Contains
    <2>2. CASE i > Len(steps)
      <3>1. i - Len(steps) + 1 \in 1..Len(t)
        BY <2>2, ContinueElems
      <3>2. t[i - Len(steps) + 1] = x
        BY <2>2, ContinueElems
      <3> QED
        BY <3>1, <3>2 DEF Contains
    <2> QED
      BY <2>1, <2>2, ContinueElems
  <1>2. Contains(t, x) /\ Head(t) # x => Contains(u, x)
    <2> SUFFICES ASSUME NEW i \in 1..Len(t), t[i] = x, Head(t) # x
                 PROVE  Contains(u, x)
      BY DEF Contains
    <2>1. i \in 2..Len(t)
      BY ContinueElems
    <2>2. i + Len(steps) - 1 \in 1..Len(u)
      BY <2>1, ContinueElems
    <2>3. u[i + Len(steps) - 1] = x
      BY <2>1, ContinueElems
    <2> QED
      BY <2>2, <2>3 DEF Contains
  <1>3. Contains(steps, x) => Contains(u, x)
    <2> SUFFICES ASSUME NEW i \in 1..Len(steps), steps[i] = x
                 PROVE  Contains(u, x)
      BY DEF Contains
    <2>1. i \in 1..Len(u) /\ u[i] = x
      BY ContinueElems
    <2> QED
      BY <2>1 DEF Contains
  <1> QED
    BY <1>1, <1>2, <1>3

-----------------------------------------------------------------------------
(* The steps that are written down in the actions are steps.                *)
LEMMA StepSeqs ==
  /\ <<>> \in Seq(Steps)
  /\ \A a \in Steps : <<a>> \in Seq(Steps)
  /\ \A a, b \in Steps : <<a, b>> \in Seq(Steps)
  /\ \A a, b, c \in Steps : <<a, b, c>> \in Seq(Steps)
  OBVIOUS

(* The names of the steps.                                                  *)
LEMMA StepNames ==
  /\ {"serverOnConnectCb", "onConnectCb", "onMessageCb", "onErrorCb",
      "onCloseCb", "writeOk", "writeErr", "connect", "removeWsSession",
      "deleteAgain", "interClose", "returnRecv", "closeCb"} \subseteq Steps
  /\ FrameKinds \subseteq Steps
  BY DEF Steps, Owning, Callbacks, WriteCbs

(* The callbacks that libuv owes for results.                               *)
LEMMA DueType ==
  ASSUME NEW results \in Seq({"ok", "err"})
  PROVE  /\ Due(results) \in Seq(Steps)
         /\ Len(Due(results)) = Len(results)
         /\ \A i \in 1..Len(results) : Due(results)[i] \in WriteCbs
  <1>1. \A i \in 1..Len(results) :
          (IF results[i] = "ok" THEN "writeOk" ELSE "writeErr") \in WriteCbs
    BY DEF WriteCbs
  <1>2. WriteCbs \subseteq Steps
    BY DEF Steps, Owning
  <1> QED
    BY <1>1, <1>2 DEF Due

(* uv_write leaves the queues well formed.                                  *)
LEMMA InterSendType ==
  ASSUME TypeOK, NEW r \in Results, NEW readers \in Nat, InterSend(r, readers)
  PROVE  /\ queued' \in Nat
         /\ done' \in Seq({"ok", "err"})
         /\ leaked' \in Nat
         /\ fault' \in Faults
         /\ fault' = fault \/ (fault' = "stale_client" /\ client = "freed")
  <1>1. r = "later" \/ r \in {"ok", "err"}
    BY DEF Results
  <1>2. CASE client = "open"
    <2>1. CASE r # "later" /\ queued = 0
      <3>1. done' = Append(done, r) /\ queued' = queued
        BY <1>2, <2>1 DEF InterSend
      <3> QED
        BY <1>1, <1>2, <2>1, <3>1 DEF InterSend, TypeOK
    <2>2. CASE ~(r # "later" /\ queued = 0)
      BY <1>2, <2>2 DEF InterSend, TypeOK
    <2> QED
      BY <2>1, <2>2
  <1>3. CASE client = "closing"
    BY <1>3 DEF InterSend, TypeOK
  <1>4. CASE client = "freed"
    BY <1>4 DEF InterSend, TypeOK, Faults
  <1> QED
    BY <1>2, <1>3, <1>4 DEF TypeOK

-----------------------------------------------------------------------------
(* The initial state.                                                       *)
LEMMA InitInv == Init => TypeOK /\ SessionInv
  <1> SUFFICES ASSUME Init PROVE TypeOK /\ SessionInv
    OBVIOUS
  <1>1. TypeOK
    <2>1. /\ <<>> \in Seq(Steps) /\ <<>> \in Seq({"ok", "err"})
          /\ 0 \in Nat
      OBVIOUS
    <2> QED
      BY <2>1, Zenon DEF Init, TypeOK, Faults
  <1>2. SessionInv
    BY DEF Init, SessionInv, OpenIsUsable, FaultCauses, CloseInv, ConnectInv,
           StackInv, Contains
  <1> QED
    BY <1>1, <1>2

(* A step that replaces the first entry of todo keeps it a sequence of      *)
(* steps.                                                                   *)
LEMMA ContinueType ==
  ASSUME TypeOK, todo # <<>>, NEW steps \in Seq(Steps), Continue(steps)
  PROVE  todo' \in Seq(Steps)
  BY ContinueElems DEF TypeOK, Continue

(* Every action keeps the types.                                            *)
LEMMA TypeNext == TypeOK /\ [Next]_vars => TypeOK'
  <1> SUFFICES ASSUME TypeOK, [Next]_vars PROVE TypeOK'
    OBVIOUS
  <1> USE StepSeqs, StepNames
  <1>1. CASE OnUpgrade
    <2>1. todo' \in Seq(Steps)
      BY <1>1 DEF OnUpgrade
    <2> QED
      BY <1>1, <2>1 DEF OnUpgrade, TypeOK, stream, bounds
  <1>2. CASE Connect
    <2>1. todo' \in Seq(Steps)
      BY <1>2, ContinueType DEF Connect, Doing
    <2> QED
      BY <1>2, <2>1 DEF Connect, TypeOK, bounds
  <1>3. CASE InterClose
    <2>1. todo' \in Seq(Steps)
      BY <1>3, ContinueType DEF InterClose, Doing
    <2>2. readyState' = "CLOSED" /\ client' = "closing" /\ closes' \in Nat
      BY <1>3 DEF InterClose, StateOnClose, TypeOK
    <2> QED
      BY <1>3, <2>1, <2>2 DEF InterClose, TypeOK, bounds
  <1>4. CASE \/ InterCloseAgain \/ InterCloseStale \/ FrameStale \/ DeleteAgain
             \/ FileFailedStale
    <2>1. fault' \in Faults /\ UNCHANGED <<session, stream, files, todo, bounds>>
      BY <1>4 DEF InterCloseAgain, InterCloseStale, FrameStale, DeleteAgain,
                  FileFailedStale, Fail, Faults
    <2> QED
      BY <2>1 DEF TypeOK, session, stream, bounds
  <1>5. CASE RemoveWsSession
    <2>1. todo' \in Seq(Steps)
      BY <1>5, ContinueType DEF RemoveWsSession, Doing
    <2> QED
      BY <1>5, <2>1 DEF RemoveWsSession, TypeOK, stream, bounds
  <1>6. ASSUME NEW kind \in FrameKinds \ {"ping", "refused"},
               HandleWsFrame(kind)
        PROVE  TypeOK'
    <2>1. OnFrame(kind) \in Seq(Steps)
      BY DEF OnFrame, FrameKinds
    <2>2. todo' \in Seq(Steps)
      BY <1>6, <2>1, ContinueType DEF HandleWsFrame, Doing
    <2> QED
      BY <1>6, <2>2 DEF HandleWsFrame, TypeOK, session, stream, bounds
  <1>7. ASSUME NEW r \in Results, HandlePing(r)
        PROVE  TypeOK'
    <2>1. todo' \in Seq(Steps)
      BY <1>7, ContinueType DEF HandlePing, Doing
    <2> QED
      BY <1>7, <2>1, InterSendType DEF HandlePing, TypeOK, bounds
  <1>8. CASE HandleRefused
    <2>1. todo' \in Seq(Steps)
      BY <1>8, ContinueType DEF HandleRefused, Doing
    <2> QED
      BY <1>8, <2>1 DEF HandleRefused, TypeOK, session, stream, bounds
  <1>9. CASE ReturnRecv \/ WriteCbOk \/ WriteCbErr \/ Return
    <2>1. /\ todo # <<>>
          /\ \E steps \in Seq(Steps) : Continue(steps)
          /\ UNCHANGED <<session, stream, files, fault, bounds>>
      BY <1>9 DEF ReturnRecv, WriteCbOk, WriteCbErr, Return, InCallback, Doing
    <2>2. todo' \in Seq(Steps)
      BY <2>1, ContinueType
    <2> QED
      BY <2>1, <2>2 DEF TypeOK, session, stream, bounds
  <1>10. CASE CloseCb
    <2>1. todo' \in Seq(Steps)
      BY <1>10, ContinueType DEF CloseCb, Doing
    <2> QED
      BY <1>10, <2>1 DEF CloseCb, TypeOK, session, bounds
  <1>11. ASSUME NEW chunk \in Chunks, Recv(chunk)
         PROVE  TypeOK'
    <2>1. chunk \in Seq(Steps)
      BY ChunksAssumption
    <2>2. chunk \o <<"returnRecv">> \in Seq(Steps)
      BY <2>1
    <2>3. todo' \in Seq(Steps)
      BY <1>11, <2>2 DEF Recv
    <2> QED
      BY <1>11, <2>3 DEF Recv, TypeOK, session, stream
  <1>12. CASE RecvEnd
    BY <1>12 DEF RecvEnd, TypeOK, session, stream, bounds
  <1>13. ASSUME NEW r \in {"ok", "err"}, WriteDone(r)
         PROVE  TypeOK'
    BY <1>13 DEF WriteDone, TypeOK, session, bounds
  <1>14. CASE RunWriteCallbacks
    <2>1. todo' \in Seq(Steps) /\ done' \in Seq({"ok", "err"})
      BY <1>14, DueType DEF RunWriteCallbacks, TypeOK
    <2> QED
      BY <1>14, <2>1 DEF RunWriteCallbacks, TypeOK, session, bounds
  <1>15. CASE FinishClose
    <2>1. Due(done) \in Seq(Steps)
      BY DueType DEF TypeOK
    <2>2. [i \in 1..queued |-> "writeErr"] \in Seq(Steps)
      BY DEF TypeOK
    <2>3. todo' \in Seq(Steps) /\ done' \in Seq({"ok", "err"})
      BY <1>15, <2>1, <2>2 DEF FinishClose
    <2> QED
      BY <1>15, <2>3 DEF FinishClose, TypeOK, session, bounds
  <1>16. ASSUME NEW r \in Results, FileSent(r)
         PROVE  TypeOK'
    BY <1>16, InterSendType DEF FileSent, TypeOK, bounds
  <1>17. CASE FileFailed
    BY <1>17 DEF FileFailed, TypeOK, session, stream, bounds
  <1>18. ASSUME NEW r \in Results, Send(r)
         PROVE  TypeOK'
    BY <1>18, InterSendType DEF Send, TypeOK
  <1>19. CASE SendFile
    BY <1>19 DEF SendFile, TypeOK, session, stream
  <1>20. CASE Close
    <2>1. todo' \in Seq(Steps)
      BY <1>20 DEF Close, TypeOK
    <2> QED
      BY <1>20, <2>1 DEF Close, TypeOK, session, stream
  <1>21. CASE Hold \/ Drop
    BY <1>21 DEF Hold, Drop, TypeOK, stream, bounds
  <1>22. CASE UNCHANGED vars
    BY <1>22 DEF vars, session, stream, bounds, TypeOK
  <1> QED
    BY <1>1, <1>2, <1>3, <1>4, <1>5, <1>6, <1>7, <1>8, <1>9, <1>10, <1>11,
       <1>12, <1>13, <1>14, <1>15, <1>16, <1>17, <1>18, <1>19, <1>20, <1>21,
       <1>22
    DEF Next, Run, Event, Application

-----------------------------------------------------------------------------
(* The parts of SessionInv that do not mention todo.                        *)
status == <<readyState, registered, client, reading, closes>>

(* Steps that leave the session's status and todo alone keep SessionInv;    *)
(* among them a send that finds the handle freed.                           *)
LEMMA QuietStep ==
  ASSUME TypeOK, SessionInv, readyState # "NONE", UNCHANGED status,
         UNCHANGED todo,
         fault' = fault \/ (fault = "none" /\ fault' = "stale_client"
                             /\ client = "freed")
  PROVE  SessionInv'
  <1>1. OpenIsUsable' /\ CloseInv' /\ ConnectInv' /\ StackInv'
    BY DEF status, SessionInv, OpenIsUsable, CloseInv, ConnectInv, StackInv,
           Contains
  <1>2. FaultCauses'
    BY DEF status, SessionInv, FaultCauses, Contains
  <1> QED
    BY <1>1, <1>2 DEF SessionInv

(* So do the steps that end the program.                                    *)
LEMMA FailStep ==
  ASSUME TypeOK, SessionInv, readyState # "NONE", NEW what, Fail(what),
         \/ /\ what \in {"uv_close_assert", "stale_session"}
            /\ readyState = "CLOSED"
            /\ Contains(todo, "returnRecv") \/ Contains(todo, "deleteAgain")
         \/ what = "ctx_double_delete" /\ Contains(todo, "deleteAgain")
         \/ what = "stale_client" /\ client = "freed"
         \/ what = "stale_reader" /\ todo = <<>>
  PROVE  SessionInv'
  <1>1. UNCHANGED status /\ UNCHANGED todo /\ fault' = what
    BY DEF Fail, status, session, stream
  <1>2. OpenIsUsable' /\ CloseInv' /\ ConnectInv' /\ StackInv'
    BY <1>1 DEF status, SessionInv, OpenIsUsable, CloseInv, ConnectInv,
                StackInv, Contains
  <1>3. FaultCauses'
    BY <1>1 DEF status, FaultCauses, Contains
  <1> QED
    BY <1>2, <1>3 DEF SessionInv

(* A callback goes from its first step to steps that bring no removal, no   *)
(* connect and no frame with them, and an inter_close() only inside a       *)
(* recv_cb or for a failed write.                                           *)
LEMMA StackStep ==
  ASSUME TypeOK, SessionInv, fault = "none", todo # <<>>,
         UNCHANGED <<readyState, client>>,
         NEW steps \in Seq(Steps), Continue(steps),
         Head(todo) \notin {"interClose", "closeCb"},
         \A i \in 1..Len(steps) :
           /\ steps[i] # "closeCb" /\ steps[i] \notin FrameKinds
           /\ steps[i] = "interClose" =>
                \/ Head(todo) \in FrameKinds
                \/ i < Len(steps) /\ steps[i + 1] = "deleteAgain"
  PROVE  StackInv'
  <1> DEFINE t == todo
             u == todo'
             n == Len(steps)
  <1>1. t \in Seq(Steps) /\ t # <<>> /\ u = steps \o Tail(t)
    BY DEF TypeOK, Continue
  <1>2. /\ Len(u) = n + Len(t) - 1
        /\ \A i \in 1..n : u[i] = steps[i]
        /\ \A i \in (n + 1)..Len(u) : u[i] = t[i - n + 1]
        /\ \A i \in 2..Len(t) : u[i + n - 1] = t[i]
        /\ Head(t) = t[1] /\ Len(t) \in Nat \ {0} /\ n \in Nat
    BY <1>1, ContinueElems
  <1>3. Len(t) > 1 => u[Len(u)] = t[Len(t)]
    BY <1>2
  <1>4. Head(t) \in FrameKinds => Len(t) > 1 /\ t[Len(t)] = "returnRecv"
    BY <1>2 DEF SessionInv, StackInv, FrameKinds
  <1> SUFFICES ASSUME NEW i \in 1..Len(u)
               PROVE  /\ u[i] = "closeCb" => i = Len(u) /\ client = "closing"
                      /\ u[i] \in FrameKinds => u[Len(u)] = "returnRecv"
                      /\ u[i] = "interClose" =>
                           \/ u[Len(u)] = "returnRecv"
                           \/ i < Len(u) /\ u[i + 1] = "deleteAgain"
                           \/ i = 1 /\ readyState = "OPEN"
    BY DEF StackInv
  <1>5. CASE i <= n
    <2>1. u[i] = steps[i] /\ i \in 1..n
      BY <1>2, <1>5
    <2>2. CASE steps[i] = "interClose" /\ Head(t) \in FrameKinds
      BY <1>3, <1>4, <2>1, <2>2 DEF FrameKinds
    <2>3. CASE steps[i] = "interClose" /\ Head(t) \notin FrameKinds
      <3>1. i < n /\ steps[i + 1] = "deleteAgain"
        BY <2>1, <2>3
      <3>2. i < Len(u) /\ u[i + 1] = "deleteAgain"
        BY <1>2, <3>1
      <3> QED
        BY <2>1, <2>3, <3>2 DEF FrameKinds
    <2>4. CASE steps[i] # "interClose"
      BY <2>1, <2>4
    <2> QED
      BY <2>2, <2>3, <2>4
  <1>6. CASE i > n
    <2> DEFINE j == i - n + 1
    <2>1. j \in 2..Len(t) /\ u[i] = t[j] /\ i = j + n - 1
      BY <1>2, <1>6
    <2>2. u[Len(u)] = t[Len(t)]
      BY <1>3, <2>1, <1>2
    <2>3. /\ t[j] = "closeCb" => j = Len(t) /\ client = "closing"
          /\ t[j] \in FrameKinds => t[Len(t)] = "returnRecv"
          /\ t[j] = "interClose" =>
               \/ t[Len(t)] = "returnRecv"
               \/ j < Len(t) /\ t[j + 1] = "deleteAgain"
      BY <1>2, <2>1 DEF SessionInv, StackInv
    <2>4. j < Len(t) => i < Len(u) /\ u[i + 1] = t[j + 1]
      BY <1>2, <2>1
    <2>5. j = Len(t) => i = Len(u)
      BY <1>2, <2>1
    <2> HIDE DEF j
    <2> QED
      BY <2>1, <2>2, <2>3, <2>4, <2>5
  <1> QED
    BY <1>2, <1>5, <1>6
(* The same steps keep the other parts of SessionInv, if they neither come  *)
(* from nor lead to a removal or a connect.                                 *)
LEMMA ContinueStep ==
  ASSUME TypeOK, SessionInv, fault = "none", todo # <<>>,
         UNCHANGED status,
         fault' = "none" \/ (fault' = "stale_client" /\ client = "freed"),
         NEW steps \in Seq(Steps), Continue(steps),
         Head(todo) \notin {"interClose", "closeCb", "removeWsSession",
                           "connect"},
         Head(todo) = "serverOnConnectCb" => steps = <<>>,
         ~Contains(steps, "removeWsSession"), ~Contains(steps, "connect"),
         \A i \in 1..Len(steps) :
           /\ steps[i] # "closeCb" /\ steps[i] \notin FrameKinds
           /\ steps[i] = "interClose" =>
                \/ Head(todo) \in FrameKinds
                \/ i < Len(steps) /\ steps[i + 1] = "deleteAgain"
  PROVE  SessionInv'
  <1> USE DEF status
  <1>1. StackInv'
    BY StackStep
  <1>2. todo \in Seq(Steps) /\ todo' = steps \o Tail(todo)
    BY DEF TypeOK, Continue
  <1>3. ASSUME NEW x \in {"removeWsSession", "connect"}
        PROVE  Contains(todo', x) <=> Contains(todo, x)
    <2>1. ~Contains(steps, x)
      BY <1>3
    <2>2. Head(todo) # x
      BY <1>3
    <2>3. /\ Contains(todo', x) => Contains(steps, x) \/ Contains(todo, x)
          /\ Contains(todo, x) /\ Head(todo) # x => Contains(todo', x)
      BY ONLY <1>2, todo # <<>>, steps \in Seq(Steps), ContinueContains, Zenon
    <2> QED
      BY ONLY <2>1, <2>2, <2>3
  <1>4. OpenIsUsable'
    BY DEF SessionInv, OpenIsUsable
  <1>5. FaultCauses'
    BY DEF SessionInv, FaultCauses
  <1>6. CloseInv'
    <2>1. readyState # "NONE"
      BY DEF SessionInv, CloseInv
    <2> QED
      BY <1>3, <2>1 DEF SessionInv, CloseInv
  <1>7. ConnectInv'
    <2> SUFFICES ASSUME Contains(todo', "connect")
                 PROVE  ConnectInv'
      BY DEF ConnectInv
    <2>1. /\ client = "open" /\ registered /\ readyState = "CLOSED"
          /\ todo \in {<<"serverOnConnectCb", "connect">>, <<"connect">>}
      BY <1>3 DEF SessionInv, ConnectInv
    <2>2. todo = <<"serverOnConnectCb", "connect">>
      BY <2>1
    <2>3. todo' = <<>> \o Tail(todo)
      BY <1>2, <2>2
    <2>4. todo' = <<"connect">>
      BY <2>2, <2>3
    <2> QED
      BY <2>1, <2>4 DEF ConnectInv
  <1> QED
    BY <1>1, <1>4, <1>5, <1>6, <1>7 DEF SessionInv

(* An event starts a callback with steps that hold no removal and no        *)
(* connect.                                                                 *)
LEMMA EventStep ==
  ASSUME TypeOK, SessionInv, Idle, readyState # "NONE",
         UNCHANGED status, UNCHANGED fault, StackInv',
         ~Contains(todo', "removeWsSession"), ~Contains(todo', "connect")
  PROVE  SessionInv'
  <1> USE DEF status
  <1>1. ~Contains(todo, "removeWsSession")
    BY DEF Idle, Contains
  <1>2. OpenIsUsable' /\ FaultCauses' /\ ConnectInv'
    BY DEF SessionInv, OpenIsUsable, FaultCauses, ConnectInv, Idle
  <1>3. CloseInv'
    BY <1>1 DEF SessionInv, CloseInv
  <1> QED
    BY <1>2, <1>3 DEF SessionInv
(* What is left to show for the steps that are neither quiet nor covered    *)
(* by ContinueStep: each by itself.                                         *)
LEMMA InterCloseStep ==
  ASSUME TypeOK, SessionInv, InterClose
  PROVE  SessionInv'
  <1> DEFINE steps == <<"onCloseCb", "removeWsSession">>
  <1>1. /\ fault = "none" /\ fault' = "none" /\ todo # <<>>
        /\ Head(todo) = "interClose"
        /\ client = "open" /\ client' = "closing"
        /\ readyState' = "CLOSED" /\ reading' = FALSE /\ closes' = closes + 1
        /\ todo' = steps \o Tail(todo)
        /\ UNCHANGED <<registered, held, queued, done, files>>
    BY DEF InterClose, Doing, Continue, StateOnClose
  <1>2. todo \in Seq(Steps) /\ steps \in Seq(Steps) /\ Len(steps) = 2
    BY StepSeqs, StepNames DEF TypeOK
  <1>3. /\ Len(todo') = Len(todo) + 1
        /\ todo'[1] = "onCloseCb" /\ todo'[2] = "removeWsSession"
        /\ \A i \in 3..Len(todo') : todo'[i] = todo[i - 1]
        /\ todo[1] = "interClose" /\ Len(todo) \in Nat \ {0}
    <2>1. /\ Len(todo') = Len(steps) + Len(todo) - 1
          /\ \A i \in 1..Len(steps) : todo'[i] = steps[i]
          /\ \A i \in (Len(steps) + 1)..Len(todo') :
               todo'[i] = todo[i - Len(steps) + 1]
          /\ Head(todo) = todo[1] /\ Len(todo) \in Nat \ {0}
      BY <1>1, <1>2, ContinueElems
    <2> QED
      BY <1>1, <1>2, <2>1
  <1>4. ~Contains(todo, "connect") /\ readyState # "NONE" /\ closes = 0
    BY <1>1, <1>3 DEF SessionInv, ConnectInv, CloseInv
  <1>5. Contains(todo', "removeWsSession")
    BY <1>3 DEF Contains
  <1>6. ~Contains(todo', "connect")
    <2>1. ~Contains(steps, "connect")
      BY DEF Contains
    <2> HIDE DEF steps
    <2> QED
      BY <1>1, <1>2, <1>4, <2>1, ContinueContains
  <1>7. OpenIsUsable' /\ FaultCauses' /\ CloseInv' /\ ConnectInv'
    BY <1>1, <1>4, <1>5, <1>6 DEF OpenIsUsable, FaultCauses, CloseInv,
                                  ConnectInv
  <1>8. StackInv'
    <2> SUFFICES ASSUME NEW i \in 1..Len(todo')
                 PROVE  /\ todo'[i] # "closeCb"
                        /\ todo'[i] \in FrameKinds =>
                             todo'[Len(todo')] = "returnRecv"
                        /\ todo'[i] = "interClose" =>
                             \/ todo'[Len(todo')] = "returnRecv"
                             \/ /\ i < Len(todo')
                                /\ todo'[i + 1] = "deleteAgain"
      BY DEF StackInv
    <2>1. CASE i \in {1, 2}
      BY <1>3, <2>1 DEF FrameKinds
    <2>2. CASE i \in 3..Len(todo')
      <3> DEFINE j == i - 1
      <3>1. /\ j \in 2..Len(todo) /\ todo'[i] = todo[j]
            /\ todo'[Len(todo')] = todo[Len(todo)]
            /\ j < Len(todo) => i < Len(todo') /\ todo'[i + 1] = todo[j + 1]
        BY <1>3, <2>2
      <3>2. /\ todo[j] # "closeCb"
            /\ todo[j] \in FrameKinds => todo[Len(todo)] = "returnRecv"
            /\ todo[j] = "interClose" =>
                 \/ todo[Len(todo)] = "returnRecv"
                 \/ j < Len(todo) /\ todo[j + 1] = "deleteAgain"
        BY <1>1, <1>3, <3>1 DEF SessionInv, StackInv
      <3> HIDE DEF j
      <3> QED
        BY <3>1, <3>2
    <2> QED
      BY <1>3, <2>1, <2>2
  <1> QED
    BY <1>7, <1>8 DEF SessionInv

(* removeWsSession.                                                         *)
LEMMA RemoveStep ==
  ASSUME TypeOK, SessionInv, RemoveWsSession
  PROVE  SessionInv'
  <1>1. /\ fault = "none" /\ fault' = "none" /\ todo # <<>>
        /\ Head(todo) = "removeWsSession" /\ Continue(<<>>)
        /\ registered' = FALSE
        /\ UNCHANGED <<readyState, client, reading, closes>>
    BY DEF RemoveWsSession, Doing, stream
  <1>2. StackInv'
    <2>1. <<>> \in Seq(Steps) /\ \A i \in 1..Len(<<>>) : FALSE
      OBVIOUS
    <2> QED
      BY <1>1, <2>1, StackStep
  <1>3. todo \in Seq(Steps) /\ todo' = <<>> \o Tail(todo)
    BY <1>1 DEF TypeOK, Continue
  <1>4. Contains(todo, "removeWsSession") /\ ~Contains(todo, "connect")
    <2>1. Contains(todo, "removeWsSession")
      BY <1>1, <1>3 DEF Contains
    <2>2. ~Contains(todo, "connect")
      BY <1>1, <1>3 DEF SessionInv, ConnectInv
    <2> QED
      BY <2>1, <2>2
  <1>5. client # "open" /\ readyState = "CLOSED" /\ closes = 1
    BY <1>4 DEF SessionInv, CloseInv
  <1>6. ~Contains(todo', "connect")
    <2>1. ~Contains(<<>>, "connect")
      BY DEF Contains
    <2> QED
      BY <1>1, <1>3, <1>4, <2>1, StepSeqs, ContinueContains
  <1> QED
    BY <1>1, <1>2, <1>5, <1>6
    DEF SessionInv, OpenIsUsable, FaultCauses, CloseInv, ConnectInv

(* connect().                                                               *)
LEMMA ConnectStep ==
  ASSUME TypeOK, SessionInv, Connect
  PROVE  SessionInv'
  <1>1. /\ todo # <<>> /\ Head(todo) = "connect" /\ todo \in Seq(Steps)
        /\ fault' = "none"
        /\ todo' = <<"onConnectCb">> \o Tail(todo)
        /\ reading' = TRUE /\ readyState' = "OPEN"
        /\ UNCHANGED <<registered, client, closes>>
    BY DEF Connect, Doing, Continue, TypeOK
  <1>2. Contains(todo, "connect")
    BY <1>1 DEF Contains
  <1>3. client = "open" /\ registered /\ todo = <<"connect">> /\ closes = 0
    BY <1>1, <1>2 DEF SessionInv, ConnectInv, CloseInv
  <1>4. todo' = <<"onConnectCb">>
    BY <1>1, <1>3
  <1> QED
    BY <1>1, <1>3, <1>4
    DEF SessionInv, OpenIsUsable, FaultCauses, CloseInv, ConnectInv, StackInv,
        Contains, FrameKinds

(* The handle is deleted.                                                   *)
LEMMA CloseCbStep ==
  ASSUME TypeOK, SessionInv, CloseCb
  PROVE  SessionInv'
  <1>1. /\ todo # <<>> /\ Head(todo) = "closeCb" /\ todo \in Seq(Steps)
        /\ fault' = "none" /\ client' = "freed"
        /\ todo' = <<>> \o Tail(todo)
        /\ UNCHANGED <<readyState, registered, reading, closes>>
    BY DEF CloseCb, Doing, Continue, TypeOK, session
  <1>2. Len(todo) = 1 /\ client = "closing"
    <2>1. 1 \in 1..Len(todo) /\ todo[1] = "closeCb"
      BY <1>1
    <2> QED
      BY <2>1 DEF SessionInv, StackInv
  <1>3. todo' = <<>> /\ ~Contains(todo, "removeWsSession")
    BY <1>1, <1>2 DEF Contains
  <1>4. readyState = "CLOSED" /\ closes = 1 /\ ~registered
    BY <1>2, <1>3 DEF SessionInv, CloseInv
  <1>5. OpenIsUsable' /\ FaultCauses' /\ CloseInv'
    BY <1>1, <1>2, <1>4 DEF SessionInv, OpenIsUsable, FaultCauses, CloseInv
  <1>6. ConnectInv' /\ StackInv'
    BY <1>3 DEF ConnectInv, StackInv, Contains
  <1> QED
    BY <1>5, <1>6 DEF SessionInv
(* The application may call only once there is a session.                   *)
LEMMA MayCallReady ==
  ASSUME TypeOK, SessionInv, MayCall
  PROVE  readyState # "NONE" /\ fault = "none"
  BY DEF SessionInv, CloseInv, MayCall, InCallback, Doing, Idle

(* close(): inter_close() becomes the next step of an OPEN session.         *)
LEMMA CloseStep ==
  ASSUME TypeOK, SessionInv, Close
  PROVE  SessionInv'
  <1>1. /\ readyState # "NONE" /\ fault = "none" /\ UNCHANGED status
        /\ UNCHANGED fault /\ todo \in Seq(Steps)
    BY MayCallReady DEF Close, status, session, stream, TypeOK
  <1>2. CASE readyState = "CLOSED"
    <2>1. UNCHANGED todo
      BY <1>2 DEF Close, NotClosed
    <2> QED
      BY <1>1, <2>1, QuietStep
  <1>3. CASE readyState = "OPEN"
    <2>1. todo' = <<"interClose">> \o todo
      BY <1>3 DEF Close, NotClosed
    <2>2. /\ Len(todo') = Len(todo) + 1 /\ Len(todo) \in Nat
          /\ todo'[1] = "interClose"
          /\ \A i \in 2..Len(todo') : todo'[i] = todo[i - 1]
      BY <1>1, <2>1
    <2>3. todo # <<>> => todo[1] # "interClose"
      BY <1>1 DEF Close, MayCall, InCallback, Idle, Doing, Callbacks
    <2>4. ASSUME NEW x, x # "interClose"
          PROVE  Contains(todo', x) <=> Contains(todo, x)
      <3>1. Contains(todo', x) => Contains(todo, x)
        <4> SUFFICES ASSUME NEW i \in 1..Len(todo'), todo'[i] = x
                     PROVE  Contains(todo, x)
          BY DEF Contains
        <4>1. i - 1 \in 1..Len(todo) /\ todo[i - 1] = x
          BY <2>2, <2>4
        <4> QED
          BY <4>1 DEF Contains
      <3>2. Contains(todo, x) => Contains(todo', x)
        <4> SUFFICES ASSUME NEW i \in 1..Len(todo), todo[i] = x
                     PROVE  Contains(todo', x)
          BY DEF Contains
        <4>1. i + 1 \in 1..Len(todo') /\ todo'[i + 1] = x
          BY <2>2
        <4> QED
          BY <4>1 DEF Contains
      <3> QED
        BY <3>1, <3>2
    <2>5. OpenIsUsable' /\ FaultCauses' /\ CloseInv' /\ ConnectInv'
      <3>1. /\ Contains(todo', "removeWsSession")
                 <=> Contains(todo, "removeWsSession")
            /\ Contains(todo', "connect") <=> Contains(todo, "connect")
        BY <2>4
      <3> QED
        BY <1>1, <1>3, <3>1 DEF status, SessionInv, OpenIsUsable, FaultCauses,
                                CloseInv, ConnectInv
    <2>6. StackInv'
      <3> SUFFICES ASSUME NEW i \in 1..Len(todo')
                   PROVE  /\ todo'[i] = "closeCb" =>
                               i = Len(todo') /\ client = "closing"
                          /\ todo'[i] \in FrameKinds =>
                               todo'[Len(todo')] = "returnRecv"
                          /\ todo'[i] = "interClose" =>
                               \/ todo'[Len(todo')] = "returnRecv"
                               \/ /\ i < Len(todo')
                                  /\ todo'[i + 1] = "deleteAgain"
                               \/ i = 1 /\ readyState = "OPEN"
        BY <1>1 DEF StackInv, status
      <3>1. CASE i = 1
        BY <1>3, <2>2, <3>1 DEF FrameKinds
      <3>2. CASE i # 1
        <4> DEFINE j == i - 1
        <4>1. /\ j \in 1..Len(todo) /\ todo'[i] = todo[j] /\ i = j + 1
              /\ todo'[Len(todo')] = todo[Len(todo)]
              /\ j < Len(todo) => i < Len(todo') /\ todo'[i + 1] = todo[j + 1]
          BY <2>2, <3>2
        <4>2. /\ todo[j] = "closeCb" => j = Len(todo) /\ client = "closing"
              /\ todo[j] \in FrameKinds => todo[Len(todo)] = "returnRecv"
              /\ todo[j] = "interClose" =>
                   \/ todo[Len(todo)] = "returnRecv"
                   \/ j < Len(todo) /\ todo[j + 1] = "deleteAgain"
          BY <2>3, <4>1 DEF SessionInv, StackInv
        <4> HIDE DEF j
        <4> QED
          BY <2>2, <4>1, <4>2
      <3> QED
        BY <3>1, <3>2
    <2> QED
      BY <2>5, <2>6 DEF SessionInv
  <1> QED
    BY <1>1, <1>2, <1>3 DEF TypeOK

(* A list of write callbacks, with the close callback last or not, is a     *)
(* well-formed todo.                                                        *)
LEMMA CallbacksStack ==
  ASSUME TypeOK, SessionInv, todo' \in Seq(Steps), client' = client,
         \A i \in 1..Len(todo') :
           \/ todo'[i] \in WriteCbs
           \/ todo'[i] = "closeCb" /\ i = Len(todo') /\ client = "closing"
  PROVE  /\ StackInv'
         /\ ~Contains(todo', "removeWsSession")
         /\ ~Contains(todo', "connect")
  BY DEF StackInv, Contains, WriteCbs, FrameKinds

(* Every action keeps the inductive invariant.                              *)
LEMMA InvNext == TypeOK /\ SessionInv /\ [Next]_vars => SessionInv'
  <1> SUFFICES ASSUME TypeOK, SessionInv, [Next]_vars PROVE SessionInv'
    OBVIOUS
  <1>a. todo # <<>> => readyState # "NONE"
    BY DEF SessionInv, CloseInv
  <1>b. /\ <<>> \in Seq(Steps) /\ ~Contains(<<>>, "removeWsSession")
        /\ ~Contains(<<>>, "connect") /\ \A i \in 1..Len(<<>>) : FALSE
    BY DEF Contains
  <1>1. CASE OnUpgrade
    <2>1. /\ client = "open" /\ ~reading /\ closes = 0
          /\ readyState' = "CLOSED" /\ registered' = TRUE
          /\ UNCHANGED <<client, reading, closes>> /\ fault' = "none"
          /\ todo' = <<"serverOnConnectCb", "connect">>
      BY <1>1 DEF OnUpgrade, Idle, stream, SessionInv, CloseInv, OpenIsUsable
    <2>2. OpenIsUsable' /\ FaultCauses' /\ ConnectInv'
      BY <2>1 DEF OpenIsUsable, FaultCauses, ConnectInv
    <2>3. CloseInv' /\ StackInv'
      BY <2>1 DEF CloseInv, StackInv, Contains, FrameKinds
    <2> QED
      BY <2>2, <2>3 DEF SessionInv
  <1>2. CASE Connect
    BY <1>2, ConnectStep
  <1>3. CASE InterClose
    BY <1>3, InterCloseStep
  <1>4. CASE InterCloseAgain \/ InterCloseStale
    <2>1. /\ todo # <<>> /\ Head(todo) = "interClose" /\ todo \in Seq(Steps)
          /\ 1 \in 1..Len(todo) /\ todo[1] = "interClose"
      BY <1>4 DEF InterCloseAgain, InterCloseStale, Doing, TypeOK
    <2>2. readyState # "OPEN"
      BY <1>4 DEF InterCloseAgain, InterCloseStale, Alive, SessionInv,
                  OpenIsUsable
    <2>3. readyState = "CLOSED"
      BY <1>a, <2>1, <2>2 DEF TypeOK
    <2>4. Contains(todo, "returnRecv") \/ Contains(todo, "deleteAgain")
      <3>1. \/ todo[Len(todo)] = "returnRecv"
            \/ 1 < Len(todo) /\ todo[1 + 1] = "deleteAgain"
        BY <2>1, <2>2 DEF SessionInv, StackInv
      <3> QED
        BY <2>1, <3>1 DEF Contains
    <2>5. PICK what \in {"uv_close_assert", "stale_session", "stale_client"} :
            Fail(what) /\ (what = "stale_client" => client = "freed")
      BY <1>4 DEF InterCloseAgain, InterCloseStale
    <2> QED
      BY <2>3, <2>4, <2>5, FailStep
  <1>5. CASE RemoveWsSession
    BY <1>5, RemoveStep
  <1>6. ASSUME NEW kind \in FrameKinds \ {"ping", "refused"},
               HandleWsFrame(kind)
        PROVE  SessionInv'
    <2> DEFINE steps == OnFrame(kind)
    <2>1. /\ todo # <<>> /\ Head(todo) = kind /\ fault = "none"
          /\ fault' = "none" /\ UNCHANGED status /\ Continue(steps)
      BY <1>6 DEF HandleWsFrame, Doing, status, session, stream
    <2>2. steps \in {<<>>, <<"interClose">>, <<"onMessageCb">>,
                     <<"onErrorCb", "interClose">>}
      BY DEF OnFrame, FrameKinds
    <2> HIDE DEF steps
    <2>3. /\ steps \in Seq(Steps) /\ ~Contains(steps, "removeWsSession")
          /\ ~Contains(steps, "connect")
          /\ \A i \in 1..Len(steps) :
               steps[i] # "closeCb" /\ steps[i] \notin FrameKinds
      <3>1. steps \in Seq(Steps)
        BY <2>2, StepSeqs, StepNames
      <3>2. \A i \in 1..Len(steps) :
              steps[i] \in {"interClose", "onMessageCb", "onErrorCb"}
        BY <2>2
      <3> QED
        BY <3>1, <3>2 DEF Contains, FrameKinds
    <2>4. /\ kind \in FrameKinds
          /\ kind \notin {"interClose", "closeCb", "removeWsSession", "connect",
                          "serverOnConnectCb"}
      BY DEF FrameKinds
    <2> QED
      BY <2>1, <2>3, <2>4, ContinueStep
  <1>7. ASSUME NEW r \in Results, HandlePing(r)
        PROVE  SessionInv'
    <2>1. /\ todo # <<>> /\ Head(todo) = "ping" /\ fault = "none"
          /\ UNCHANGED status /\ Continue(<<>>) /\ InterSend(r, 0)
      BY <1>7 DEF HandlePing, Doing, status
    <2>2. fault' = "none" \/ (fault' = "stale_client" /\ client = "freed")
      BY <2>1, InterSendType
    <2> QED
      BY <1>b, <2>1, <2>2, ContinueStep
  <1>8. CASE HandleRefused
    <2> DEFINE steps == <<"onErrorCb", "interClose">>
    <2>1. /\ todo # <<>> /\ Head(todo) = "refused" /\ fault = "none"
          /\ fault' = "none" /\ UNCHANGED status /\ Continue(steps)
      BY <1>8 DEF HandleRefused, Doing, status, session, stream
    <2>2. /\ steps \in Seq(Steps) /\ ~Contains(steps, "removeWsSession")
          /\ ~Contains(steps, "connect")
          /\ \A i \in 1..Len(steps) :
               steps[i] # "closeCb" /\ steps[i] \notin FrameKinds
      BY StepSeqs, StepNames DEF Contains, FrameKinds
    <2>3. "refused" \in FrameKinds
      BY DEF FrameKinds
    <2> HIDE DEF steps
    <2> QED
      BY <2>1, <2>2, <2>3, ContinueStep
  <1>9. CASE FrameStale
    <2>1. PICK kind \in FrameKinds : Doing(kind)
      BY <1>9 DEF FrameStale
    <2>2. todo # <<>> /\ todo[1] \in FrameKinds /\ Len(todo) \in Nat \ {0}
      BY <2>1 DEF Doing, TypeOK
    <2>3. Contains(todo, "returnRecv")
      BY <2>2 DEF SessionInv, StackInv, Contains
    <2>4. readyState = "CLOSED"
      BY <1>9, <1>a, <2>2 DEF FrameStale, Alive, SessionInv, OpenIsUsable, TypeOK
    <2> QED
      BY <1>9, <2>3, <2>4, FailStep DEF FrameStale
  <1>10. CASE DeleteAgain
    <2>1. todo # <<>> /\ Contains(todo, "deleteAgain")
      BY <1>10 DEF DeleteAgain, Doing, TypeOK, Contains
    <2> QED
      BY <1>10, <1>a, <2>1, FailStep DEF DeleteAgain
  <1>11. CASE ReturnRecv \/ WriteCbOk \/ Return
    <2>1. /\ todo # <<>> /\ Continue(<<>>) /\ fault = "none" /\ fault' = "none"
          /\ UNCHANGED status
          /\ Head(todo) \in Callbacks \cup {"returnRecv", "writeOk"}
      BY <1>11 DEF ReturnRecv, WriteCbOk, Return, InCallback, Doing, status,
                   session, stream
    <2>2. Head(todo) \notin {"interClose", "closeCb", "removeWsSession",
                             "connect"}
      BY <2>1 DEF Callbacks
    <2> QED
      BY <1>b, <2>1, <2>2, ContinueStep
  <1>12. CASE WriteCbErr
    <2> DEFINE steps == <<"onErrorCb", "interClose", "deleteAgain">>
    <2>1. /\ todo # <<>> /\ Head(todo) = "writeErr" /\ fault = "none"
          /\ fault' = "none" /\ UNCHANGED status /\ Continue(steps)
      BY <1>12 DEF WriteCbErr, Doing, status, session, stream
    <2>2. /\ steps \in Seq(Steps) /\ ~Contains(steps, "removeWsSession")
          /\ ~Contains(steps, "connect")
          /\ \A i \in 1..Len(steps) :
               /\ steps[i] # "closeCb" /\ steps[i] \notin FrameKinds
               /\ steps[i] = "interClose" =>
                    i < Len(steps) /\ steps[i + 1] = "deleteAgain"
      BY StepSeqs, StepNames DEF Contains, FrameKinds
    <2> HIDE DEF steps
    <2> QED
      BY <2>1, <2>2, ContinueStep
  <1>13. CASE CloseCb
    BY <1>13, CloseCbStep
  <1>14. ASSUME NEW chunk \in Chunks, Recv(chunk)
         PROVE  SessionInv'
    <2>1. /\ Idle /\ readyState = "OPEN" /\ UNCHANGED status /\ UNCHANGED fault
          /\ todo' = chunk \o <<"returnRecv">>
      BY <1>14 DEF Recv, status, session, stream, SessionInv, OpenIsUsable
    <2>2. chunk \in Seq(FrameKinds)
      BY ChunksAssumption
    <2>3. /\ Len(todo') = Len(chunk) + 1 /\ Len(chunk) \in Nat
          /\ todo'[Len(todo')] = "returnRecv"
          /\ \A i \in 1..Len(chunk) : todo'[i] \in FrameKinds
      BY <2>1, <2>2
    <2>4. \A i \in 1..Len(todo') : todo'[i] \in FrameKinds \cup {"returnRecv"}
      BY <2>3
    <2>5. /\ StackInv' /\ ~Contains(todo', "removeWsSession")
          /\ ~Contains(todo', "connect")
      BY <2>3, <2>4 DEF StackInv, Contains, FrameKinds
    <2> QED
      BY <2>1, <2>5, EventStep
  <1>15. CASE RecvEnd
    <2>1. /\ Idle /\ readyState = "OPEN" /\ UNCHANGED status /\ UNCHANGED fault
          /\ todo' = <<"interClose">>
      BY <1>15 DEF RecvEnd, status, session, stream, SessionInv, OpenIsUsable
    <2>2. /\ StackInv' /\ ~Contains(todo', "removeWsSession")
          /\ ~Contains(todo', "connect")
      BY <2>1 DEF StackInv, Contains, FrameKinds, status
    <2> QED
      BY <2>1, <2>2, EventStep
  <1>16. CASE RunWriteCallbacks
    <2>1. /\ Idle /\ readyState # "NONE" /\ UNCHANGED status /\ UNCHANGED fault
          /\ todo' = Due(done) /\ client' = client
      BY <1>16 DEF RunWriteCallbacks, status, session, SessionInv, CloseInv
    <2>2. /\ todo' \in Seq(Steps)
          /\ \A i \in 1..Len(todo') : todo'[i] \in WriteCbs
      BY <2>1, DueType DEF TypeOK
    <2> QED
      BY <2>1, <2>2, CallbacksStack, EventStep
  <1>17. CASE FinishClose
    <2> DEFINE d == Due(done)
               e == [i \in 1..queued |-> "writeErr"]
    <2>1. /\ Idle /\ readyState # "NONE" /\ UNCHANGED status /\ UNCHANGED fault
          /\ todo' = d \o e \o <<"closeCb">> /\ client = "closing"
          /\ client' = client
      BY <1>17 DEF FinishClose, status, session, SessionInv, CloseInv
    <2>2. d \in Seq(Steps) /\ \A i \in 1..Len(d) : d[i] \in WriteCbs
      BY DueType DEF TypeOK
    <2>3. e \in Seq(Steps) /\ \A i \in 1..Len(e) : e[i] \in WriteCbs
      BY StepNames DEF TypeOK, WriteCbs
    <2> HIDE DEF d, e
    <2>4. /\ d \o e \in Seq(Steps)
          /\ \A i \in 1..Len(d \o e) : (d \o e)[i] \in WriteCbs
      BY <2>2, <2>3
    <2>5. /\ todo' \in Seq(Steps) /\ Len(todo') = Len(d \o e) + 1
          /\ todo'[Len(todo')] = "closeCb"
          /\ \A i \in 1..Len(d \o e) : todo'[i] \in WriteCbs
      BY <2>1, <2>4, StepSeqs, StepNames
    <2>6. \A i \in 1..Len(todo') :
            \/ todo'[i] \in WriteCbs
            \/ todo'[i] = "closeCb" /\ i = Len(todo') /\ client = "closing"
      BY <2>1, <2>4, <2>5
    <2> QED
      BY <2>1, <2>5, <2>6, CallbacksStack, EventStep
  <1>18. ASSUME NEW r \in {"ok", "err"}, WriteDone(r)
         PROVE  SessionInv'
    <2>1. /\ readyState # "NONE" /\ UNCHANGED status /\ UNCHANGED todo
          /\ UNCHANGED fault
      BY <1>18 DEF WriteDone, status, session, SessionInv, CloseInv
    <2> QED
      BY <2>1, QuietStep
  <1>19. ASSUME NEW r \in Results, FileSent(r) \/ Send(r)
         PROVE  SessionInv'
    <2>1. readyState # "NONE" /\ fault = "none"
      BY <1>19, MayCallReady DEF FileSent, Send, Idle, SessionInv, CloseInv
    <2>2. UNCHANGED status /\ UNCHANGED todo
      BY <1>19 DEF FileSent, Send, status
    <2>3. fault' = fault \/ (fault' = "stale_client" /\ client = "freed")
      BY <1>19, InterSendType DEF FileSent, Send
    <2> QED
      BY <2>1, <2>2, <2>3, QuietStep
  <1>20. CASE FileFailed \/ SendFile \/ Hold \/ Drop
    <2>1. readyState # "NONE"
      BY <1>20, <1>a, MayCallReady
      DEF FileFailed, SendFile, Hold, Drop, InCallback, Doing, SessionInv,
          CloseInv, TypeOK
    <2>2. UNCHANGED status /\ UNCHANGED todo /\ UNCHANGED fault
      BY <1>20 DEF FileFailed, SendFile, Hold, Drop, status, session, stream
    <2> QED
      BY <2>1, <2>2, QuietStep
  <1>23. CASE FileFailedStale
    <2>1. readyState # "NONE" /\ todo = <<>> /\ Fail("stale_reader")
      BY <1>23 DEF FileFailedStale, Idle, SessionInv, CloseInv, TypeOK
    <2> QED
      BY <2>1, FailStep
  <1>21. CASE Close
    BY <1>21, CloseStep
  <1>22. CASE UNCHANGED vars
    BY <1>22 DEF vars, session, stream, bounds, SessionInv, OpenIsUsable,
                 FaultCauses, CloseInv, ConnectInv, StackInv, Contains
  <1> QED
    BY <1>1, <1>2, <1>3, <1>4, <1>5, <1>6, <1>7, <1>8, <1>9, <1>10, <1>11,
       <1>12, <1>13, <1>14, <1>15, <1>16, <1>17, <1>18, <1>19, <1>20, <1>21,
       <1>22, <1>23
    DEF Next, Run, Event, Application

-----------------------------------------------------------------------------
(* The session keeps its types and the inductive invariant.                 *)
THEOREM SessionInvariant == Spec => [](TypeOK /\ SessionInv)
  <1>1. TypeOK /\ SessionInv /\ [Next]_vars => (TypeOK /\ SessionInv)'
    BY TypeNext, InvNext
  <1> QED
    BY <1>1, InitInv, PTL DEF Spec

(* A session that says OPEN has an open handle and is listed by WsServer,   *)
(* and the loop reads into it exactly while it is OPEN.                     *)
THEOREM OpenAlwaysUsable == Spec => []OpenIsUsable
  <1>1. SessionInv => OpenIsUsable
    BY DEF SessionInv
  <1> QED
    BY <1>1, SessionInvariant, PTL

(* When the callback that closed a session is done, onClose was called once *)
(* and WsServer no longer lists the session.                                *)
THEOREM ClosedAlwaysForgotten == Spec => []ClosedIsForgotten
  <1>1. SessionInv => ClosedIsForgotten
    BY DEF SessionInv, CloseInv, ClosedIsForgotten, Idle, Contains
  <1> QED
    BY <1>1, SessionInvariant, PTL

(* The assertion of uv_close and the uses of deleted memory are reached     *)
(* only in the ways FaultCauses names.                                      *)
THEOREM FaultsHaveCauses == Spec => []FaultCauses
  <1>1. SessionInv => FaultCauses
    BY DEF SessionInv
  <1> QED
    BY <1>1, SessionInvariant, PTL

(* The variables of WsSession keep their types: the code never leaves a     *)
(* session in a state that readyState has no name for.                      *)
THEOREM SessionTypeCorrect == Spec => []TypeOK
  <1>1. TypeOK /\ SessionInv => TypeOK
    OBVIOUS
  <1> QED
    BY <1>1, SessionInvariant, PTL

(* What no step of the loop or of the application does to a session that    *)
(* was closed: open it again, read into it, tell onClose once more, list it *)
(* in WsServer again, or queue another write for its handle.  inter_close() *)
(* has no check of readyState, so that a second call gets as far as         *)
(* uv_close; connect() and inter_send() have none either.                   *)
StaysClosed ==
  closes > 0 => /\ closes' = closes
                /\ readyState' = "CLOSED"
                /\ client' # "open" /\ ~reading'
                /\ registered' => registered
                /\ queued' <= queued /\ Len(done') <= Len(done)

(* Once onClose was due the session stays closed, in every step.            *)
THEOREM ClosedForGood == Spec => [][StaysClosed]_vars
  <1>1. TypeOK /\ SessionInv /\ (TypeOK /\ SessionInv)' /\ [Next]_vars => [StaysClosed]_vars
    <2> SUFFICES ASSUME TypeOK, SessionInv, TypeOK', SessionInv', Next, closes > 0
                 PROVE  StaysClosed
      BY DEF StaysClosed
    <2>1. client # "open" /\ readyState = "CLOSED" /\ closes = 1
      BY DEF SessionInv, CloseInv, TypeOK
    <2>2. /\ client' # "open"
          /\ registered' => registered
          /\ \/ queued' = queued /\ done' = done
             \/ queued' = 0 /\ done' = <<>>
      BY <2>1
      DEF Next, Run, Event, Application, OnUpgrade, Connect, InterClose,
          InterCloseAgain, InterCloseStale, RemoveWsSession, Recv, RecvEnd,
          ReturnRecv, HandleWsFrame, HandleRefused, HandlePing, FrameStale,
          WriteDone, RunWriteCallbacks, FinishClose, CloseCb, WriteCbOk,
          WriteCbErr, DeleteAgain, FileSent, FileFailed, FileFailedStale, Send, SendFile,
          Close, Hold, Drop, Return, InterSend, Fail, session, stream
    <2>3. /\ readyState' = "CLOSED" /\ closes' = 1
          /\ ~reading'
      BY <2>2 DEF SessionInv, CloseInv, OpenIsUsable
    <2>4. queued' <= queued /\ Len(done') <= Len(done)
      BY <2>2 DEF TypeOK
    <2> QED
      BY <2>1, <2>2, <2>3, <2>4 DEF StaysClosed
  <1> QED
    BY <1>1, SessionInvariant, PTL DEF Spec
=============================================================================
