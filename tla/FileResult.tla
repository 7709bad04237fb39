----------------------------- MODULE FileResult -----------------------------
(***************************************************************************)
(* What FileReader promises those who call fileRead(): the reading of a    *)
(* file ends, and one of m_onClose and m_onError is called, once; in       *)
(* m_onClose the length that getReadByte() announces is the length of the  *)
(* buffers that appendToBuff() hands over.  Only when the file itself      *)
(* would not close may m_onClose follow m_onError, which is what           *)
(* FileReader::onClose does.                                               *)
(***************************************************************************)
EXTENDS Naturals, Sequences

VARIABLES
  started,    \* fileRead() was called
  calls,      \* the calls of m_onClose ("close") and m_onError ("error")
  unclosed,   \* the file would not close
  announced,  \* getReadByte() when m_onClose is called at the end
  handed      \* bytes in the buffers handed over

vars == <<started, calls, unclosed, announced, handed>>

Init ==
  /\ started = FALSE /\ calls = <<>> /\ unclosed = FALSE
  /\ announced = 0 /\ handed = 0

Start ==
  /\ ~started
  /\ started' = TRUE
  /\ UNCHANGED <<calls, unclosed, announced, handed>>

Finish ==
  /\ started /\ calls = <<>>
  /\ calls' = <<"close">>
  /\ announced' \in Nat
  /\ handed' = announced'
  /\ UNCHANGED <<started, unclosed>>

Fail ==
  /\ started /\ calls = <<>>
  /\ calls' = <<"error">>
  /\ unclosed' \in BOOLEAN
  /\ UNCHANGED <<started, announced, handed>>

CloseAnyway ==
  /\ unclosed /\ calls = <<"error">>
  /\ calls' = <<"error", "close">>
  /\ UNCHANGED <<started, unclosed, announced, handed>>

Next == Start \/ Finish \/ Fail \/ CloseAnyway

Ends == started ~> calls # <<>>

Spec == Init /\ [][Next]_vars /\ Ends
=============================================================================
