---------------------------- MODULE MCWsSession ----------------------------
(***************************************************************************)
(* Model checking WsSession.                                               *)
(***************************************************************************)
EXTENDS WsSession

(* Every frame alone, and every pair of frames in one read.  Nothing        *)
(* follows a frame that parse() refuses.                                    *)
MCChunks ==
  {<<a>> : a \in FrameKinds} \cup
  {<<a, b>> : a \in FrameKinds \ {"refused"}, b \in FrameKinds}
=============================================================================
