--------------------------- MODULE MCHttpSession ---------------------------
(***************************************************************************)
(* Model checking HttpSession.                                             *)
(***************************************************************************)
EXTENDS HttpSession

(* Every input alone, every pair in one read (pipelined requests), and the  *)
(* reads that filled the buffer and were followed by one with nread = 0.    *)
Bytes == Inputs \ {"again"}

MCChunks ==
  {<<a>> : a \in Inputs} \cup
  {<<a, b>> : a \in Bytes, b \in Inputs} \cup
  {<<a, b, "again">> : a \in {"keep", "upgradeKeep"}, b \in {"keep", "partial"}}

(* A client that asks for one page.                                         *)
OneRequest == {<<"plain">>}
=============================================================================
