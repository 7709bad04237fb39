----------------------------- MODULE MCResponse -----------------------------
(***************************************************************************)
(* Instances of Response: a text and a file that fills one buffer.         *)
(***************************************************************************)
EXTENDS Response

MCStrings == {[is |-> "a", size |-> 5]}
MCFiles   == {[is |-> "f", size |-> 1]}
=============================================================================
