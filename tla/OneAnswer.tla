----------------------------- MODULE OneAnswer -----------------------------
(***************************************************************************)
(* What httpResp promises an application that sends one answer, as the     *)
(* README asks (src/README.md: a response may be sent only once): what     *)
(* leaves is what was asked for, or for a file an error; nothing leaves    *)
(* after it; and the session is told, once, that it has left or never      *)
(* will.                                                                   *)
(***************************************************************************)
EXTENDS Naturals, Sequences

CONSTANTS
  Contents,  \* what an application may ask to send
  MayFail,   \* the contents that an error may stand for
  Error      \* that error

VARIABLES
  asked,     \* all that was asked for, in order
  answers,   \* all that left
  told,      \* how often the session was told
  kept,      \* the rules are kept; nothing is promised when they are broken
  broken     \* freed memory was used: the program may not go on

vars == <<asked, answers, told, kept, broken>>

Init == asked = <<>> /\ answers = <<>> /\ told = 0 /\ kept = TRUE /\ broken = FALSE

Ask ==
  /\ asked = <<>>
  /\ \E c \in Contents : asked' = <<c>>
  /\ UNCHANGED <<answers, told>>

Answer ==
  /\ asked # <<>> /\ answers = <<>> /\ told = 0
  /\ \/ answers' = <<asked[1]>>
     \/ asked[1] \in MayFail /\ answers' = <<Error>>
  /\ UNCHANGED <<asked, told>>

(* With no answer out, the connection is lost.                              *)
Tell ==
  /\ asked # <<>> /\ told = 0
  /\ told' = 1
  /\ UNCHANGED <<asked, answers>>

Break ==
  /\ asked # <<>>
  /\ broken' = TRUE
  /\ UNCHANGED <<asked, answers, told>>

Next ==
  \/ kept /\ kept' /\ (((Ask \/ Answer \/ Tell) /\ broken' = broken) \/ Break)
  \/ ~kept'

IsTold == asked # <<>> ~> told > 0 \/ ~kept \/ broken

Spec == Init /\ [][Next]_vars /\ IsTold
=============================================================================
