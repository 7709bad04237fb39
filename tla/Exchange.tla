------------------------------ MODULE Exchange ------------------------------
(***************************************************************************)
(* What a kept HTTP connection promises a client that waits for what it    *)
(* has asked: request after request, each answered, and the connection     *)
(* closed only between two exchanges: after the answer to a request that   *)
(* did not ask to be kept, or when the client is silent for too long.      *)
(***************************************************************************)
EXTENDS Naturals

CONSTANT N

VARIABLES
  wants,     \* which requests ask that the connection be kept
  asked, answered,
  open,
  waits      \* the client has stayed and waited so far; nothing is
             \* promised otherwise

vars == <<wants, asked, answered, open, waits>>

Init ==
  /\ wants \in [1..N -> BOOLEAN]
  /\ asked = 0 /\ answered = 0
  /\ open = TRUE /\ waits = TRUE

(* The answer may leave at once.                                            *)
Ask ==
  /\ open /\ asked = answered /\ asked < N
  /\ asked = 0 \/ wants[asked]
  /\ asked' = asked + 1
  /\ answered' \in {asked, asked + 1}
  /\ UNCHANGED <<wants, open>>

Answer ==
  /\ open /\ answered < asked
  /\ answered' = answered + 1
  /\ UNCHANGED <<wants, asked, open>>

Close ==
  /\ open /\ asked = answered /\ asked > 0
  /\ open' = FALSE
  /\ UNCHANGED <<wants, asked, answered>>

Next ==
  \/ waits /\ waits' /\ (Ask \/ Answer \/ Close)
  \/ ~waits'

(* Every request is answered, and a connection that was used and is not     *)
(* used any more ends.                                                      *)
Served ==
  \A i \in 1..N :
    /\ asked = i ~> answered = i \/ ~waits
    /\ answered = i ~> asked > i \/ ~open \/ ~waits

Spec == Init /\ [][Next]_vars /\ Served
=============================================================================
