------------------------------ MODULE Registry ------------------------------
(***************************************************************************)
(* What the lists of sessions promise: a set of HTTP connections and a set *)
(* of WebSocket connections.  A connection enters as HTTP, may become a    *)
(* WebSocket, leaves for good, and no step touches another.                *)
(***************************************************************************)
CONSTANT Conns

VARIABLES http, ws, left

vars == <<http, ws, left>>

Init == http = {} /\ ws = {} /\ left = {}

Enter(c) ==
  /\ c \notin http \cup ws \cup left
  /\ http' = http \cup {c}
  /\ UNCHANGED <<ws, left>>

Upgrade(c) ==
  /\ c \in http
  /\ http' = http \ {c}
  /\ ws' = ws \cup {c}
  /\ UNCHANGED left

Leave(c) ==
  /\ c \in http \cup ws
  /\ http' = http \ {c}
  /\ ws' = ws \ {c}
  /\ left' = left \cup {c}

Next == \E c \in Conns : Enter(c) \/ Upgrade(c) \/ Leave(c)

Spec == Init /\ [][Next]_vars
=============================================================================
