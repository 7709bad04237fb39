--------------------------- MODULE PipelineProofs ---------------------------
(***************************************************************************)
(* No answer of a connection overtakes another or is lost but for the      *)
(* causes named, and the safety of Exchange holds, for every number of     *)
(* requests and of responses sent again.                                   *)
(***************************************************************************)
EXTENDS Pipeline, FiniteSetTheorems, TLAPS

(* The answers in the order in which they leave, or will.                   *)
out == wire \o queued

Basics ==
  /\ wants \in [1..N -> BOOLEAN]
  /\ handled \in 0..N
  /\ keepAlive \in BOOLEAN /\ timer \in BOOLEAN /\ open \in BOOLEAN
  /\ overlapped \in BOOLEAN /\ gone \in BOOLEAN

Sequenced == /\ queued \in Seq(Nat) /\ due \in Seq(Nat) /\ wire \in Seq(Nat)
             /\ out \in Seq(Nat)

(* Each request is in one place, and its answer once.                       *)
Apart ==
  /\ IsInjective(out) /\ IsInjective(due)
  /\ kept \cap ToSet(out) = {} /\ kept \cap lost = {} /\ lost \cap ToSet(out) = {}
  /\ kept \cup ToSet(out) \cup lost = 1..handled
  /\ called \cap ToSet(due) = {}
  /\ called \cup ToSet(due) = ToSet(wire)

(* What is in front was asked for before, or was kept.                      *)
InTurn ==
  /\ kept \cup late \subseteq 1..handled
  /\ kept \subseteq late
  /\ \A a, b \in 1..Len(out) : a < b /\ out[b] < out[a] => out[b] \in late

(* A client that waits has at most one request in the works, and a timer or *)
(* an end only when it has none.                                            *)
OneAtATime ==
  /\ timer => keepAlive
  /\ keepAlive => handled > 0
  /\ handled > 0 /\ ~gone => keepAlive = wants[handled]
  /\ ~overlapped => 1..(handled - 1) \subseteq called
  /\ ~overlapped /\ ~gone =>
       /\ lost = {}
       /\ timer \/ ~open => called = 1..handled
       /\ open /\ handled \in called => keepAlive

(* While each response is sent once.                                        *)
Strict == Basics /\ Sequenced /\ Apart /\ InTurn /\ OneAtATime

(* Only what was asked is answered, however often.                          *)
Within ==
  /\ again \in 0..Resends
  /\ called \cup lost \subseteq 1..handled
  /\ ToSet(queued) \cup ToSet(due) \cup ToSet(wire) \subseteq 1..handled

Loose == Basics /\ Sequenced /\ Within /\ InTurn

IInv == Loose /\ (again = 0 => Strict)

-----------------------------------------------------------------------------
(* An answer is put at the end of a queue.                                  *)
LEMMA AppendSet ==
  ASSUME NEW S, NEW s \in Seq(S), NEW x \in S
  PROVE  /\ Append(s, x) \in Seq(S)
         /\ ToSet(Append(s, x)) = ToSet(s) \cup {x}
         /\ IsInjective(s) /\ x \notin ToSet(s) => IsInjective(Append(s, x))
<1> DEFINE r == Append(s, x)
<1>1. /\ r \in Seq(S) /\ Len(s) \in Nat /\ Len(r) = Len(s) + 1 /\ r[Len(s) + 1] = x
      /\ DOMAIN r = 1..(Len(s) + 1) /\ DOMAIN s = 1..Len(s)
      /\ \A i \in 1..Len(s) : r[i] = s[i]
  OBVIOUS
<1> HIDE DEF r
<1>2. \A i \in 1..(Len(s) + 1) : i \in 1..Len(s) \/ i = Len(s) + 1
  BY <1>1
<1>3. Len(s) + 1 \in 1..(Len(s) + 1) /\ \A i \in 1..Len(s) : i \in 1..(Len(s) + 1)
  BY <1>1
<1>4. ToSet(r) = ToSet(s) \cup {x}
  BY <1>1, <1>2, <1>3 DEF ToSet
<1>5. ASSUME IsInjective(s), x \notin ToSet(s) PROVE IsInjective(r)
  <2> SUFFICES ASSUME NEW i \in 1..(Len(s) + 1), NEW j \in 1..(Len(s) + 1), r[i] = r[j]
               PROVE  i = j
    BY <1>1 DEF IsInjective
  <2>1. \A k \in 1..Len(s) : s[k] # x
    BY <1>1, <1>5 DEF ToSet
  <2> QED BY <1>1, <1>2, <1>5, <2>1 DEF IsInjective
<1> QED BY <1>1, <1>4, <1>5 DEF r

LEMMA Appended ==
  \A s \in Seq(Nat), x \in Nat : /\ ToSet(Append(s, x)) = ToSet(s) \cup {x}
                                 /\ Append(s, x) \in Seq(Nat)
<1> TAKE s \in Seq(Nat), x \in Nat
<1> QED BY AppendSet

(* A queue behind another.                                                  *)
LEMMA ConcatSet ==
  ASSUME NEW S, NEW s \in Seq(S), NEW t \in Seq(S)
  PROVE  /\ ToSet(s \o t) = ToSet(s) \cup ToSet(t)
         /\ IsInjective(s \o t) =>
              /\ IsInjective(s) /\ IsInjective(t)
              /\ ToSet(s) \cap ToSet(t) = {}
<1> DEFINE r == s \o t
           m == Len(s)
           n == Len(t)
<1>1. /\ r \in Seq(S) /\ m \in Nat /\ n \in Nat /\ Len(r) = m + n
      /\ DOMAIN r = 1..(m + n) /\ DOMAIN s = 1..m /\ DOMAIN t = 1..n
      /\ \A i \in 1..m : r[i] = s[i]
      /\ \A i \in 1..n : r[i + m] = t[i]
  OBVIOUS
<1> HIDE DEF r, m, n
<1>2. /\ \A i \in 1..m : i \in 1..(m + n)
      /\ \A i \in 1..n : i + m \in 1..(m + n) /\ i + m \notin 1..m
  BY <1>1
<1>3. \A i \in 1..(m + n) : i \in 1..m \/ \E j \in 1..n : i = j + m
  <2> SUFFICES ASSUME NEW i \in 1..(m + n), i \notin 1..m PROVE \E j \in 1..n : i = j + m
    OBVIOUS
  <2>1. i - m \in 1..n /\ i = (i - m) + m
    BY <1>1
  <2> QED BY <2>1
<1>4. ToSet(r) = ToSet(s) \cup ToSet(t)
  <2>1. ASSUME NEW x \in ToSet(r) PROVE x \in ToSet(s) \cup ToSet(t)
    <3>1. PICK i \in 1..(m + n) : x = r[i]
      BY <2>1, <1>1 DEF ToSet
    <3>2. CASE i \in 1..m
      BY <3>1, <3>2, <1>1 DEF ToSet
    <3>3. CASE \E j \in 1..n : i = j + m
      BY <3>1, <3>3, <1>1 DEF ToSet
    <3> QED BY <3>2, <3>3, <1>3
  <2>2. ASSUME NEW x \in ToSet(s) \cup ToSet(t) PROVE x \in ToSet(r)
    BY <2>2, <1>1, <1>2 DEF ToSet
  <2> QED BY <2>1, <2>2
<1>5. ASSUME IsInjective(r) PROVE /\ IsInjective(s) /\ IsInjective(t)
                                  /\ ToSet(s) \cap ToSet(t) = {}
  <2>1. IsInjective(s)
    BY <1>5, <1>1, <1>2 DEF IsInjective
  <2>2. IsInjective(t)
    <3> SUFFICES ASSUME NEW i \in 1..n, NEW j \in 1..n, t[i] = t[j] PROVE i = j
      BY <1>1 DEF IsInjective
    <3>1. i + m = j + m
      BY <1>5, <1>1, <1>2 DEF IsInjective
    <3> QED BY <3>1, <1>1
  <2>3. ASSUME NEW i \in 1..m, NEW j \in 1..n, s[i] = t[j] PROVE FALSE
    <3>1. i = j + m
      BY <2>3, <1>5, <1>1, <1>2 DEF IsInjective
    <3> QED BY <3>1, <1>2
  <2> QED BY <2>1, <2>2, <2>3, <1>1 DEF ToSet
<1> QED BY <1>4, <1>5 DEF r

(* The first of a queue is taken.                                           *)
LEMMA TailSet ==
  ASSUME NEW S, NEW s \in Seq(S), s # <<>>
  PROVE  /\ Tail(s) \in Seq(S) /\ Head(s) \in S
         /\ ToSet(s) = {Head(s)} \cup ToSet(Tail(s))
         /\ IsInjective(s) => IsInjective(Tail(s)) /\ Head(s) \notin ToSet(Tail(s))
<1> DEFINE h == <<Head(s)>>
           t == Tail(s)
<1>1. t \in Seq(S) /\ h \in Seq(S) /\ h \o t = s /\ Head(s) \in S
  OBVIOUS
<1>2. ToSet(h) = {Head(s)}
  BY DEF ToSet
<1> HIDE DEF h, t
<1>3. /\ ToSet(h \o t) = ToSet(h) \cup ToSet(t)
      /\ IsInjective(h \o t) => IsInjective(t) /\ ToSet(h) \cap ToSet(t) = {}
  BY <1>1, ConcatSet, ZenonT(40)
<1> QED BY <1>1, <1>2, <1>3 DEF t

(* A queue without repetitions has as many answers as it is long.           *)
LEMMA InjectiveLen ==
  ASSUME NEW S, NEW s \in Seq(S), IsInjective(s)
  PROVE  IsFiniteSet(ToSet(s)) /\ Cardinality(ToSet(s)) = Len(s)
<1>1. Len(s) \in Nat /\ DOMAIN s = 1..Len(s)
  OBVIOUS
<1>2. s \in Surjection(1..Len(s), ToSet(s)) /\ s \in Injection(1..Len(s), ToSet(s))
  <2>1. s \in [1..Len(s) -> ToSet(s)]
    BY <1>1 DEF ToSet
  <2> QED BY <1>1, <2>1 DEF Surjection, Injection, ToSet, IsInjective
<1>3. IsFiniteSet(1..Len(s)) /\ Cardinality(1..Len(s)) = Len(s)
  BY <1>1, FS_Interval
<1> QED BY <1>2, <1>3, FS_Surjection

(* What is written joins the answers at their end; only what is written at  *)
(* once is due.                                                             *)
LEMMA WriteFacts ==
  ASSUME Sequenced, NEW i \in Nat, Write(i)
  PROVE  /\ Sequenced'
         /\ out' = Append(out, i)
         /\ lost' = lost
         /\ \/ due' = due /\ wire' = wire
            \/ due' = Append(due, i) /\ wire' = Append(wire, i)
<1>1. CASE queued = <<>> /\ due' = Append(due, i) /\ wire' = Append(wire, i) /\ queued' = queued
  <2>1. out = wire /\ out' = wire'
    BY <1>1 DEF Sequenced, out
  <2>2. wire' \in Seq(Nat) /\ due' \in Seq(Nat)
    BY <1>1 DEF Sequenced
  <2>3. Sequenced'
    BY <1>1, <2>1, <2>2 DEF Sequenced
  <2> QED BY <1>1, <2>1, <2>3 DEF Write
<1>2. CASE queued' = Append(queued, i) /\ due' = due /\ wire' = wire
  <2>1. out' = Append(out, i)
    BY <1>2 DEF Sequenced, out
  <2>2. Sequenced'
    BY <1>2, <2>1 DEF Sequenced
  <2> QED BY <1>2, <2>1, <2>2 DEF Write
<1> QED BY <1>1, <1>2 DEF Write

(* The set of the answers, and of the callbacks, of the invariant.          *)
LEMMA OutFacts ==
  ASSUME Strict
  PROVE  /\ ToSet(out) = ToSet(wire) \cup ToSet(queued)
         /\ ToSet(wire) \cap ToSet(queued) = {}
         /\ IsInjective(wire) /\ IsInjective(queued)
         /\ called \subseteq 1..handled /\ handled \in Nat
         /\ IsFiniteSet(called)
         /\ Cardinality(called) >= handled => called = 1..handled
<1>1. /\ ToSet(out) = ToSet(wire) \cup ToSet(queued)
      /\ ToSet(wire) \cap ToSet(queued) = {}
      /\ IsInjective(wire) /\ IsInjective(queued)
  <2>1. wire \in Seq(Nat) /\ queued \in Seq(Nat) /\ IsInjective(wire \o queued)
    BY DEF Strict, Sequenced, Apart, out
  <2>2. /\ ToSet(wire \o queued) = ToSet(wire) \cup ToSet(queued)
        /\ IsInjective(wire \o queued) =>
              /\ IsInjective(wire) /\ IsInjective(queued)
              /\ ToSet(wire) \cap ToSet(queued) = {}
    BY <2>1, ConcatSet, Zenon
  <2> QED BY <2>1, <2>2 DEF out
<1>2. called \subseteq 1..handled /\ handled \in Nat
  BY <1>1, BoundsAssumption DEF Strict, Apart, Basics
<1>3. IsFiniteSet(1..handled) /\ Cardinality(1..handled) = handled
  BY <1>2, FS_Interval
<1>4. /\ IsFiniteSet(called) /\ Cardinality(called) <= handled
      /\ handled = Cardinality(called) => 1..handled = called
  BY <1>2, <1>3, FS_Subset
<1>5. Cardinality(called) \in Nat
  BY <1>4, FS_CardinalityType
<1> QED BY <1>1, <1>2, <1>4, <1>5

-----------------------------------------------------------------------------
(* The initial states satisfy the invariant.                                *)
LEMMA InitInv == Init => IInv
<1> SUFFICES ASSUME Init PROVE IInv
  OBVIOUS
<1>1. Basics
  <2>1. handled \in 0..N
    BY BoundsAssumption DEF Init
  <2> QED BY <2>1 DEF Init, Basics
<1>1a. OneAtATime
  <2>1. 1..(0 - 1) = {}
    OBVIOUS
  <2> QED BY <2>1 DEF Init, OneAtATime
<1>2. Sequenced /\ out = <<>>
  BY DEF Init, Sequenced, out
<1>3. Apart /\ InTurn
  BY <1>2 DEF Init, Apart, InTurn, IsInjective, ToSet
<1>4. Within
  BY BoundsAssumption DEF Init, Within, ToSet
<1> QED BY <1>1, <1>1a, <1>2, <1>3, <1>4 DEF IInv, Loose, Strict

(* The answers behind each other, with one more at the end: in turn if it   *)
(* is to a request that was kept, or to the last.                           *)
LEMMA AppendInTurn ==
  ASSUME NEW s \in Seq(Nat), NEW i \in Nat, NEW L, NEW M,
         \A a, b \in 1..Len(s) : a < b /\ s[b] < s[a] => s[b] \in L,
         L \subseteq M, i \in M \/ \A a \in 1..Len(s) : s[a] <= i
  PROVE  \A a, b \in 1..Len(Append(s, i)) :
           a < b /\ Append(s, i)[b] < Append(s, i)[a] => Append(s, i)[b] \in M
<1> SUFFICES ASSUME NEW a \in 1..(Len(s) + 1), NEW b \in 1..(Len(s) + 1), a < b,
                    Append(s, i)[b] < Append(s, i)[a]
             PROVE  Append(s, i)[b] \in M
  OBVIOUS
<1>1. a \in 1..Len(s) /\ Append(s, i)[a] = s[a]
  OBVIOUS
<1>2. CASE b = Len(s) + 1
  BY <1>1, <1>2
<1>3. CASE b # Len(s) + 1
  BY <1>1, <1>3
<1> QED BY <1>2, <1>3

(* An answer that is written is to a request, and in turn if that one was   *)
(* kept or is the last.                                                     *)
LEMMA WriteLoose ==
  ASSUME Loose, NEW n \in Nat, handled <= n, NEW i \in 1..n, Write(i), NEW M,
         late \subseteq M, i \in M \/ i = n
  PROVE  /\ Sequenced' /\ lost' = lost
         /\ ToSet(queued') \cup ToSet(due') \cup ToSet(wire') \subseteq 1..n
         /\ \A a, b \in 1..Len(out') : a < b /\ out'[b] < out'[a] => out'[b] \in M
<1> USE DEF Loose
<1>1. i \in Nat /\ handled \in Nat /\ 1..handled \subseteq 1..n
  BY BoundsAssumption DEF Basics
<1>2. Sequenced' /\ out' = Append(out, i) /\ lost' = lost
  BY <1>1, WriteFacts
<1>3. /\ ToSet(Append(queued, i)) = ToSet(queued) \cup {i}
      /\ ToSet(Append(due, i)) = ToSet(due) \cup {i}
      /\ ToSet(Append(wire, i)) = ToSet(wire) \cup {i}
  <2>1. queued \in Seq(Nat) /\ due \in Seq(Nat) /\ wire \in Seq(Nat)
    BY DEF Sequenced
  <2>2. ToSet(Append(queued, i)) = ToSet(queued) \cup {i}
    BY <1>1, <2>1, Appended, Zenon
  <2>3. ToSet(Append(due, i)) = ToSet(due) \cup {i}
    BY <1>1, <2>1, Appended, Zenon
  <2>4. ToSet(Append(wire, i)) = ToSet(wire) \cup {i}
    BY <1>1, <2>1, Appended, Zenon
  <2> QED BY <2>2, <2>3, <2>4
<1>4. ToSet(queued') \cup ToSet(due') \cup ToSet(wire') \subseteq 1..n
  BY <1>1, <1>3 DEF Write, Within
<1>5. \A a \in 1..Len(out) : out[a] <= n
  <2>1. ToSet(out) = ToSet(wire) \cup ToSet(queued)
    BY ConcatSet DEF Sequenced, out
  <2>2. \A a \in 1..Len(out) : out[a] \in ToSet(out)
    BY DEF ToSet, Sequenced
  <2> QED BY <1>1, <2>1, <2>2 DEF Within
<1>6. /\ out \in Seq(Nat)
      /\ \A a, b \in 1..Len(out) : a < b /\ out[b] < out[a] => out[b] \in late
  BY DEF Sequenced, InTurn
<1>7. i \in M \/ \A a \in 1..Len(out) : out[a] <= i
  BY <1>5
<1>8. \A a, b \in 1..Len(Append(out, i)) :
        a < b /\ Append(out, i)[b] < Append(out, i)[a] => Append(out, i)[b] \in M
  BY <1>1, <1>6, <1>7, AppendInTurn
<1> QED BY <1>2, <1>4, <1>8

(* So is one that is sent: what is not written is lost.                     *)
LEMMA SendLoose ==
  ASSUME Loose, NEW i \in 1..handled, Send(i), late' = late \cup {i}
  PROVE  /\ Sequenced' /\ lost' \subseteq 1..handled
         /\ ToSet(queued') \cup ToSet(due') \cup ToSet(wire') \subseteq 1..handled
         /\ \A a, b \in 1..Len(out') : a < b /\ out'[b] < out'[a] => out'[b] \in late'
<1> USE DEF Loose
<1>0. handled \in Nat /\ handled <= handled
  BY BoundsAssumption DEF Basics
<1>1. CASE open
  <2>1. Write(i)
    BY <1>1 DEF Send
  <2>2. late \subseteq late' /\ i \in late'
    OBVIOUS
  <2>3. /\ Sequenced' /\ lost' = lost
        /\ ToSet(queued') \cup ToSet(due') \cup ToSet(wire') \subseteq 1..handled
        /\ \A a, b \in 1..Len(out') : a < b /\ out'[b] < out'[a] => out'[b] \in late'
    BY <1>0, <2>1, <2>2, WriteLoose
  <2> QED BY <2>3 DEF Within
<1>2. CASE ~open
  <2>1. lost' = lost \cup {i} /\ UNCHANGED <<queued, due, wire>>
    BY <1>2 DEF Send
  <2>2. out' = out
    BY <2>1 DEF out
  <2> QED BY <2>1, <2>2 DEF Sequenced, Within, InTurn
<1> QED BY <1>1, <1>2

(* Every step answers only what was asked, and in turn but for what was     *)
(* kept or is sent again.                                                   *)
LEMMA LooseSteps ==
  ASSUME Loose, Next
  PROVE  Loose'
<1> USE DEF Loose
<1>0. handled \in Nat /\ handled <= handled
  BY BoundsAssumption DEF Basics
<1>1. ASSUME NEW i \in 1..N, HandleRequest(i) PROVE Loose'
  <2>1. /\ i = handled + 1 /\ handled' = i /\ i \in Nat /\ handled <= i /\ i \in 1..i
        /\ 1..handled \subseteq 1..i /\ i \in 0..N
        /\ UNCHANGED <<wants, open, called, again, gone>>
    BY <1>0, <1>1 DEF HandleRequest, Arrives
  <2>2. keepAlive' \in BOOLEAN /\ timer' \in BOOLEAN /\ overlapped' \in BOOLEAN
    <3>1. wants[i] \in BOOLEAN
      BY DEF Basics
    <3> QED BY <1>1, <3>1 DEF HandleRequest, Arrives
  <2>3. Basics'
    BY <2>1, <2>2 DEF Basics
  <2>4. CASE Write(i) /\ UNCHANGED <<kept, late>>
    <3>1. /\ Sequenced' /\ lost' = lost
          /\ ToSet(queued') \cup ToSet(due') \cup ToSet(wire') \subseteq 1..i
          /\ \A a, b \in 1..Len(out') : a < b /\ out'[b] < out'[a] => out'[b] \in late
      BY <2>1, <2>4, WriteLoose
    <3>2. Within'
      BY <2>1, <3>1 DEF Within
    <3>3. InTurn'
      BY <2>1, <2>4, <3>1 DEF InTurn
    <3> QED BY <2>3, <3>1, <3>2, <3>3
  <2>5. CASE /\ kept' = kept \cup {i} /\ late' = late \cup {i}
             /\ UNCHANGED <<queued, due, wire, lost>>
    <3>1. out' = out
      BY <2>5 DEF out
    <3>2. Sequenced' /\ Within'
      BY <2>1, <2>5, <3>1 DEF Sequenced, Within
    <3>3. InTurn'
      BY <2>1, <2>5, <3>1 DEF InTurn
    <3> QED BY <2>3, <3>2, <3>3
  <2> QED BY <1>1, <2>4, <2>5 DEF HandleRequest, Arrives
<1>2. ASSUME NEW i \in 1..N, Respond(i) \/ SendAgain(i) PROVE Loose'
  <2>1. /\ i \in 1..handled /\ late' = late \cup {i} /\ kept' \subseteq kept /\ Send(i)
        /\ UNCHANGED <<wants, handled, keepAlive, timer, open, called, overlapped, gone>>
    BY <1>2 DEF Respond, SendAgain, loop, InTurn
  <2>2. again' \in 0..Resends
    BY <1>2, BoundsAssumption DEF Respond, SendAgain, Within
  <2>3. /\ Sequenced' /\ lost' \subseteq 1..handled
        /\ ToSet(queued') \cup ToSet(due') \cup ToSet(wire') \subseteq 1..handled
        /\ \A a, b \in 1..Len(out') : a < b /\ out'[b] < out'[a] => out'[b] \in late'
    BY <2>1, SendLoose
  <2>4. Basics' /\ Within'
    BY <2>1, <2>2, <2>3 DEF Basics, Within
  <2>5. InTurn'
    BY <2>1, <2>3 DEF InTurn
  <2> QED BY <2>3, <2>4, <2>5
<1>3. CASE WriteDone
  <2> DEFINE h == Head(queued)
             t == Tail(queued)
  <2>1. /\ queued # <<>> /\ queued' = t /\ due' = Append(due, h) /\ wire' = Append(wire, h)
        /\ UNCHANGED <<wants, handled, keepAlive, timer, open, kept, called, lost, late,
                       again, overlapped, gone>>
    BY <1>3 DEF WriteDone, loop
  <2>2. t \in Seq(Nat) /\ h \in Nat /\ ToSet(queued) = {h} \cup ToSet(t)
    BY <2>1, TailSet DEF Sequenced
  <2>3. out' = out
    <3>1. Append(wire, h) \o t = wire \o queued
      BY <2>1, SMTT(40) DEF Sequenced
    <3> QED BY <2>1, <3>1 DEF out
  <2> HIDE DEF h, t
  <2>4. /\ ToSet(due') = ToSet(due) \cup {h} /\ ToSet(wire') = ToSet(wire) \cup {h}
        /\ due' \in Seq(Nat) /\ wire' \in Seq(Nat)
    <3>1. due \in Seq(Nat) /\ wire \in Seq(Nat)
      BY DEF Sequenced
    <3>2. ToSet(Append(due, h)) = ToSet(due) \cup {h} /\ Append(due, h) \in Seq(Nat)
      BY <2>2, <3>1, Appended, Zenon
    <3>3. ToSet(Append(wire, h)) = ToSet(wire) \cup {h} /\ Append(wire, h) \in Seq(Nat)
      BY <2>2, <3>1, Appended, Zenon
    <3> QED BY <2>1, <3>2, <3>3
  <2> QED BY <2>1, <2>2, <2>3, <2>4 DEF Basics, Sequenced, Within, InTurn
<1>4. ASSUME Callback PROVE /\ due' \in Seq(Nat) /\ called' \cup ToSet(due') \subseteq 1..handled
                            /\ UNCHANGED <<wants, handled, kept, wire, late, again,
                                            overlapped, gone>>
  <2>1. /\ Tail(due) \in Seq(Nat) /\ ToSet(due) = {Head(due)} \cup ToSet(Tail(due))
    BY <1>4, TailSet DEF Callback, Sequenced
  <2> QED BY <1>4, <2>1 DEF Callback, Within
<1>5. ASSUME Close, wire' = wire
      PROVE  /\ out' = wire /\ open' = FALSE /\ queued' \in Seq(Nat) /\ out' \in Seq(Nat)
             /\ lost' \subseteq 1..handled /\ ToSet(queued') = {}
             /\ \A a, b \in 1..Len(out') : a < b /\ out'[b] < out'[a] => out'[b] \in late
  <2>1. queued' = <<>> /\ lost' = lost \cup ToSet(queued) /\ open' = FALSE
    BY <1>5 DEF Close
  <2>2. out' = wire /\ ToSet(queued') = {} /\ queued' \in Seq(Nat) /\ wire \in Seq(Nat)
    BY <1>5, <2>1 DEF out, Sequenced, ToSet
  <2>3. \A a \in 1..Len(wire) : a \in 1..Len(out) /\ out[a] = wire[a]
    BY DEF Sequenced, out
  <2> QED BY <2>1, <2>2, <2>3 DEF InTurn, Within
<1>6. CASE OnSentKeep \/ OnSentGone
  <2>1. /\ Callback /\ UNCHANGED <<keepAlive, open, queued, lost>> /\ timer' \in BOOLEAN
    BY <1>6 DEF OnSentKeep, OnSentGone, Basics
  <2>2. out' = out
    BY <1>4, <2>1 DEF out
  <2> QED BY <1>4, <2>1, <2>2 DEF Basics, Sequenced, Within, InTurn
<1>7. CASE OnSentClose
  <2>1. Callback /\ Close /\ UNCHANGED <<keepAlive, timer>>
    BY <1>7 DEF OnSentClose
  <2>2. wire' = wire
    BY <1>4, <2>1
  <2> QED BY <1>4, <1>5, <2>1, <2>2 DEF Basics, Sequenced, Within, InTurn
<1>8. CASE TimerCb \/ RecvEnd
  <2>1. /\ Close /\ keepAlive' \in BOOLEAN /\ timer' \in BOOLEAN /\ gone' \in BOOLEAN
        /\ UNCHANGED <<wants, handled, kept, due, wire, called, late, again, overlapped>>
    BY <1>8 DEF TimerCb, RecvEnd, Basics
  <2> QED BY <1>5, <2>1 DEF Basics, Sequenced, Within, InTurn
<1> QED BY <1>1, <1>2, <1>3, <1>6, <1>7, <1>8 DEF Next, OnSent

(* handle_request: one more request, answered at the end of the queue or    *)
(* kept.                                                                    *)
LEMMA HandleRequestInv ==
  ASSUME Strict, NEW i \in 1..N, HandleRequest(i)
  PROVE  Strict'
<1> USE DEF Strict
<1>1. /\ handled \in Nat /\ i = handled + 1 /\ handled' = i /\ i \in Nat
      /\ 1..handled' = 1..handled \cup {i} /\ i \notin 1..handled
      /\ UNCHANGED <<wants, open, called, gone>> /\ open
  BY BoundsAssumption DEF Basics, HandleRequest, Arrives
<1>2. /\ ToSet(out) = ToSet(wire) \cup ToSet(queued)
      /\ called \subseteq 1..handled
      /\ Cardinality(called) >= handled => called = 1..handled
      /\ IsFiniteSet(called)
  BY OutFacts
<1>3. i \notin kept \cup ToSet(out) \cup lost \cup called \cup ToSet(due) \cup ToSet(wire)
  BY <1>1, <1>2 DEF Apart
<1>4. Basics'
  <2>1. handled' \in 0..N
    BY <1>1, BoundsAssumption
  <2>2. wants[i] \in BOOLEAN
    BY DEF Basics
  <2>3. keepAlive' \in BOOLEAN /\ timer' \in BOOLEAN /\ overlapped' \in BOOLEAN
    BY <2>2 DEF HandleRequest, Arrives
  <2> QED BY <1>1, <2>1, <2>3 DEF Basics
<1>5. OneAtATime'
  <2>1. keepAlive' = wants'[handled'] /\ handled' > 0
    BY <1>1 DEF HandleRequest
  <2>2. ~timer'
    BY DEF HandleRequest, OneAtATime
  <2>3. ASSUME ~overlapped' PROVE ~overlapped /\ 1..(handled' - 1) \subseteq called'
    <3>1. Cardinality(called) \in Nat
      BY <1>2, FS_CardinalityType
    <3>2. ~overlapped /\ ~(Cardinality(called) < handled)
      BY <2>3 DEF HandleRequest, Arrives
    <3>3. called = 1..handled /\ handled' - 1 = handled
      BY <1>1, <1>2, <3>1, <3>2
    <3> QED BY <1>1, <3>2, <3>3
  <2>4. lost' = lost
    BY DEF HandleRequest, Arrives, Write
  <2>5. handled' \notin called'
    BY <1>1, <1>2
  <2>6. ~overlapped' /\ ~gone' => lost' = {}
    BY <1>1, <2>3, <2>4 DEF OneAtATime
  <2> QED BY <1>1, <2>1, <2>2, <2>3, <2>5, <2>6 DEF OneAtATime
<1>6. CASE Write(i) /\ kept' = kept /\ late' = late
  <2>1. /\ Sequenced' /\ out' = Append(out, i) /\ lost' = lost
        /\ \/ due' = due /\ wire' = wire
           \/ due' = Append(due, i) /\ wire' = Append(wire, i)
    BY <1>1, <1>6, WriteFacts
  <2>2. ToSet(out') = ToSet(out) \cup {i} /\ IsInjective(out')
    BY <1>1, <1>3, <2>1, AppendSet DEF Sequenced, Apart
  <2>3. /\ \/ ToSet(due') = ToSet(due) /\ ToSet(wire') = ToSet(wire)
           \/ ToSet(due') = ToSet(due) \cup {i} /\ ToSet(wire') = ToSet(wire) \cup {i}
        /\ IsInjective(due')
    <3>1. /\ ToSet(Append(due, i)) = ToSet(due) \cup {i}
          /\ ToSet(Append(wire, i)) = ToSet(wire) \cup {i}
          /\ IsInjective(Append(due, i))
      BY <1>1, <1>3, AppendSet DEF Sequenced, Apart
    <3> QED BY <2>1, <3>1 DEF Apart
  <2>4. Apart'
    BY <1>1, <1>3, <1>6, <2>1, <2>2, <2>3 DEF Apart
  <2>5. \A a \in 1..Len(out) : out[a] <= i
    <3>1. \A a \in 1..Len(out) : out[a] \in ToSet(out)
      BY DEF ToSet, Sequenced
    <3> QED BY <1>1, <3>1 DEF Apart
  <2>6. InTurn'
    <3>1. \A a, b \in 1..Len(out') : a < b /\ out'[b] < out'[a] => out'[b] \in late
      BY <1>1, <2>1, <2>5, AppendInTurn DEF InTurn, Sequenced
    <3> QED BY <1>1, <1>6, <3>1 DEF InTurn
  <2> QED BY <1>4, <1>5, <2>1, <2>4, <2>6
<1>7. CASE /\ kept' = kept \cup {i} /\ late' = late \cup {i}
           /\ UNCHANGED <<queued, due, wire, lost>>
  <2>1. out' = out
    BY <1>7 DEF out
  <2>2. Sequenced' /\ Apart'
    BY <1>1, <1>3, <1>7, <2>1 DEF Sequenced, Apart
  <2>3. InTurn'
    BY <1>1, <1>7, <2>1 DEF InTurn
  <2> QED BY <1>4, <1>5, <2>2, <2>3
<1> QED BY <1>6, <1>7 DEF HandleRequest, Arrives

(* What the application has kept is answered, behind what is queued; on a   *)
(* connection that is closed it is lost.                                    *)
LEMMA RespondInv ==
  ASSUME Strict, NEW i \in 1..N, Respond(i)
  PROVE  Strict'
<1> USE DEF Strict
<1>1. /\ i \in Nat /\ i \in kept /\ kept' = kept \ {i}
      /\ UNCHANGED <<wants, handled, keepAlive, timer, open, called, late, overlapped, gone>>
  BY DEF Respond, Send, loop
<1>2. /\ ToSet(out) = ToSet(wire) \cup ToSet(queued)
  BY OutFacts
<1>3. /\ i \notin ToSet(out) \cup lost \cup called \cup ToSet(due) \cup ToSet(wire)
      /\ i \in 1..handled
  BY <1>1, <1>2 DEF Apart
<1>4. Basics'
  BY <1>1 DEF Basics
<1>5. CASE open
  <2>1. Write(i)
    BY <1>5 DEF Respond, Send
  <2>2. /\ Sequenced' /\ out' = Append(out, i) /\ lost' = lost
        /\ \/ due' = due /\ wire' = wire
           \/ due' = Append(due, i) /\ wire' = Append(wire, i)
    BY <1>1, <2>1, WriteFacts
  <2>3. ToSet(out') = ToSet(out) \cup {i} /\ IsInjective(out')
    BY <1>1, <1>3, <2>2, AppendSet DEF Sequenced, Apart
  <2>4. /\ \/ ToSet(due') = ToSet(due) /\ ToSet(wire') = ToSet(wire)
           \/ ToSet(due') = ToSet(due) \cup {i} /\ ToSet(wire') = ToSet(wire) \cup {i}
        /\ IsInjective(due')
    <3>1. /\ ToSet(Append(due, i)) = ToSet(due) \cup {i}
          /\ ToSet(Append(wire, i)) = ToSet(wire) \cup {i}
          /\ IsInjective(Append(due, i))
      BY <1>1, <1>3, AppendSet DEF Sequenced, Apart
    <3> QED BY <2>2, <3>1 DEF Apart
  <2>5. Apart'
    BY <1>1, <1>3, <2>2, <2>3, <2>4 DEF Apart
  <2>6. InTurn'
    <3>1. \A a, b \in 1..Len(out') : a < b /\ out'[b] < out'[a] => out'[b] \in late
      BY <1>1, <2>2, AppendInTurn DEF InTurn, Sequenced
    <3> QED BY <1>1, <3>1 DEF InTurn
  <2>7. OneAtATime'
    BY <1>1, <2>2 DEF OneAtATime
  <2> QED BY <1>4, <2>2, <2>5, <2>6, <2>7
<1>6. CASE ~open
  <2>1. lost' = lost \cup {i} /\ UNCHANGED <<queued, due, wire>>
    BY <1>6 DEF Respond, Send
  <2>2. out' = out
    BY <2>1 DEF out
  <2>3. Sequenced' /\ InTurn'
    BY <1>1, <2>1, <2>2 DEF Sequenced, InTurn
  <2>4. Apart'
    BY <1>1, <1>3, <2>1, <2>2 DEF Apart
  <2>5. overlapped \/ gone
    BY <1>3, <1>6 DEF OneAtATime
  <2>6. OneAtATime'
    BY <1>1, <2>5 DEF OneAtATime
  <2> QED BY <1>4, <2>3, <2>4, <2>6
<1> QED BY <1>5, <1>6

(* The loop writes the first of the queue: the order stays.                 *)
LEMMA WriteDoneInv ==
  ASSUME Strict, WriteDone
  PROVE  Strict'
<1> USE DEF Strict
<1> DEFINE h == Head(queued)
           t == Tail(queued)
<1>1. /\ queued # <<>> /\ queued' = t /\ due' = Append(due, h) /\ wire' = Append(wire, h)
      /\ UNCHANGED <<wants, handled, keepAlive, timer, open, kept, called, lost, late,
                     overlapped, gone>>
  BY DEF WriteDone, loop
<1>2. /\ t \in Seq(Nat) /\ h \in Nat /\ ToSet(queued) = {h} \cup ToSet(t)
  BY <1>1, TailSet DEF Sequenced
<1>3. /\ ToSet(out) = ToSet(wire) \cup ToSet(queued)
      /\ ToSet(wire) \cap ToSet(queued) = {}
  BY OutFacts
<1>4. out' = out
  <2>1. Append(wire, h) \o t = wire \o queued
    BY <1>1, SMTT(40) DEF Sequenced
  <2> QED BY <1>1, <2>1 DEF out
<1> HIDE DEF h, t
<1>5. h \notin called \cup ToSet(due) \cup ToSet(wire)
  BY <1>2, <1>3 DEF Apart
<1>6. /\ ToSet(due') = ToSet(due) \cup {h} /\ ToSet(wire') = ToSet(wire) \cup {h}
      /\ IsInjective(due') /\ due' \in Seq(Nat) /\ wire' \in Seq(Nat)
  BY <1>1, <1>2, <1>5, AppendSet DEF Sequenced, Apart
<1>7. Sequenced' /\ Basics' /\ InTurn' /\ OneAtATime'
  BY <1>1, <1>2, <1>4, <1>6 DEF Sequenced, Basics, InTurn, OneAtATime
<1>8. Apart'
  BY <1>1, <1>4, <1>5, <1>6 DEF Apart
<1> QED BY <1>7, <1>8

(* A callback takes the answer from what is due, and leaves what is out.    *)
LEMMA CallbackFacts ==
  ASSUME Strict, Callback
  PROVE  /\ due' \in Seq(Nat) /\ IsInjective(due')
         /\ called' \cap ToSet(due') = {} /\ called' \cup ToSet(due') = ToSet(wire')
         /\ UNCHANGED <<wants, handled, kept, wire, late, overlapped, gone>>
         /\ called \subseteq called' /\ called' \subseteq 1..handled
         /\ handled > 0
         /\ ~overlapped => called' = 1..handled
<1> USE DEF Strict
<1> DEFINE h == Head(due)
           t == Tail(due)
<1>1. /\ due # <<>> /\ due' = t /\ called' = called \cup {h}
      /\ UNCHANGED <<wants, handled, kept, wire, late, overlapped, gone>>
  BY DEF Callback
<1>2. /\ t \in Seq(Nat) /\ h \in Nat /\ ToSet(due) = {h} \cup ToSet(t)
      /\ IsInjective(t) /\ h \notin ToSet(t)
  BY <1>1, TailSet DEF Sequenced, Apart
<1>3. ToSet(out) = ToSet(wire) \cup ToSet(queued)
  BY OutFacts
<1> HIDE DEF h, t
<1>4. h \in 1..handled /\ called \subseteq 1..handled /\ h \notin called /\ handled \in Nat
  BY <1>2, <1>3, BoundsAssumption DEF Apart, Basics
<1>5. handled > 0 /\ 1..handled = 1..(handled - 1) \cup {handled}
  BY <1>4
<1>6. ~overlapped => called' = 1..handled
  BY <1>1, <1>4, <1>5 DEF OneAtATime
<1> QED BY <1>1, <1>2, <1>4, <1>5, <1>6 DEF Apart

(* close() moves what is queued to what is lost.                            *)
LEMMA CloseFacts ==
  ASSUME Strict, Close, UNCHANGED <<wire, kept, handled, late>>
  PROVE  /\ out' = wire /\ queued' = <<>> /\ ToSet(out') = ToSet(wire)
         /\ IsInjective(out')
         /\ kept' \cap ToSet(out') = {} /\ kept' \cap lost' = {} /\ lost' \cap ToSet(out') = {}
         /\ kept' \cup ToSet(out') \cup lost' = 1..handled'
         /\ InTurn'
         /\ ToSet(queued) = {} => lost' = lost
         /\ open' = FALSE
<1> USE DEF Strict
<1>1. queued' = <<>> /\ lost' = lost \cup ToSet(queued) /\ open' = FALSE
  BY DEF Close
<1>2. out' = wire
  BY <1>1 DEF out, Sequenced
<1>3. /\ ToSet(out) = ToSet(wire) \cup ToSet(queued)
      /\ ToSet(wire) \cap ToSet(queued) = {} /\ IsInjective(wire)
  BY OutFacts
<1>4. \A a \in 1..Len(wire) : a \in 1..Len(out) /\ out[a] = wire[a]
  BY DEF Sequenced, out
<1>5. InTurn'
  BY <1>2, <1>4 DEF InTurn
<1> QED BY <1>1, <1>2, <1>3, <1>5 DEF Apart

(* onSent arms the timer, closes the connection, or finds it closed.        *)
LEMMA OnSentInv ==
  ASSUME Strict, OnSent
  PROVE  Strict'
<1> USE DEF Strict
<1>1. Callback
  BY DEF OnSent, OnSentKeep, OnSentClose, OnSentGone
<1>2. /\ due' \in Seq(Nat) /\ IsInjective(due')
      /\ called' \cap ToSet(due') = {} /\ called' \cup ToSet(due') = ToSet(wire')
      /\ UNCHANGED <<wants, handled, kept, wire, late, overlapped, gone>>
      /\ called \subseteq called' /\ called' \subseteq 1..handled
      /\ handled > 0
      /\ ~overlapped => called' = 1..handled
  BY <1>1, CallbackFacts
<1>3. handled \in Nat /\ (~overlapped => 1..(handled' - 1) \subseteq called')
  BY <1>2, BoundsAssumption DEF Basics
<1>4. CASE OnSentKeep
  <2>1. UNCHANGED <<keepAlive, open, queued, lost>> /\ timer' = TRUE /\ keepAlive
    BY <1>4 DEF OnSentKeep
  <2>2. out' = out
    BY <1>2, <2>1 DEF out
  <2>3. Basics'
    BY <1>2, <2>1 DEF Basics
  <2>4. Sequenced' /\ Apart' /\ InTurn'
    BY <1>2, <2>1, <2>2 DEF Sequenced, Apart, InTurn
  <2>5. OneAtATime'
    BY <1>2, <1>3, <2>1 DEF OneAtATime
  <2> QED BY <2>3, <2>4, <2>5
<1>5. CASE OnSentClose
  <2>1. UNCHANGED <<keepAlive, timer>> /\ Close /\ ~keepAlive /\ open
    BY <1>5 DEF OnSentClose
  <2>2. /\ out' = wire /\ queued' = <<>> /\ ToSet(out') = ToSet(wire)
        /\ IsInjective(out')
        /\ kept' \cap ToSet(out') = {} /\ kept' \cap lost' = {} /\ lost' \cap ToSet(out') = {}
        /\ kept' \cup ToSet(out') \cup lost' = 1..handled'
        /\ InTurn'
        /\ ToSet(queued) = {} => lost' = lost
        /\ open' = FALSE
    BY <1>2, <2>1, CloseFacts
  <2>3. Basics'
    BY <1>2, <2>1, <2>2 DEF Basics
  <2>4. Sequenced' /\ Apart'
    BY <1>2, <2>2 DEF Sequenced, Apart
  <2>5. ASSUME ~overlapped' PROVE ToSet(queued) = {}
    <3>1. called' = 1..handled
      BY <1>2, <2>5
    <3>2. /\ ToSet(out) = ToSet(wire) \cup ToSet(queued)
          /\ ToSet(wire) \cap ToSet(queued) = {}
      BY OutFacts
    <3> QED BY <3>1, <3>2, <1>2 DEF Apart
  <2>6. OneAtATime'
    BY <1>2, <1>3, <2>1, <2>2, <2>5 DEF OneAtATime
  <2> QED BY <2>2, <2>3, <2>4, <2>6
<1>6. CASE OnSentGone
  <2>1. UNCHANGED <<keepAlive, timer, open, queued, lost>> /\ ~open
    BY <1>6 DEF OnSentGone
  <2>2. out' = out
    BY <1>2, <2>1 DEF out
  <2>3. Basics'
    BY <1>2, <2>1 DEF Basics
  <2>4. Sequenced' /\ Apart' /\ InTurn'
    BY <1>2, <2>1, <2>2 DEF Sequenced, Apart, InTurn
  <2>5. OneAtATime'
    BY <1>2, <1>3, <2>1 DEF OneAtATime
  <2> QED BY <2>3, <2>4, <2>5
<1> QED BY <1>4, <1>5, <1>6 DEF OnSent

(* keepAliveTimerCb and the end of the peer close the connection.           *)
LEMMA EndInv ==
  ASSUME Strict, TimerCb \/ RecvEnd
  PROVE  Strict'
<1> USE DEF Strict
<1>1. /\ open /\ Close /\ timer' = FALSE
      /\ UNCHANGED <<wants, handled, kept, due, wire, called, late, overlapped>>
      /\ \/ timer /\ UNCHANGED <<keepAlive, gone>>
         \/ keepAlive' = FALSE /\ gone' = TRUE
  BY DEF TimerCb, RecvEnd
<1>2. /\ out' = wire /\ queued' = <<>> /\ ToSet(out') = ToSet(wire)
      /\ IsInjective(out')
      /\ kept' \cap ToSet(out') = {} /\ kept' \cap lost' = {} /\ lost' \cap ToSet(out') = {}
      /\ kept' \cup ToSet(out') \cup lost' = 1..handled'
      /\ InTurn'
      /\ ToSet(queued) = {} => lost' = lost
      /\ open' = FALSE
  BY <1>1, CloseFacts
<1>3. Basics'
  BY <1>1, <1>2 DEF Basics
<1>4. Sequenced' /\ Apart'
  BY <1>1, <1>2 DEF Sequenced, Apart
<1>5. ASSUME ~overlapped, ~gone' PROVE called = 1..handled /\ ToSet(queued) = {} /\ timer
  <2>1. timer /\ ~gone
    BY <1>1, <1>5 DEF Basics
  <2>2. called = 1..handled
    BY <1>5, <2>1 DEF OneAtATime
  <2>3. /\ ToSet(out) = ToSet(wire) \cup ToSet(queued)
        /\ ToSet(wire) \cap ToSet(queued) = {}
    BY OutFacts
  <2> QED BY <2>1, <2>2, <2>3 DEF Apart
<1>6. OneAtATime'
  BY <1>1, <1>2, <1>5 DEF OneAtATime, Basics
<1> QED BY <1>2, <1>3, <1>4, <1>6

(* Every step keeps the invariant.                                          *)
LEMMA NextInv == IInv /\ [Next]_vars => IInv'
<1> SUFFICES ASSUME IInv, [Next]_vars PROVE IInv'
  OBVIOUS
<1>1. CASE UNCHANGED vars
  BY <1>1 DEF vars, loop, outs, IInv, Loose, Within, Strict, Basics, Sequenced, Apart,
     InTurn, OneAtATime, out
<1>2. CASE Next
  <2>1. Loose'
    BY <1>2, LooseSteps DEF IInv
  <2>2. ASSUME again' = 0 PROVE again = 0 /\ ~\E i \in 1..N : SendAgain(i)
    <3>1. again \in Nat
      BY BoundsAssumption DEF IInv, Loose, Within
    <3>2. ASSUME NEW i \in 1..N, SendAgain(i) PROVE FALSE
      BY <2>2, <3>1, <3>2 DEF SendAgain
    <3>3. again' = again
      BY <1>2, <3>2 DEF Next, HandleRequest, Arrives, Respond, WriteDone, OnSent,
         OnSentKeep, OnSentClose, OnSentGone, Callback, TimerCb, RecvEnd
    <3> QED BY <2>2, <3>2, <3>3
  <2>3. ASSUME again' = 0 PROVE Strict'
    <3>1. Strict
      BY <2>2, <2>3 DEF IInv
    <3> QED BY <1>2, <2>2, <2>3, <3>1, HandleRequestInv, RespondInv, WriteDoneInv,
            OnSentInv, EndInv DEF Next
  <2> QED BY <2>1, <2>3 DEF IInv
<1> QED BY <1>1, <1>2

(* The parts of the invariant give the properties that the run checks.      *)
LEMMA InvImplies == IInv => OrderCauses /\ LostCauses
<1> SUFFICES ASSUME IInv PROVE OrderCauses /\ LostCauses
  OBVIOUS
<1>1. TypeOK
  <2>1. {keepAlive, timer, open, overlapped, gone} \subseteq BOOLEAN
    BY DEF IInv, Loose, Basics
  <2>2. kept \cup called \cup lost \cup late \subseteq 1..handled
    BY DEF IInv, Loose, Within, InTurn
  <2> QED BY <2>1, <2>2 DEF TypeOK, IInv, Loose, Basics, Within
<1>2. OrderCauses
  <2>1. \A a \in 1..Len(wire) : a \in 1..Len(out) /\ out[a] = wire[a]
    BY DEF IInv, Loose, Sequenced, out
  <2> QED BY <1>1, <2>1 DEF IInv, Loose, InTurn, OrderCauses
<1>3. LostCauses
  <2>1. again \in Nat
    BY BoundsAssumption DEF IInv, Loose, Within
  <2> QED BY <2>1 DEF IInv, Strict, OneAtATime, LostCauses
<1> QED BY <1>2, <1>3

-----------------------------------------------------------------------------
(* The invariant holds of every behaviour, whatever its fairness.           *)
THEOREM Invariant == Spec => []IInv
BY InitInv, NextInv, PTL DEF Spec

(* An answer overtakes that of an earlier request only if the earlier one   *)
(* was not answered at once, or answered again.                             *)
THEOREM Order == Spec => []OrderCauses
<1>1. IInv => OrderCauses
  BY InvImplies
<1> QED BY <1>1, Invariant, PTL

(* An answer is lost only when the peer has left, a response is sent again  *)
(* or requests overlap.                                                     *)
THEOREM Loss == Spec => []LostCauses
<1>1. IInv => LostCauses
  BY InvImplies
<1> QED BY <1>1, Invariant, PTL

-----------------------------------------------------------------------------
(* While each response is sent once, each request is kept, queued, written  *)
(* or lost.                                                                 *)
LEMMA Count ==
  ASSUME Strict
  PROVE  /\ kept \cup ToSet(queued) \cup ToSet(wire) \cup lost = 1..handled
         /\ Cardinality(kept) + Len(queued) + Len(wire) + Cardinality(lost) = handled
<1>1. /\ ToSet(out) = ToSet(wire) \cup ToSet(queued)
      /\ IsInjective(out) /\ IsInjective(wire) /\ IsInjective(queued)
      /\ ToSet(wire) \cap ToSet(queued) = {}
      /\ called \subseteq 1..handled /\ handled \in Nat
  BY OutFacts DEF Strict, Apart
<1>3. kept \cup ToSet(queued) \cup ToSet(wire) \cup lost = 1..handled
  BY <1>1 DEF Strict, Apart
<1>4. Cardinality(kept) + Len(queued) + Len(wire) + Cardinality(lost) = handled
  <2> DEFINE O == ToSet(out)
  <2>1. IsFiniteSet(1..handled) /\ Cardinality(1..handled) = handled
    BY <1>1, FS_Interval
  <2>2. /\ IsFiniteSet(O) /\ Cardinality(O) = Len(out)
        /\ Len(out) = Len(wire) + Len(queued) /\ Len(wire) \in Nat /\ Len(queued) \in Nat
    <3>1. IsFiniteSet(O) /\ Cardinality(O) = Len(out)
      BY <1>1, InjectiveLen DEF Strict, Sequenced
    <3> QED BY <3>1 DEF Strict, Sequenced, out
  <2>3. IsFiniteSet(kept) /\ IsFiniteSet(lost)
    BY <2>1, <1>3, FS_Subset
  <2> HIDE DEF O
  <2>4. kept \cap O = {} /\ (kept \cup O) \cap lost = {} /\ (kept \cup O) \cup lost = 1..handled
    BY DEF O, Strict, Apart
  <2>5. /\ IsFiniteSet(kept \cup O)
        /\ Cardinality(kept \cup O) = Cardinality(kept) + Cardinality(O) - Cardinality(kept \cap O)
    BY <2>2, <2>3, FS_Union
  <2>6. Cardinality((kept \cup O) \cup lost)
          = Cardinality(kept \cup O) + Cardinality(lost) - Cardinality((kept \cup O) \cap lost)
    BY <2>3, <2>5, FS_Union
  <2>7. /\ Cardinality({}) = 0 /\ Cardinality(kept) \in Nat /\ Cardinality(lost) \in Nat
        /\ Cardinality(kept \cup O) \in Nat
    BY <2>3, <2>5, FS_EmptySet, FS_CardinalityType
  <2>8. Cardinality(kept \cap O) = 0 /\ Cardinality((kept \cup O) \cap lost) = 0
    BY <2>4, <2>7, Zenon
  <2>9. Cardinality((kept \cup O) \cup lost) = handled
    BY <2>1, <2>4, Zenon
  <2> QED BY <2>2, <2>5, <2>6, <2>7, <2>8, <2>9
<1> QED BY <1>3, <1>4

(* When all callbacks have been called, all answers are out; when one is    *)
(* kept or queued, not all are.                                             *)
LEMMA OutLen ==
  ASSUME Strict
  PROVE  /\ Len(wire) \in Nat /\ handled \in Nat
         /\ 1..handled \subseteq ToSet(wire) => Len(wire) = handled
         /\ kept # {} \/ queued # <<>> => Len(wire) < handled
<1>1. /\ kept \cup ToSet(queued) \cup ToSet(wire) \cup lost = 1..handled
      /\ Cardinality(kept) + Len(queued) + Len(wire) + Cardinality(lost) = handled
  BY Count
<1>2. /\ handled \in Nat /\ IsInjective(wire) /\ IsFiniteSet(1..handled)
      /\ Cardinality(1..handled) = handled
  BY OutFacts, FS_Interval
<1>3. Cardinality(ToSet(wire)) = Len(wire)
  BY <1>2, InjectiveLen DEF Strict, Sequenced
<1>4. IsFiniteSet(kept) /\ IsFiniteSet(lost)
  BY <1>1, <1>2, FS_Subset
<1>5. /\ Cardinality(kept) \in Nat /\ Cardinality(lost) \in Nat
      /\ kept # {} => Cardinality(kept) # 0
  BY <1>4, FS_CardinalityType, FS_EmptySet
<1>6. Len(wire) \in Nat /\ Len(queued) \in Nat /\ (queued # <<>> => Len(queued) # 0)
  BY DEF Strict, Sequenced
<1>7. ASSUME 1..handled \subseteq ToSet(wire) PROVE Len(wire) = handled
  <2>1. ToSet(wire) = 1..handled
    BY <1>1, <1>7
  <2> QED BY <2>1, <1>2, <1>3
<1>8. kept # {} \/ queued # <<>> => Len(wire) < handled
  BY <1>1, <1>2, <1>5, <1>6
<1> QED BY <1>2, <1>6, <1>7, <1>8

(* A step of the connection is one of the exchange with a client that       *)
(* waits, or a stutter.                                                     *)
LEMMA StepImplements == IInv /\ [Next]_vars => [Promise!Next]_(Promise!vars)
<1> SUFFICES ASSUME IInv, [Next]_vars PROVE [Promise!Next]_(Promise!vars)
  OBVIOUS
<1>1. CASE UNCHANGED vars
  BY <1>1 DEF vars, loop, outs, Promise!vars
<1>2. CASE Next /\ ~(~overlapped' /\ ~gone' /\ again' = 0)
  BY <1>2 DEF Promise!Next
<1>3. CASE Next /\ ~overlapped' /\ ~gone' /\ again' = 0
  <2>a. again = 0 /\ again' = again /\ ~\E i \in 1..N : SendAgain(i)
    <3>1. again \in Nat
      BY BoundsAssumption DEF IInv, Loose, Within
    <3>2. ASSUME NEW i \in 1..N, SendAgain(i) PROVE FALSE
      BY <1>3, <3>1, <3>2 DEF SendAgain
    <3>3. again' = again
      BY <1>3, <3>2 DEF Next, HandleRequest, Arrives, Respond, WriteDone, OnSent,
         OnSentKeep, OnSentClose, OnSentGone, Callback, TimerCb, RecvEnd
    <3> QED BY <1>3, <3>2, <3>3
  <2>b. Strict
    BY <2>a DEF IInv
  <2>1. ~overlapped /\ ~gone
    BY <1>3, <2>a, <2>b DEF Next, HandleRequest, Arrives, Respond, WriteDone, OnSent,
       OnSentKeep, OnSentClose, OnSentGone, Callback, TimerCb, RecvEnd, Strict, Basics
  <2> DEFINE Same == UNCHANGED <<wants, handled, open, overlapped, gone>> /\ Len(wire') = Len(wire)
  <2>2. /\ Len(wire) \in Nat /\ handled \in Nat
        /\ 1..handled \subseteq ToSet(wire) => Len(wire) = handled
        /\ kept # {} \/ queued # <<>> => Len(wire) < handled
        /\ called \subseteq ToSet(wire)
    BY <2>b, OutLen DEF Strict, Apart
  <2>3. Promise!Ask \/ Promise!Answer \/ Promise!Close => [Promise!Next]_(Promise!vars)
    BY <1>3, <2>1, <2>a DEF Promise!Next
  <2>4. Same => [Promise!Next]_(Promise!vars)
    BY <1>3, <2>1, <2>a DEF Promise!vars
  <2>5. ASSUME NEW i \in Nat, Write(i)
        PROVE  Len(wire') \in {Len(wire), Len(wire) + 1}
    <3>1. wire' = wire \/ wire' = Append(wire, i)
      BY <2>5 DEF Write
    <3> QED BY <2>b, <3>1 DEF Strict, Sequenced
  <2>6. ASSUME NEW i \in 1..N, HandleRequest(i) PROVE Promise!Ask
    <3>1. /\ open /\ i = handled + 1 /\ handled' = i /\ i \in Nat
          /\ UNCHANGED <<wants, open, called>>
      BY <2>6 DEF HandleRequest, Arrives
    <3>2. called = 1..handled
      <4>1. IsFiniteSet(called) /\ (Cardinality(called) >= handled => called = 1..handled)
        BY <2>b, OutFacts
      <4>2. ~(Cardinality(called) < handled)
        BY <1>3, <2>6 DEF HandleRequest, Arrives
      <4>3. Cardinality(called) \in Nat
        BY <4>1, FS_CardinalityType
      <4> QED BY <2>2, <4>1, <4>2, <4>3
    <3>3. Len(wire) = handled
      BY <2>2, <3>2
    <3>4. handled = 0 \/ wants[handled]
      <4>1. handled # 0 => handled \in called /\ handled > 0
        BY <2>2, <3>2
      <4> QED BY <2>b, <4>1, <3>1, <2>1 DEF Strict, OneAtATime
    <3>5. Len(wire') \in {Len(wire), Len(wire) + 1}
      BY <2>2, <2>5, <2>6, <3>1 DEF HandleRequest, Arrives
    <3>6. handled < N
      BY <2>2, <3>1, BoundsAssumption
    <3> QED BY <3>1, <3>3, <3>4, <3>5, <3>6 DEF Promise!Ask
  <2>7. ASSUME NEW i \in 1..N, Respond(i) PROVE Promise!Answer \/ Same
    <3>1. /\ i \in kept /\ i \in Nat
          /\ UNCHANGED <<wants, handled, open, overlapped, gone>>
      BY <2>7 DEF Respond, Send, loop
    <3>2. open
      <4>1. i \in 1..handled /\ i \notin called
        BY <2>b, <3>1, OutFacts DEF Strict, Apart
      <4> QED BY <2>b, <4>1, <2>1 DEF Strict, OneAtATime, Basics
    <3>3. Len(wire') \in {Len(wire), Len(wire) + 1}
      BY <2>5, <2>7, <3>1, <3>2 DEF Respond, Send
    <3> QED BY <3>1, <3>2, <3>3, <2>2 DEF Promise!Answer
  <2>8. ASSUME WriteDone PROVE Promise!Answer
    <3>1. /\ open /\ queued # <<>> /\ wire' = Append(wire, Head(queued))
          /\ UNCHANGED <<wants, handled, open>>
      BY <2>8 DEF WriteDone, loop
    <3>2. Len(wire') = Len(wire) + 1
      BY <2>b, <3>1, TailSet DEF Strict, Sequenced
    <3> QED BY <3>1, <3>2, <2>2 DEF Promise!Answer
  <2>9. ASSUME OnSentKeep \/ OnSentGone PROVE Same
    BY <2>9 DEF OnSentKeep, OnSentGone, Callback
  <2>10. ASSUME OnSentClose PROVE Promise!Close
    <3>1. /\ open /\ open' = FALSE /\ Callback
          /\ UNCHANGED <<wants, handled, wire>>
      BY <2>10 DEF OnSentClose, Callback, Close
    <3>2. called' = 1..handled /\ handled > 0 /\ called' \subseteq ToSet(wire')
      BY <2>1, <2>b, <3>1, CallbackFacts
    <3>3. Len(wire) = handled
      BY <2>2, <3>1, <3>2
    <3> QED BY <3>1, <3>2, <3>3 DEF Promise!Close
  <2>11. ASSUME TimerCb PROVE Promise!Close
    <3>1. open /\ timer /\ open' = FALSE /\ UNCHANGED <<wants, handled, wire>>
      BY <2>11 DEF TimerCb, Close
    <3>2. called = 1..handled /\ handled > 0
      BY <2>b, <2>1, <3>1 DEF Strict, OneAtATime
    <3>3. Len(wire) = handled
      BY <2>2, <3>2
    <3> QED BY <3>1, <3>2, <3>3 DEF Promise!Close
  <2>12. ~RecvEnd
    BY <1>3 DEF RecvEnd
  <2> HIDE DEF Same
  <2> QED BY <1>3, <2>3, <2>4, <2>6, <2>7, <2>8, <2>9, <2>10, <2>11, <2>12, <2>a DEF Next, OnSent
<1> QED BY <1>1, <1>2, <1>3

(* A client that waits is served as Exchange says, as far as safety goes:   *)
(* request after request, each answered before the next, and the connection *)
(* closed between two exchanges only.                                       *)
THEOREM SafeExchange == Spec => Promise!Init /\ [][Promise!Next]_(Promise!vars)
<1>1. Init => Promise!Init
  BY DEF Init, Promise!Init
<1> QED BY <1>1, Invariant, StepImplements, PTL DEF Spec

-----------------------------------------------------------------------------
(* What a step may do to what the client receives: nothing, or put one      *)
(* answer behind what was written, while the connection is open, to a       *)
(* request that was read and, while no response was sent again, neither     *)
(* answered before nor given up; what was written stays, what is lost stays *)
(* lost, and a closed connection is not opened again.  uv_write, onSent and *)
(* the timer each act on the handle without a look at the other answers.    *)
WritesOnce ==
  /\ \/ wire' = wire
     \/ \E i \in 1..handled' :
          /\ wire' = Append(wire, i)
          /\ open
          /\ again' = 0 => i \notin ToSet(wire) \cup lost \cup called
  /\ lost \subseteq lost'
  /\ open' => open

(* Every step of a connection writes one new answer or none.                *)
THEOREM EachAnswerOnce == Spec => [][WritesOnce]_vars
<1>1. IInv /\ [Next]_vars => [WritesOnce]_vars
  <2> SUFFICES ASSUME IInv, Next PROVE WritesOnce
    OBVIOUS
  <2>1. /\ handled \in Nat /\ again \in Nat /\ kept \subseteq 1..handled
        /\ ToSet(queued) \subseteq 1..handled
        /\ lost \subseteq 1..handled /\ called \subseteq 1..handled
        /\ ToSet(wire) \subseteq 1..handled
        /\ wire \in Seq(Nat) /\ queued \in Seq(Nat)
    BY BoundsAssumption DEF IInv, Loose, Basics, Within, InTurn, Sequenced
  <2>2. ASSUME again = 0
        PROVE  /\ \A i \in kept : i \notin ToSet(wire) \cup lost \cup called
               /\ \A i \in ToSet(queued) : i \notin ToSet(wire) \cup lost \cup called
    <3>1. Strict
      BY <2>2 DEF IInv
    <3>2. /\ ToSet(out) = ToSet(wire) \cup ToSet(queued)
          /\ ToSet(wire) \cap ToSet(queued) = {}
      BY <3>1, OutFacts
    <3> QED BY <3>1, <3>2 DEF Strict, Apart
  <2>3. ASSUME NEW i \in 1..N, HandleRequest(i)
        PROVE  WritesOnce
    <3>1. open /\ i = handled + 1 /\ handled' = i /\ open' = open
      BY <2>3 DEF HandleRequest, Arrives
    <3>2. i \notin ToSet(wire) \cup lost \cup called /\ i \in 1..handled'
      BY <2>1, <3>1
    <3>3. (wire' = wire \/ wire' = Append(wire, i)) /\ lost' = lost
      BY <2>3 DEF HandleRequest, Arrives, Write
    <3> QED BY <3>1, <3>2, <3>3 DEF WritesOnce
  <2>4. ASSUME NEW i \in 1..N, Respond(i) \/ SendAgain(i)
        PROVE  WritesOnce
    <3>1. i \in 1..handled /\ open' = open /\ handled' = handled
      BY <2>1, <2>4 DEF Respond, SendAgain, loop
    <3>2. again' = 0 => i \notin ToSet(wire) \cup lost \cup called
      BY <2>1, <2>2, <2>4 DEF Respond, SendAgain
    <3>3. (wire' = wire \/ (open /\ wire' = Append(wire, i))) /\ lost \subseteq lost'
      BY <2>4 DEF Respond, SendAgain, Send, Write
    <3> QED BY <3>1, <3>2, <3>3 DEF WritesOnce
  <2>5. CASE WriteDone
    <3>1. /\ open /\ open' = open /\ lost' = lost /\ handled' = handled /\ again' = again
          /\ queued # <<>> /\ wire' = Append(wire, Head(queued))
      BY <2>5 DEF WriteDone, loop
    <3>2. ToSet(queued) = {Head(queued)} \cup ToSet(Tail(queued))
      BY <2>1, <3>1, TailSet, Zenon
    <3>3. Head(queued) \in 1..handled
      BY <2>1, <3>2
    <3>4. again = 0 => Head(queued) \notin ToSet(wire) \cup lost \cup called
      BY <2>2, <3>2
    <3> QED BY <3>1, <3>3, <3>4 DEF WritesOnce
  <2>6. CASE OnSent \/ TimerCb \/ RecvEnd
    <3>1. wire' = wire /\ lost \subseteq lost' /\ (open' => open)
      BY <2>6 DEF OnSent, OnSentKeep, OnSentClose, OnSentGone, TimerCb, RecvEnd,
                  Callback, Close
    <3> QED BY <3>1 DEF WritesOnce
  <2> QED BY <2>3, <2>4, <2>5, <2>6 DEF Next
<1> QED BY <1>1, Invariant, PTL DEF Spec
=============================================================================
