---------------------------- MODULE ServerProofs ----------------------------
(***************************************************************************)
(* The lists of sessions are exact, a connection is read into a buffer of  *)
(* its owner, and the lists implement Registry, for every set of           *)
(* connections and every depth of closes inside closes.                    *)
(***************************************************************************)
EXTENDS Server, SequenceTheorems, TLAPS

(* A step of the sequence s, and one that is there at most once.            *)
Has(s, x) == \E i \in 1..Len(s) : s[i] = x

Once(s, x) == \A i, j \in 1..Len(s) : s[i] = x /\ s[j] = x => i = j

(* What the running callback has still to do fits the places of the         *)
(* connections: a close that is asked for is the next thing done, a         *)
(* connection joins once and is removed once.                               *)
StackInv ==
  \A c \in Conns :
    /\ Has(todo, <<"interClose", c>>) => place[c] = "ws"
    /\ todo # <<>> => ~Has(Tail(todo), <<"interClose", c>>)
    /\ Has(todo, <<"connect", c>>) => place[c] = "joining"
    /\ Once(todo, <<"connect", c>>)
    /\ Has(todo, <<"removeWsSession", c>>) => place[c] = "closing"
    /\ Once(todo, <<"removeWsSession", c>>)

(* The receive buffer goes with the session.                                *)
BufferInv ==
  \A c \in Conns :
    /\ place[c] = "http" => buffer[c] = "http" /\ data[c] = "http"
    /\ place[c] \in {"joining", "ws"} => buffer[c] = "ws"

IInv == ListsExact /\ ReadsOwn /\ StackInv /\ BufferInv

-----------------------------------------------------------------------------
(* Swap-and-pop on a list without repetitions: what is left is the list     *)
(* without that session, and still without repetitions.                     *)
LEMMA RemovedFacts ==
  ASSUME NEW S, NEW list \in Seq(S), Distinct(list), NEW c
  PROVE  /\ Removed(list, c) \in Seq(S)
         /\ Distinct(Removed(list, c))
         /\ Members(Removed(list, c)) = Members(list) \ {c}
<1>1. CASE c \notin Members(list)
  BY <1>1 DEF Removed
<1>2. CASE c \in Members(list)
  <2> DEFINE First(k) == list[k] = c /\ \A j \in 1..(k - 1) : list[j] # c
             i == CHOOSE k \in 1..Len(list) : First(k)
             n == Len(list)
             r == [j \in 1..(n - 1) |-> IF j = i THEN list[n] ELSE list[j]]
  <2>1. \E k \in 1..Len(list) : First(k)
    <3>1. PICK k \in 1..Len(list) : list[k] = c
      BY <1>2 DEF Members
    <3>2. \A j \in 1..(k - 1) : list[j] # c
      BY <3>1 DEF Distinct
    <3> QED BY <3>1, <3>2
  <2>2. i \in 1..n /\ list[i] = c
    BY <2>1
  <2>3. Removed(list, c) = r
    BY <1>2 DEF Removed
  <2>4. n \in Nat /\ n - 1 \in Nat /\ \A j \in 1..n : list[j] \in S
    BY <2>2
  <2> HIDE DEF i
  <2>5. r \in Seq(S) /\ Len(r) = n - 1
    BY <2>2, <2>4
  <2>6. \A j \in 1..(n - 1) : r[j] = IF j = i THEN list[n] ELSE list[j]
    OBVIOUS
  <2> HIDE DEF r, n
  <2>7. Distinct(r)
    <3> SUFFICES ASSUME NEW j \in 1..(n - 1), NEW k \in 1..(n - 1), r[j] = r[k]
                 PROVE  j = k
      BY <2>5 DEF Distinct
    <3>1. \A p, q \in 1..n : list[p] = list[q] => p = q
      BY DEF Distinct, n
    <3> QED BY <2>2, <2>4, <2>6, <3>1
  <2>8. Members(r) = Members(list) \ {c}
    <3>1. \A p, q \in 1..n : list[p] = list[q] => p = q
      BY DEF Distinct, n
    <3>2. ASSUME NEW x \in Members(r) PROVE x \in Members(list) \ {c}
      <4>1. PICK j \in 1..(n - 1) : x = r[j]
        BY <3>2, <2>5 DEF Members
      <4>2. PICK k \in 1..n : x = list[k] /\ k # i
        BY <4>1, <2>2, <2>4, <2>6
      <4> QED BY <4>2, <3>1, <2>2 DEF Members, n
    <3>3. ASSUME NEW x \in Members(list) \ {c} PROVE x \in Members(r)
      <4>1. PICK k \in 1..n : x = list[k] /\ k # i
        BY <3>3, <2>2 DEF Members, n
      <4>2. CASE k = n
        <5>1. i \in 1..(n - 1) /\ r[i] = x
          BY <4>1, <4>2, <2>2, <2>4, <2>6
        <5> QED BY <5>1, <2>5 DEF Members
      <4>3. CASE k # n
        <5>1. k \in 1..(n - 1) /\ r[k] = x
          BY <4>1, <4>3, <2>4, <2>6
        <5> QED BY <5>1, <2>5 DEF Members
      <4> QED BY <4>2, <4>3
    <3> QED BY <3>2, <3>3
  <2> QED BY <2>3, <2>5, <2>7, <2>8
<1> QED BY <1>1, <1>2

(* push_back of a session that is not in the list.                          *)
LEMMA AppendFacts ==
  ASSUME NEW S, NEW list \in Seq(S), Distinct(list),
         NEW c \in S, c \notin Members(list)
  PROVE  /\ Append(list, c) \in Seq(S)
         /\ Distinct(Append(list, c))
         /\ Members(Append(list, c)) = Members(list) \cup {c}
<1> DEFINE n == Len(list)
           r == Append(list, c)
<1>1. /\ n \in Nat /\ r \in Seq(S) /\ Len(r) = n + 1
      /\ \A j \in 1..n : r[j] = list[j] /\ r[j] # c
      /\ r[n + 1] = c
  BY DEF Members
<1> HIDE DEF r
<1>2. Distinct(r)
  <2> SUFFICES ASSUME NEW j \in 1..(n + 1), NEW k \in 1..(n + 1), r[j] = r[k]
               PROVE  j = k
    BY <1>1 DEF Distinct
  <2> QED BY <1>1 DEF Distinct
<1>3. Members(r) = Members(list) \cup {c}
  <2>1. ASSUME NEW x \in Members(r) PROVE x \in Members(list) \cup {c}
    BY <2>1, <1>1 DEF Members
  <2>2. ASSUME NEW x \in Members(list) \cup {c} PROVE x \in Members(r)
    <3>1. n + 1 \in 1..(n + 1) /\ \A j \in 1..n : j \in 1..(n + 1)
      BY <1>1
    <3> QED BY <2>2, <1>1, <3>1 DEF Members
  <2> QED BY <2>1, <2>2
<1> QED BY <1>1, <1>2, <1>3 DEF r

(* Nothing is to do.                                                        *)
LEMMA EmptyStack ==
  ASSUME NEW x
  PROVE  ~Has(<<>>, x) /\ Once(<<>>, x)
BY DEF Has, Once

(* It calls one more.                                                       *)
LEMMA Push ==
  ASSUME NEW T, NEW s \in Seq(T), NEW a \in T
  PROVE  /\ <<a>> \o s \in Seq(T) /\ <<a>> \o s # <<>>
         /\ Head(<<a>> \o s) = a /\ Tail(<<a>> \o s) = s
         /\ \A x : Has(<<a>> \o s, x) <=> (a = x \/ Has(s, x))
         /\ \A x : Once(<<a>> \o s, x) <=> (Once(s, x) /\ (a = x => ~Has(s, x)))
<1> DEFINE r == <<a>> \o s
<1>1. /\ r \in Seq(T) /\ Len(s) \in Nat /\ Len(r) = Len(s) + 1 /\ r[1] = a
      /\ \A i \in 1..Len(s) : i + 1 \in 1..Len(r) /\ r[i + 1] = s[i]
      /\ \A i \in 1..Len(r) : i = 1 \/ (i - 1 \in 1..Len(s) /\ r[i] = s[i - 1])
  OBVIOUS
<1>2. r # <<>> /\ Head(r) = a /\ Tail(r) = s
  OBVIOUS
<1> HIDE DEF r
<1>3. ASSUME NEW x PROVE Has(r, x) <=> (a = x \/ Has(s, x))
  BY <1>1 DEF Has
<1>4. ASSUME NEW x PROVE Once(r, x) <=> (Once(s, x) /\ (a = x => ~Has(s, x)))
  <2>1. ASSUME Once(r, x) PROVE Once(s, x) /\ (a = x => ~Has(s, x))
    <3>1. Once(s, x)
      <4> SUFFICES ASSUME NEW i \in 1..Len(s), NEW j \in 1..Len(s), s[i] = x, s[j] = x
                   PROVE  i = j
        BY DEF Once
      <4>1. /\ i + 1 \in 1..Len(r) /\ r[i + 1] = x
            /\ j + 1 \in 1..Len(r) /\ r[j + 1] = x
        BY <1>1
      <4>2. i + 1 = j + 1
        BY <2>1, <4>1 DEF Once
      <4> QED BY <4>2
    <3>2. ASSUME a = x, NEW i \in 1..Len(s), s[i] = x PROVE FALSE
      <4>1. 1 \in 1..Len(r) /\ r[1] = x /\ i + 1 \in 1..Len(r) /\ r[i + 1] = x
        BY <3>2, <1>1
      <4> QED BY <4>1, <2>1 DEF Once
    <3> QED BY <3>1, <3>2 DEF Has
  <2>2. ASSUME Once(s, x), a = x => ~Has(s, x) PROVE Once(r, x)
    <3> SUFFICES ASSUME NEW i \in 1..Len(r), NEW j \in 1..Len(r), r[i] = x, r[j] = x
                 PROVE  i = j
      BY DEF Once
    <3>1. CASE i = 1 \/ j = 1
      BY <3>1, <1>1, <2>2 DEF Has
    <3>2. CASE i # 1 /\ j # 1
      <4>1. /\ i - 1 \in 1..Len(s) /\ s[i - 1] = x
            /\ j - 1 \in 1..Len(s) /\ s[j - 1] = x
        BY <3>2, <1>1
      <4>2. i - 1 = j - 1
        BY <2>2, <4>1 DEF Once
      <4> QED BY <4>2
    <3> QED BY <3>1, <3>2
  <2> QED BY <2>1, <2>2
<1> QED BY <1>1, <1>2, <1>3, <1>4 DEF r

(* The innermost thing is done.                                             *)
LEMMA Pop ==
  ASSUME NEW T, NEW s \in Seq(T), s # <<>>
  PROVE  /\ Tail(s) \in Seq(T) /\ Head(s) \in T
         /\ \A x : Has(s, x) <=> (Head(s) = x \/ Has(Tail(s), x))
         /\ \A x : Once(s, x) <=> (Once(Tail(s), x) /\ (Head(s) = x => ~Has(Tail(s), x)))
<1>1. Tail(s) \in Seq(T) /\ Head(s) \in T /\ s = <<Head(s)>> \o Tail(s)
  OBVIOUS
<1> DEFINE t == Tail(s)
           h == Head(s)
<1>2. /\ \A x : Has(<<h>> \o t, x) <=> (h = x \/ Has(t, x))
      /\ \A x : Once(<<h>> \o t, x) <=> (Once(t, x) /\ (h = x => ~Has(t, x)))
  <2>1. t \in Seq(T) /\ h \in T
    BY <1>1
  <2> HIDE DEF t, h
  <2> QED BY <2>1, Push
<1> QED BY <1>1, <1>2

(* It calls two more.                                                       *)
Calls(a, b, s) == <<a, b>> \o s

LEMMA PushTwo ==
  ASSUME NEW T, NEW s \in Seq(T), NEW a \in T, NEW b \in T
  PROVE  /\ Calls(a, b, s) \in Seq(T) /\ Calls(a, b, s) # <<>>
         /\ \A x : Has(Calls(a, b, s), x) <=> (a = x \/ b = x \/ Has(s, x))
         /\ \A x : Has(Tail(Calls(a, b, s)), x) <=> (b = x \/ Has(s, x))
         /\ \A x : Once(Calls(a, b, s), x) <=>
               (Once(s, x) /\ (b = x => ~Has(s, x)) /\ (a = x => b # x /\ ~Has(s, x)))
<1>1. <<a, b>> \o s = <<a>> \o (<<b>> \o s)
  <2> DEFINE l == <<a, b>> \o s
             m == <<b>> \o s
             r == <<a>> \o m
  <2>1. /\ l \in Seq(T) /\ Len(l) = Len(s) + 2 /\ l[1] = a /\ l[2] = b
        /\ \A i \in 1..Len(l) : i > 2 => l[i] = s[i - 2]
    OBVIOUS
  <2>2. /\ m \in Seq(T) /\ Len(m) = Len(s) + 1 /\ m[1] = b
        /\ \A i \in 1..Len(m) : i > 1 => m[i] = s[i - 1]
    OBVIOUS
  <2> HIDE DEF m
  <2>3. /\ r \in Seq(T) /\ Len(r) = Len(m) + 1 /\ r[1] = a
        /\ \A i \in 1..Len(r) : i > 1 => r[i] = m[i - 1]
    BY <2>2
  <2> HIDE DEF l, r
  <2>4. Len(s) \in Nat /\ Len(l) = Len(r) /\ \A i \in 1..Len(l) : l[i] = r[i]
    <3>1. Len(s) \in Nat /\ Len(l) = Len(s) + 2 /\ Len(r) = Len(s) + 2
      BY <2>1, <2>2, <2>3
    <3>2. ASSUME NEW i \in 1..Len(l) PROVE l[i] = r[i]
      <4>1. CASE i = 1
        BY <4>1, <2>1, <2>3
      <4>2. CASE i # 1
        <5>1. i - 1 \in 1..Len(m) /\ r[i] = m[i - 1]
          BY <4>2, <3>1, <2>2, <2>3
        <5>2. CASE i = 2
          BY <5>1, <5>2, <2>1, <2>2
        <5>3. CASE i # 2
          <6>1. m[i - 1] = s[(i - 1) - 1] /\ l[i] = s[i - 2] /\ (i - 1) - 1 = i - 2
            BY <4>2, <5>1, <5>3, <2>1, <2>2, <3>1
          <6> QED BY <5>1, <6>1
        <5> QED BY <5>2, <5>3
      <4> QED BY <4>1, <4>2
    <3> QED BY <3>1, <3>2
  <2>5. l = r
    BY <2>1, <2>3, <2>4, SeqEqual
  <2> QED BY <2>5 DEF l, r, m
<1> DEFINE r == <<b>> \o s
<1>2. /\ r \in Seq(T)
      /\ \A x : Has(r, x) <=> (b = x \/ Has(s, x))
      /\ \A x : Once(r, x) <=> (Once(s, x) /\ (b = x => ~Has(s, x)))
  BY Push
<1> HIDE DEF r
<1>3. /\ <<a>> \o r \in Seq(T) /\ <<a>> \o r # <<>> /\ Tail(<<a>> \o r) = r
      /\ \A x : Has(<<a>> \o r, x) <=> (a = x \/ Has(r, x))
      /\ \A x : Once(<<a>> \o r, x) <=> (Once(r, x) /\ (a = x => ~Has(r, x)))
  BY <1>2, Push
<1> QED BY <1>1, <1>2, <1>3 DEF r, Calls

(* What a callback has to do, of what it is doing.                          *)
StepSet == Steps \X Conns

LEMMA IsStep ==
  ASSUME NEW st \in Steps, NEW c \in Conns
  PROVE  <<st, c>> \in StepSet
BY DEF StepSet

LEMMA TopFacts ==
  ASSUME TypeOK, NEW st, NEW c, Doing(st, c)
  PROVE  /\ Tail(todo) \in Seq(StepSet)
         /\ todo \in Seq(StepSet) /\ todo # <<>>
         /\ \A x : Has(todo, x) <=> (<<st, c>> = x \/ Has(Tail(todo), x))
         /\ \A x : Once(todo, x) <=>
               (Once(Tail(todo), x) /\ (<<st, c>> = x => ~Has(Tail(todo), x)))
<1>1. todo \in Seq(StepSet) /\ todo # <<>> /\ Head(todo) = <<st, c>>
  BY DEF TypeOK, StepSet, Doing
<1>2. /\ Tail(todo) \in Seq(StepSet)
      /\ \A x : Has(todo, x) <=> (Head(todo) = x \/ Has(Tail(todo), x))
      /\ \A x : Once(todo, x) <=>
            (Once(Tail(todo), x) /\ (Head(todo) = x => ~Has(Tail(todo), x)))
  BY <1>1, Pop, Zenon
<1> QED BY <1>1, <1>2

-----------------------------------------------------------------------------
(* The initial states satisfy the invariant.                                *)
LEMMA InitInv == Init => IInv
BY EmptyStack
   DEF Init, IInv, ListsExact, TypeOK, ReadsOwn, StackInv, BufferInv, Distinct, Members,
       Removing

(* A connection enters the list of the HttpServer at its end.               *)
LEMMA AcceptInv ==
  ASSUME IInv, NEW c \in Conns, Accept(c)
  PROVE  IInv'
<1> USE DEF IInv
<1>1. c \notin Members(sessions) /\ place[c] = "none" /\ todo = <<>> /\ todo' = <<>>
  BY DEF Accept, ListsExact, Idle
<1>2. /\ sessions' \in Seq(Conns) /\ Distinct(sessions')
      /\ Members(sessions') = Members(sessions) \cup {c}
  BY <1>1, AppendFacts DEF Accept, ListsExact, TypeOK
<1>3. TypeOK'
  BY <1>2 DEF Accept, ListsExact, TypeOK
<1>4. ListsExact'
  <2>1. \A d : ~Removing(d) /\ ~Removing(d)'
    BY <1>1, EmptyStack DEF Removing, Has
  <2> QED BY <1>1, <1>2, <1>3, <2>1 DEF Accept, ListsExact, TypeOK, Distinct, Members
<1>5. ReadsOwn' /\ BufferInv'
  BY DEF Accept, ListsExact, TypeOK, ReadsOwn, BufferInv
<1>6. StackInv'
  BY <1>1, EmptyStack DEF StackInv
<1> QED BY <1>4, <1>5, <1>6

(* closeSession takes the session out of the list, whatever its position.   *)
LEMMA CloseSessionInv ==
  ASSUME IInv, NEW c \in Conns, CloseSession(c)
  PROVE  IInv'
<1> USE DEF IInv
<1>1. place[c] = "http" /\ todo = <<>> /\ todo' = <<>>
  BY DEF CloseSession, Idle
<1>2. /\ sessions' \in Seq(Conns) /\ Distinct(sessions')
      /\ Members(sessions') = Members(sessions) \ {c}
  BY RemovedFacts DEF CloseSession, ListsExact, TypeOK
<1>3. TypeOK'
  BY <1>2 DEF CloseSession, ListsExact, TypeOK
<1>4. ListsExact'
  <2>1. \A d : ~Removing(d) /\ ~Removing(d)'
    BY <1>1, EmptyStack DEF Removing, Has
  <2>2. wsSessions' = wsSessions /\ place' = [place EXCEPT ![c] = "closing"]
    BY DEF CloseSession
  <2> QED BY <1>1, <1>2, <1>3, <2>1, <2>2 DEF ListsExact, TypeOK
<1>5. ReadsOwn' /\ BufferInv'
  BY DEF CloseSession, ListsExact, TypeOK, ReadsOwn, BufferInv
<1>6. StackInv'
  BY <1>1, EmptyStack DEF StackInv
<1> QED BY <1>4, <1>5, <1>6

(* upgradeSession moves the session from one list to the other, and the     *)
(* buffer with it, before the application is called.                        *)
LEMMA UpgradeSessionInv ==
  ASSUME IInv, NEW c \in Conns, UpgradeSession(c)
  PROVE  IInv'
<1> USE DEF IInv
<1>1. place[c] = "http" /\ todo = <<>> /\ \A d : ~Removing(d)
  BY DEF UpgradeSession, Idle, Removing
<1>2. /\ sessions' \in Seq(Conns) /\ Distinct(sessions')
      /\ Members(sessions') = Members(sessions) \ {c}
  BY RemovedFacts DEF UpgradeSession, ListsExact, TypeOK
<1>3. c \notin Members(wsSessions)
  BY <1>1 DEF ListsExact
<1>4. /\ wsSessions' \in Seq(Conns) /\ Distinct(wsSessions')
      /\ Members(wsSessions') = Members(wsSessions) \cup {c}
  <2>1. /\ wsSessions \in Seq(Conns) /\ Distinct(wsSessions)
        /\ wsSessions' = Append(wsSessions, c)
    BY DEF UpgradeSession, ListsExact, TypeOK
  <2> QED BY <1>3, <2>1, AppendFacts
<1>5. /\ todo' \in Seq(Steps \X Conns) /\ todo' # <<>>
      /\ \A x : Has(todo', x) <=> x \in {<<"callback", c>>, <<"connect", c>>}
      /\ \A x : Has(Tail(todo'), x) <=> x = <<"connect", c>>
      /\ \A x : Once(todo', x)
  <2> DEFINE a == <<"callback", c>>
             b == <<"connect", c>>
  <2>1. a \in Steps \X Conns /\ b \in Steps \X Conns /\ a # b
    BY DEF Steps
  <2>2. todo' = <<a, b>> \o <<>>
    BY DEF UpgradeSession
  <2> HIDE DEF a, b
  <2>3. \A x : ~Has(<<>>, x) /\ Once(<<>>, x)
    BY EmptyStack
  <2> DEFINE e == <<>>
  <2>4. e \in Seq(Steps \X Conns)
    OBVIOUS
  <2>5. todo' = Calls(a, b, e) /\ \A x : ~Has(e, x) /\ Once(e, x)
    BY <2>2, <2>3 DEF Calls
  <2> HIDE DEF e
  <2>6. /\ todo' \in Seq(Steps \X Conns) /\ todo' # <<>>
        /\ \A x : Has(todo', x) <=> (a = x \/ b = x \/ Has(e, x))
        /\ \A x : Has(Tail(todo'), x) <=> (b = x \/ Has(e, x))
        /\ \A x : Once(todo', x) <=>
              (Once(e, x) /\ (b = x => ~Has(e, x)) /\ (a = x => b # x /\ ~Has(e, x)))
    <3> DEFINE T == Steps \X Conns
    <3>1. a \in T /\ b \in T /\ e \in Seq(T)
      BY <2>1, <2>4
    <3> HIDE DEF T
    <3>2. LET q == Calls(a, b, e) IN
          /\ q \in Seq(T) /\ q # <<>>
          /\ \A x : Has(q, x) <=> (a = x \/ b = x \/ Has(e, x))
          /\ \A x : Has(Tail(q), x) <=> (b = x \/ Has(e, x))
          /\ \A x : Once(q, x) <=>
                (Once(e, x) /\ (b = x => ~Has(e, x)) /\ (a = x => b # x /\ ~Has(e, x)))
      BY <3>1, PushTwo, Zenon
    <3> QED BY <3>2, <2>5 DEF T
  <2>7. /\ \A x : Has(todo', x) <=> x \in {a, b}
        /\ \A x : Has(Tail(todo'), x) <=> x = b
        /\ \A x : Once(todo', x)
    BY <2>1, <2>5, <2>6
  <2> QED BY <2>6, <2>7 DEF a, b
<1>6. TypeOK'
  BY <1>2, <1>4, <1>5 DEF UpgradeSession, TransferBufferToWsSession, ListsExact, TypeOK
<1>7. ListsExact'
  <2>1. \A d : ~Removing(d)'
    <3>1. \A d : ~Has(todo', <<"removeWsSession", d>>)
      BY <1>5
    <3> QED BY <3>1 DEF Removing, Has
  <2>2. place' = [place EXCEPT ![c] = "joining"]
    BY DEF UpgradeSession
  <2> QED BY <1>1, <1>2, <1>4, <1>6, <2>1, <2>2 DEF ListsExact, TypeOK
<1>8. ReadsOwn' /\ BufferInv'
  BY DEF UpgradeSession, TransferBufferToWsSession, ListsExact, TypeOK, ReadsOwn, BufferInv
<1>9. StackInv'
  <2>1. place' = [place EXCEPT ![c] = "joining"]
    BY DEF UpgradeSession
  <2> QED BY <1>5, <2>1 DEF ListsExact, TypeOK, StackInv
<1> QED BY <1>7, <1>8, <1>9

(* connect() makes the WsSession the one that is read for.                  *)
LEMMA ConnectInv ==
  ASSUME IInv, NEW c \in Conns, Connect(c)
  PROVE  IInv'
<1> USE DEF IInv
<1> DEFINE t == Tail(todo)
           a == <<"callback", c>>
<1>1. /\ t \in Seq(StepSet)
      /\ \A x : Has(todo, x) <=> (<<"connect", c>> = x \/ Has(t, x))
      /\ \A x : Once(todo, x) <=> (Once(t, x) /\ (<<"connect", c>> = x => ~Has(t, x)))
  BY TopFacts DEF Connect, ListsExact
<1>2. a \in StepSet
  BY IsStep DEF Steps
<1>3. todo' = <<a>> \o t
  BY DEF Connect
<1> HIDE DEF a, t
<1>4. /\ <<a>> \o t \in Seq(StepSet) /\ <<a>> \o t # <<>> /\ Tail(<<a>> \o t) = t
      /\ \A x : Has(<<a>> \o t, x) <=> (a = x \/ Has(t, x))
      /\ \A x : Once(<<a>> \o t, x) <=> (Once(t, x) /\ (a = x => ~Has(t, x)))
  BY <1>1, <1>2, Push
<1>5. place[c] = "joining" /\ place' = [place EXCEPT ![c] = "ws"]
  BY <1>1 DEF Connect, StackInv
<1>6. \A d \in Conns :
        /\ ~Has(t, <<"interClose", d>>)
        /\ Has(t, <<"connect", d>>) => d # c
  BY <1>1 DEF Connect, Doing, StackInv, t
<1>7. TypeOK'
  BY <1>3, <1>4 DEF Connect, lists, ListsExact, TypeOK, StepSet
<1>8. ListsExact'
  <2>1. \A d : Has(todo, <<"removeWsSession", d>>) <=> Has(todo', <<"removeWsSession", d>>)
    BY <1>1, <1>3, <1>4 DEF a
  <2>2. \A d : Removing(d) <=> Removing(d)'
    BY <2>1 DEF Removing, Has
  <2>3. UNCHANGED lists
    BY DEF Connect
  <2> QED BY <1>5, <1>7, <2>2, <2>3 DEF lists, ListsExact, TypeOK
<1>9. ReadsOwn' /\ BufferInv'
  BY <1>5 DEF Connect, lists, ListsExact, TypeOK, ReadsOwn, BufferInv
<1>10. StackInv'
  BY <1>1, <1>3, <1>4, <1>5, <1>6 DEF ListsExact, TypeOK, StackInv, a
<1> QED BY <1>8, <1>9, <1>10

(* The loop closes a WsSession: nothing else is to do.                      *)
LEMMA WsEndsInv ==
  ASSUME IInv, NEW c \in Conns, WsEnds(c)
  PROVE  IInv'
<1> USE DEF IInv
<1> DEFINE a == <<"interClose", c>>
           e == <<>>
<1>1. a \in StepSet /\ e \in Seq(StepSet)
  BY IsStep DEF Steps
<1>2. todo = <<>> /\ place[c] = "ws" /\ todo' = <<a>> \o e /\ \A x : ~Has(e, x) /\ Once(e, x)
  BY EmptyStack DEF WsEnds, Idle
<1> HIDE DEF a, e
<1>3. /\ <<a>> \o e \in Seq(StepSet) /\ <<a>> \o e # <<>> /\ Tail(<<a>> \o e) = e
      /\ \A x : Has(<<a>> \o e, x) <=> (a = x \/ Has(e, x))
      /\ \A x : Once(<<a>> \o e, x) <=> (Once(e, x) /\ (a = x => ~Has(e, x)))
  BY <1>1, Push
<1>4. TypeOK'
  BY <1>2, <1>3 DEF WsEnds, lists, ListsExact, TypeOK, StepSet
<1>5. ListsExact'
  <2>1. \A d : ~Has(todo', <<"removeWsSession", d>>)
    BY <1>2, <1>3 DEF a
  <2>2. \A d : ~Removing(d) /\ ~Removing(d)'
    BY <1>2, <2>1 DEF Removing, Has
  <2>3. UNCHANGED <<lists, place>>
    BY DEF WsEnds
  <2> QED BY <1>4, <2>2, <2>3 DEF lists, ListsExact
<1>6. StackInv'
  BY <1>2, <1>3 DEF WsEnds, StackInv, a
<1> QED BY <1>5, <1>6 DEF WsEnds, ReadsOwn, BufferInv

(* A callback closes a session that is open: no other close is pending.     *)
LEMMA CloseInCallbackInv ==
  ASSUME IInv, NEW c \in Conns, NEW d \in Conns, CloseInCallback(c, d)
  PROVE  IInv'
<1> USE DEF IInv
<1> DEFINE t == Tail(todo)
           a == <<"interClose", d>>
<1>1. /\ todo \in Seq(StepSet) /\ todo # <<>>
      /\ \A x : Has(todo, x) <=> (<<"callback", c>> = x \/ Has(t, x))
  BY TopFacts DEF CloseInCallback, ListsExact
<1>2. a \in StepSet
  BY IsStep DEF Steps
<1>3. todo' = <<a>> \o todo /\ place[d] = "ws" /\ place' = place
  BY DEF CloseInCallback
<1> HIDE DEF a, t
<1>4. /\ <<a>> \o todo \in Seq(StepSet) /\ <<a>> \o todo # <<>> /\ Tail(<<a>> \o todo) = todo
      /\ \A x : Has(<<a>> \o todo, x) <=> (a = x \/ Has(todo, x))
      /\ \A x : Once(<<a>> \o todo, x) <=> (Once(todo, x) /\ (a = x => ~Has(todo, x)))
  BY <1>1, <1>2, Push
<1>5. \A g \in Conns : ~Has(todo, <<"interClose", g>>)
  BY <1>1 DEF StackInv, t
<1>6. TypeOK'
  BY <1>3, <1>4 DEF CloseInCallback, lists, ListsExact, TypeOK, StepSet
<1>7. ListsExact'
  <2>1. \A g : Has(todo, <<"removeWsSession", g>>) <=> Has(todo', <<"removeWsSession", g>>)
    BY <1>3, <1>4 DEF a
  <2>2. \A g : Removing(g) <=> Removing(g)'
    BY <2>1 DEF Removing, Has
  <2>3. UNCHANGED lists
    BY DEF CloseInCallback
  <2> QED BY <1>3, <1>6, <2>2, <2>3 DEF lists, ListsExact
<1>8. StackInv'
  BY <1>3, <1>4, <1>5 DEF StackInv, a
<1> QED BY <1>7, <1>8 DEF CloseInCallback, ReadsOwn, BufferInv

(* A callback of the application returns.                                   *)
LEMMA CallbackReturnsInv ==
  ASSUME IInv, NEW c \in Conns, CallbackReturns(c)
  PROVE  IInv'
<1> USE DEF IInv
<1>1. /\ todo' \in Seq(StepSet) /\ todo # <<>>
      /\ \A x : Has(todo, x) <=> (<<"callback", c>> = x \/ Has(todo', x))
      /\ \A x : Once(todo, x) <=> (Once(todo', x) /\ (<<"callback", c>> = x => ~Has(todo', x)))
  <2>1. todo' = Tail(todo)
    BY DEF CallbackReturns
  <2> QED BY <2>1, TopFacts DEF CallbackReturns, ListsExact
<1>2. \A d \in Conns : ~Has(todo', <<"interClose", d>>)
  BY <1>1 DEF CallbackReturns, StackInv
<1>3. TypeOK'
  BY <1>1 DEF CallbackReturns, lists, ListsExact, TypeOK, StepSet
<1>4. ListsExact'
  <2>1. \A g : Has(todo, <<"removeWsSession", g>>) <=> Has(todo', <<"removeWsSession", g>>)
    BY <1>1
  <2>2. \A g : Removing(g) <=> Removing(g)'
    BY <2>1 DEF Removing, Has
  <2>3. UNCHANGED <<lists, place>>
    BY DEF CallbackReturns
  <2> QED BY <1>3, <2>2, <2>3 DEF lists, ListsExact
<1>5. StackInv'
  <2>1. todo' # <<>> => \A x : Has(Tail(todo'), x) => Has(todo', x)
    BY <1>1, Pop
  <2> QED BY <1>1, <1>2, <2>1 DEF CallbackReturns, StackInv
<1> QED BY <1>4, <1>5 DEF CallbackReturns, ReadsOwn, BufferInv

(* interClose leaves the session in the list until its callback is over.    *)
LEMMA InterCloseInv ==
  ASSUME IInv, NEW c \in Conns, InterClose(c)
  PROVE  IInv'
<1> USE DEF IInv
<1> DEFINE t == Tail(todo)
           a == <<"callback", c>>
           b == <<"removeWsSession", c>>
<1>1. /\ t \in Seq(StepSet) /\ todo # <<>>
      /\ \A x : Has(todo, x) <=> (<<"interClose", c>> = x \/ Has(t, x))
      /\ \A x : Once(todo, x) <=> (Once(t, x) /\ (<<"interClose", c>> = x => ~Has(t, x)))
  BY TopFacts DEF InterClose, ListsExact
<1>2. a \in StepSet /\ b \in StepSet
  BY IsStep DEF Steps
<1>3. todo' = Calls(a, b, t)
  BY DEF InterClose, Calls
<1> HIDE DEF a, b, t
<1>4. LET q == Calls(a, b, t) IN
      /\ q \in Seq(StepSet) /\ q # <<>>
      /\ \A x : Has(q, x) <=> (a = x \/ b = x \/ Has(t, x))
      /\ \A x : Has(Tail(q), x) <=> (b = x \/ Has(t, x))
      /\ \A x : Once(q, x) <=>
            (Once(t, x) /\ (b = x => ~Has(t, x)) /\ (a = x => b # x /\ ~Has(t, x)))
  BY <1>1, <1>2, PushTwo, Zenon
<1>5. place[c] = "ws" /\ place' = [place EXCEPT ![c] = "closing"]
  BY <1>1 DEF InterClose, StackInv
<1>6. /\ \A d \in Conns : ~Has(t, <<"interClose", d>>)
      /\ ~Has(t, <<"connect", c>>) /\ ~Has(todo, b)
  BY <1>1, <1>5 DEF StackInv, t, b
<1>7. TypeOK'
  BY <1>3, <1>4 DEF InterClose, lists, ListsExact, TypeOK, StepSet
<1>8. ListsExact'
  <2>1. \A d : Has(todo', <<"removeWsSession", d>>) <=>
                 d = c \/ Has(todo, <<"removeWsSession", d>>)
    BY <1>1, <1>3, <1>4 DEF a, b
  <2>2. \A d : Removing(d)' <=> d = c \/ Removing(d)
    BY <2>1 DEF Removing, Has
  <2>3. UNCHANGED lists
    BY DEF InterClose
  <2> QED BY <1>5, <1>7, <2>2, <2>3 DEF lists, ListsExact, TypeOK
<1>9. ReadsOwn' /\ BufferInv'
  BY <1>5 DEF InterClose, lists, ListsExact, TypeOK, ReadsOwn, BufferInv
<1>10. StackInv'
  <2> SUFFICES ASSUME NEW d \in Conns
               PROVE  /\ Has(todo', <<"interClose", d>>) => place'[d] = "ws"
                      /\ ~Has(Tail(todo'), <<"interClose", d>>)
                      /\ Has(todo', <<"connect", d>>) => place'[d] = "joining"
                      /\ Once(todo', <<"connect", d>>)
                      /\ Has(todo', <<"removeWsSession", d>>) => place'[d] = "closing"
                      /\ Once(todo', <<"removeWsSession", d>>)
    BY DEF StackInv
  <2>1. ~Has(todo', <<"interClose", d>>) /\ ~Has(Tail(todo'), <<"interClose", d>>)
    BY <1>3, <1>4, <1>6 DEF a, b
  <2>2. Has(todo', <<"connect", d>>) => d # c /\ Has(todo, <<"connect", d>>)
    BY <1>1, <1>3, <1>4, <1>6 DEF a, b
  <2>3. Has(todo', <<"removeWsSession", d>>) => d = c \/ Has(todo, <<"removeWsSession", d>>)
    BY <1>1, <1>3, <1>4 DEF a, b
  <2>4. Once(todo', <<"connect", d>>) /\ Once(todo', <<"removeWsSession", d>>)
    BY <1>1, <1>3, <1>4, <1>6 DEF StackInv, a, b
  <2> QED BY <2>1, <2>2, <2>3, <2>4, <1>5 DEF ListsExact, TypeOK, StackInv
<1> QED BY <1>8, <1>9, <1>10

(* removeWsSession takes out the session it was called for, wherever the    *)
(* closes in between have moved it.                                         *)
LEMMA RemoveWsSessionInv ==
  ASSUME IInv, NEW c \in Conns, RemoveWsSession(c)
  PROVE  IInv'
<1> USE DEF IInv
<1> DEFINE b == <<"removeWsSession", c>>
<1>1. /\ todo' \in Seq(StepSet) /\ todo # <<>>
      /\ \A x : Has(todo, x) <=> (b = x \/ Has(todo', x))
      /\ \A x : Once(todo, x) <=> (Once(todo', x) /\ (b = x => ~Has(todo', x)))
  <2>1. todo' = Tail(todo)
    BY DEF RemoveWsSession
  <2> QED BY <2>1, TopFacts DEF RemoveWsSession, ListsExact
<1>2. place[c] = "closing" /\ ~Has(todo', b) /\ reader[c] = "none"
  <2>1. place[c] = "closing" /\ ~Has(todo', b)
    BY <1>1 DEF StackInv
  <2> QED BY <2>1 DEF ReadsOwn, ListsExact, TypeOK
<1>3. \A d \in Conns : ~Has(todo', <<"interClose", d>>)
  BY <1>1 DEF RemoveWsSession, StackInv
<1>4. /\ wsSessions' \in Seq(Conns) /\ Distinct(wsSessions')
      /\ Members(wsSessions') = Members(wsSessions) \ {c}
  BY RemovedFacts DEF RemoveWsSession, ListsExact, TypeOK
<1>5. TypeOK'
  BY <1>1, <1>4 DEF RemoveWsSession, ListsExact, TypeOK, StepSet
<1>6. ListsExact'
  <2>1. \A g : Has(todo', <<"removeWsSession", g>>) <=>
                 g # c /\ Has(todo, <<"removeWsSession", g>>)
    BY <1>1, <1>2
  <2>2. \A g : Removing(g)' <=> g # c /\ Removing(g)
    BY <2>1 DEF Removing, Has
  <2>3. UNCHANGED <<sessions, place>>
    BY DEF RemoveWsSession
  <2> QED BY <1>2, <1>4, <1>5, <2>2, <2>3 DEF ListsExact
<1>7. ReadsOwn' /\ BufferInv'
  BY <1>2 DEF RemoveWsSession, ListsExact, TypeOK, ReadsOwn, BufferInv
<1>8. StackInv'
  <2>1. todo' # <<>> => \A x : Has(Tail(todo'), x) => Has(todo', x)
    BY <1>1, Pop
  <2> QED BY <1>1, <1>3, <2>1 DEF RemoveWsSession, StackInv
<1> QED BY <1>6, <1>7, <1>8

(* The handle is deleted when nothing runs, so no close is in progress.     *)
LEMMA CloseCbInv ==
  ASSUME IInv, NEW c \in Conns, CloseCb(c)
  PROVE  IInv'
<1> USE DEF IInv
<1>1. /\ todo = <<>> /\ place[c] = "closing" /\ place' = [place EXCEPT ![c] = "gone"]
      /\ UNCHANGED <<sessions, wsSessions, reader, data, buffer, todo, calls>>
  BY DEF CloseCb, Idle, lists
<1>2. TypeOK'
  BY <1>1 DEF ListsExact, TypeOK
<1>3. ListsExact'
  <2>1. \A d : ~Removing(d) /\ ~Removing(d)'
    BY <1>1 DEF Removing
  <2> QED BY <1>1, <1>2, <2>1 DEF ListsExact, TypeOK
<1>4. ReadsOwn' /\ BufferInv'
  BY <1>1 DEF ListsExact, TypeOK, ReadsOwn, BufferInv
<1>5. StackInv'
  BY <1>1, EmptyStack DEF StackInv
<1> QED BY <1>3, <1>4, <1>5

(* Every step keeps the invariant.                                          *)
LEMMA NextInv == IInv /\ [Next]_vars => IInv'
<1> SUFFICES ASSUME IInv, [Next]_vars PROVE IInv'
  OBVIOUS
<1>1. CASE UNCHANGED vars
  <2>1. UNCHANGED <<sessions, wsSessions, place, reader, data, buffer, todo, calls>>
    BY <1>1 DEF vars, lists
  <2>2. \A d : Removing(d)' <=> Removing(d)
    BY <2>1 DEF Removing
  <2>3. TypeOK'
    BY <2>1 DEF IInv, ListsExact, TypeOK
  <2>4. ListsExact'
    BY <2>1, <2>2, <2>3 DEF IInv, ListsExact
  <2>5. ReadsOwn' /\ StackInv' /\ BufferInv'
    BY <2>1 DEF IInv, ReadsOwn, StackInv, BufferInv
  <2> QED BY <2>4, <2>5 DEF IInv
<1>2. CASE Next
  <2>1. PICK c \in Conns :
          \/ Accept(c) \/ CloseSession(c) \/ UpgradeSession(c) \/ WsEnds(c)
          \/ Running(c) \/ CloseCb(c)
    BY <1>2 DEF Next
  <2> QED
    BY <2>1, AcceptInv, CloseSessionInv, UpgradeSessionInv, WsEndsInv, ConnectInv,
       CallbackReturnsInv, InterCloseInv, RemoveWsSessionInv, CloseInCallbackInv, CloseCbInv
       DEF Running
<1> QED BY <1>1, <1>2

-----------------------------------------------------------------------------
(* The invariant holds of every behaviour, whatever its fairness.           *)
THEOREM Invariant == Spec => []IInv
BY InitInv, NextInv, PTL DEF Spec

(* Each list holds each of its sessions once, and no other, for any number  *)
(* of connections and of closes inside closes (removeSession,               *)
(* removeWsSession).                                                        *)
THEOREM Exact == Spec => []ListsExact
<1>1. IInv => ListsExact
  BY DEF IInv
<1> QED BY <1>1, Invariant, PTL

(* A connection that is read is read for its owner, into a buffer of its    *)
(* owner (transferBufferToWsSession, connect, recv_alloc_cb).               *)
THEOREM Reads == Spec => []ReadsOwn
<1>1. IInv => ReadsOwn
  BY DEF IInv
<1> QED BY <1>1, Invariant, PTL

-----------------------------------------------------------------------------
(* The sets of connections that Implements makes of the state.              *)
Http == Members(sessions)
Ws   == Members(wsSessions)
Gone == {c \in Conns : place[c] \in {"closing", "gone"}}

(* What a step does to these sets is a step of Registry or none.            *)
LEMMA StepImplements == IInv /\ [Next]_vars => [Sets!Next]_(Sets!vars)
<1> SUFFICES ASSUME IInv, [Next]_vars
             PROVE  [Sets!Next]_(Sets!vars)
  OBVIOUS
<1> DEFINE Left == Gone \ (Http \cup Ws)
           Same == Http' = Http /\ Ws' = Ws /\ Left' = Left
<1>1. /\ Http = {c \in Conns : place[c] = "http"}
      /\ Ws = {c \in Conns : place[c] \in {"joining", "ws"} \/ Removing(c)}
      /\ \A c \in Conns : Removing(c) => place[c] = "closing"
      /\ place \in [Conns -> {"none", "http", "joining", "ws", "closing", "gone"}]
  BY DEF IInv, ListsExact, TypeOK, StackInv, Removing, Has, Http, Ws
<1>2. Same => [Sets!Next]_(Sets!vars)
  BY DEF Sets!vars, Http, Ws, Gone
<1>3. ASSUME NEW c \in Conns, Accept(c) PROVE Sets!Enter(c)
  <2>1. c \notin Http \cup Ws /\ c \notin Gone
    BY <1>1, <1>3 DEF Accept, Gone
  <2>2. Http' = Http \cup {c}
    BY <2>1, <1>3, AppendFacts DEF Accept, IInv, ListsExact, TypeOK, Http
  <2>3. Ws' = Ws /\ Gone' = Gone
    BY <1>1, <1>3 DEF Accept, Ws, Gone
  <2>4. Left' = Left
    BY <2>1, <2>2, <2>3
  <2> QED BY <2>1, <2>2, <2>3, <2>4 DEF Sets!Enter, Http, Ws, Gone
<1>4. ASSUME NEW c \in Conns, CloseSession(c) PROVE Sets!Leave(c)
  <2>1. c \in Http /\ c \notin Ws
    BY <1>1, <1>4 DEF CloseSession
  <2>2. Http' = Http \ {c}
    BY <1>4, RemovedFacts DEF CloseSession, IInv, ListsExact, TypeOK, Http
  <2>3. Ws' = Ws /\ Gone' = Gone \cup {c}
    BY <1>1, <1>4 DEF CloseSession, Ws, Gone
  <2>4. Left' = Left \cup {c} /\ Ws' = Ws \ {c}
    BY <2>1, <2>2, <2>3
  <2> QED BY <2>1, <2>2, <2>4 DEF Sets!Leave, Http, Ws, Gone
<1>5. ASSUME NEW c \in Conns, UpgradeSession(c) PROVE Sets!Upgrade(c)
  <2>1. c \in Http /\ c \notin Ws
    BY <1>1, <1>5 DEF UpgradeSession
  <2>2. Http' = Http \ {c}
    BY <1>5, RemovedFacts DEF UpgradeSession, IInv, ListsExact, TypeOK, Http
  <2>3. Ws' = Ws \cup {c}
    <3>1. /\ wsSessions \in Seq(Conns) /\ Distinct(wsSessions)
          /\ wsSessions' = Append(wsSessions, c) /\ c \notin Members(wsSessions)
      BY <1>5, <2>1 DEF UpgradeSession, IInv, ListsExact, TypeOK, Ws
    <3> QED BY <3>1, AppendFacts DEF Ws
  <2>4. Gone' = Gone
    BY <1>1, <1>5 DEF UpgradeSession, Gone
  <2>5. Left' = Left
    BY <2>1, <2>2, <2>3, <2>4
  <2> QED BY <2>1, <2>2, <2>3, <2>5 DEF Sets!Upgrade, Http, Ws, Gone
<1>6. ASSUME NEW c \in Conns, RemoveWsSession(c) PROVE Sets!Leave(c)
  <2>1. Removing(c)
    BY <1>6, TopFacts DEF RemoveWsSession, IInv, ListsExact, Removing, Has
  <2>2. c \in Ws /\ c \notin Http /\ c \in Gone
    BY <1>1, <2>1 DEF Gone
  <2>3. Ws' = Ws \ {c}
    BY <1>6, RemovedFacts DEF RemoveWsSession, IInv, ListsExact, TypeOK, Ws
  <2>4. Http' = Http /\ Gone' = Gone
    BY <1>6 DEF RemoveWsSession, Http, Gone
  <2>5. Left' = Left \cup {c} /\ Http' = Http \ {c}
    BY <2>2, <2>3, <2>4
  <2> QED BY <2>2, <2>3, <2>5 DEF Sets!Leave, Http, Ws, Gone
<1>7. ASSUME NEW c \in Conns, InterClose(c) PROVE Same
  <2>1. place[c] = "ws"
    <3>1. Has(todo, <<"interClose", c>>)
      BY <1>7, TopFacts DEF InterClose, IInv, ListsExact
    <3> QED BY <3>1 DEF IInv, StackInv
  <2>2. Http' = Http /\ Ws' = Ws /\ Gone' = Gone \cup {c} /\ c \in Ws
    BY <1>1, <1>7, <2>1 DEF InterClose, lists, Http, Ws, Gone
  <2> QED BY <2>2
<1>8. ASSUME NEW c \in Conns, Connect(c) PROVE Same
  <2>1. place[c] = "joining"
    <3>1. Has(todo, <<"connect", c>>)
      BY <1>8, TopFacts DEF Connect, IInv, ListsExact
    <3> QED BY <3>1 DEF IInv, StackInv
  <2>2. Http' = Http /\ Ws' = Ws /\ Gone' = Gone
    BY <1>1, <1>8, <2>1 DEF Connect, lists, Http, Ws, Gone
  <2> QED BY <2>2
<1>9. ASSUME NEW c \in Conns, CloseCb(c) PROVE Same
  <2>1. Http' = Http /\ Ws' = Ws /\ Gone' = Gone
    BY <1>1, <1>9 DEF CloseCb, lists, Http, Ws, Gone
  <2> QED BY <2>1
<1>10. ASSUME UNCHANGED <<lists, place>> PROVE Same
  BY <1>10 DEF lists, Http, Ws, Gone
<1> HIDE DEF Same
<1>11. CASE UNCHANGED vars
  BY <1>2, <1>10, <1>11 DEF vars
<1>12. CASE Next
  <2>1. PICK c \in Conns :
          \/ Accept(c) \/ CloseSession(c) \/ UpgradeSession(c) \/ WsEnds(c)
          \/ Running(c) \/ CloseCb(c)
    BY <1>12 DEF Next
  <2>2. Sets!Enter(c) \/ Sets!Upgrade(c) \/ Sets!Leave(c) => [Sets!Next]_(Sets!vars)
    BY DEF Sets!Next
  <2>3. WsEnds(c) \/ CallbackReturns(c) \/ (\E d \in Conns : CloseInCallback(c, d)) => Same
    BY <1>10 DEF WsEnds, CallbackReturns, CloseInCallback
  <2> QED
    BY <2>1, <2>2, <2>3, <1>2, <1>3, <1>4, <1>5, <1>6, <1>7, <1>8, <1>9 DEF Running
<1> QED BY <1>11, <1>12

(* The lists, changed in place by swap-and-pop and in the middle of         *)
(* callbacks, behave as two sets of connections that each enters once,      *)
(* passes from one to the other, and leaves for good.                       *)
THEOREM Refinement == Spec => Implements
<1>1. Init => Sets!Init
  BY DEF Init, Sets!Init, Members
<1>2. Spec => [][Sets!Next]_(Sets!vars)
  BY Invariant, StepImplements, PTL DEF Spec
<1> QED BY <1>1, <1>2, PTL DEF Spec, Implements, Sets!Spec
=============================================================================
