------------------------- MODULE ApplicationProofs --------------------------
(***************************************************************************)
(* What the application is given.  Its requests: for every set of requests *)
(* and templates and every way of cutting what is read, a request that     *)
(* came whole is the one sent, with nothing of the one before it, and the  *)
(* parameters but the last are its own.  Its tokens: none outlives the     *)
(* first of its payload, none is accepted that is too old, and the         *)
(* rounding to seconds costs less than a second.                           *)
(***************************************************************************)
EXTENDS Request, Jwt, SequenceTheorems, WellFoundedInduction, TLAPS

-----------------------------------------------------------------------------
(* A set of numbers has a least member.                                     *)
LEMMA Least ==
  ASSUME NEW B \in SUBSET Nat, B # {}
  PROVE  \E m \in B : \A k \in B : m <= k
<1> DEFINE R == {p \in Nat \X Nat : p[1] < p[2]}
<1>1. IsWellFoundedOn(R, Nat)
  BY NatLessThanWellFounded DEF OpToRel
<1> HIDE DEF R
<1>2. PICK m \in B : \A k \in B : ~(<<k, m>> \in R)
  BY <1>1, WFMin
<1>3. ASSUME NEW k \in B PROVE m <= k
  <2>1. k \in Nat /\ m \in Nat /\ ~(<<k, m>> \in R)
    BY <1>2
  <2>2. ~(k < m)
    BY <2>1 DEF R
  <2> QED
    BY <2>1, <2>2
<1> QED BY <1>3

(* What is a sequence of anything is one of its own elements.               *)
LEMMA OwnElements ==
  ASSUME NEW S, NEW s \in Seq(S)
  PROVE  IsSequence(s)
BY DEF IsSequence

(* What a loop over a sequence has kept after each place.                   *)
LEMMA PickedSteps ==
  ASSUME NEW seq, Len(seq) \in Nat, NEW P
  PROVE  \E f : /\ f[0] = <<>>
                /\ \A i \in 1..Len(seq) :
                     f[i] = IF i \in P THEN Append(f[i - 1], seq[i]) ELSE f[i - 1]
                /\ Picked(seq, P) = f[Len(seq)]
<1> DEFINE Step(f, n) == [i \in 0..n |-> IF i = 0 THEN <<>>
                                        ELSE IF i \in P THEN Append(f[i - 1], seq[i])
                                        ELSE f[i - 1]]
           B == {n \in Nat : ~\E f : f = Step(f, n)}
           picked == CHOOSE f : f = Step(f, Len(seq))
<1>1. Picked(seq, P) = picked[Len(seq)]
  BY DEF Picked
<1>2. Len(seq) \in Nat
  OBVIOUS
<1>3. ASSUME B # {} PROVE FALSE
  <2>1. PICK n \in B : \A k \in B : n <= k
    BY <1>3, Least
  <2>2. n # 0
    <3> DEFINE f == [i \in 0..0 |-> <<>>]
    <3>1. f = Step(f, 0)
      OBVIOUS
    <3> QED BY <2>1, <3>1
  <2>3. n - 1 \in Nat /\ ~(n <= n - 1)
    BY <2>1, <2>2
  <2>4. PICK f : f = Step(f, n - 1)
    BY <2>1, <2>3
  <2> DEFINE g == Step(f, n)
  <2>5. \A i \in 0..(n - 1) : g[i] = f[i]
    <3>1. \A i \in 0..(n - 1) : i \in 0..n /\ Step(f, n - 1)[i] = Step(f, n)[i]
      BY <2>3
    <3> HIDE DEF Step
    <3> QED BY <2>4, <3>1, Zenon
  <2>6. g = Step(g, n)
    <3>1. \A i \in 0..n : i # 0 => i - 1 \in 0..(n - 1)
      BY <2>1
    <3>2. \A i \in 0..n : i # 0 => g[i - 1] = f[i - 1]
      BY <2>5, <3>1
    <3> HIDE DEF g
    <3>3. Step(f, n) = Step(g, n)
      BY <3>2
    <3> QED BY <3>3 DEF g
  <2> QED BY <2>1, <2>6
<1>4. picked = Step(picked, Len(seq))
  <2>1. \E f : f = Step(f, Len(seq))
    BY <1>2, <1>3
  <2> QED BY <2>1
<1> HIDE DEF picked
<1>5. /\ picked[0] = <<>>
      /\ \A i \in 1..Len(seq) :
           picked[i] = IF i \in P THEN Append(picked[i - 1], seq[i]) ELSE picked[i - 1]
  <2>1. /\ Step(picked, Len(seq))[0] = <<>>
        /\ \A i \in 1..Len(seq) : Step(picked, Len(seq))[i] =
             IF i \in P THEN Append(picked[i - 1], seq[i]) ELSE picked[i - 1]
    BY <1>2
  <2> HIDE DEF Step
  <2> QED BY <1>4, <2>1, Zenon
<1> QED BY <1>1, <1>5

(* It keeps a sequence, of a length that only the places decide.            *)
LEMMA PickedAlike ==
  ASSUME NEW s, NEW t, Len(s) \in Nat, Len(t) = Len(s), NEW P
  PROVE  /\ IsSequence(Picked(s, P))
         /\ Len(Picked(s, P)) = Len(Picked(t, P))
<1> DEFINE S == {s[i] : i \in 1..Len(s)}
           T == {t[i] : i \in 1..Len(s)}
<1>1. PICK f : /\ f[0] = <<>>
               /\ \A i \in 1..Len(s) :
                    f[i] = IF i \in P THEN Append(f[i - 1], s[i]) ELSE f[i - 1]
               /\ Picked(s, P) = f[Len(s)]
  BY PickedSteps
<1>2. PICK g : /\ g[0] = <<>>
               /\ \A i \in 1..Len(s) :
                    g[i] = IF i \in P THEN Append(g[i - 1], t[i]) ELSE g[i - 1]
               /\ Picked(t, P) = g[Len(s)]
  BY PickedSteps
<1>3. \A i \in 1..Len(s) : s[i] \in S /\ t[i] \in T
  OBVIOUS
<1> HIDE DEF S, T
<1> DEFINE Alike(n) == f[n] \in Seq(S) /\ g[n] \in Seq(T) /\ Len(f[n]) = Len(g[n])
           B == {n \in 0..Len(s) : ~Alike(n)}
<1>4. ASSUME B # {} PROVE FALSE
  <2>1. B \in SUBSET Nat
    OBVIOUS
  <2>2. PICK n \in B : \A k \in B : n <= k
    BY <1>4, <2>1, Least
  <2>3. n \in 0..Len(s) /\ ~Alike(n) /\ \A k \in 0..Len(s) : ~Alike(k) => n <= k
    BY <2>2
  <2> HIDE DEF B
  <2>4. <<>> \in Seq(S) /\ <<>> \in Seq(T)
    OBVIOUS
  <2>5. Alike(0)
    BY <1>1, <1>2, <2>4
  <2>6. n \in 1..Len(s) /\ n - 1 \in 0..Len(s) /\ ~(n <= n - 1)
    <3> HIDE DEF Alike
    <3>1. n # 0
      BY <2>3, <2>5
    <3> QED BY <2>3, <3>1
  <2>7. Alike(n - 1) /\ s[n] \in S /\ t[n] \in T
    <3> HIDE DEF Alike
    <3> QED BY <1>3, <2>3, <2>6
  <2>8. CASE n \in P
    <3>1. f[n] = Append(f[n - 1], s[n]) /\ g[n] = Append(g[n - 1], t[n])
      BY <1>1, <1>2, <2>6, <2>8, Zenon
    <3>2. /\ Append(f[n - 1], s[n]) \in Seq(S)
          /\ Len(Append(f[n - 1], s[n])) = Len(f[n - 1]) + 1
      BY <2>7, AppendProperties
    <3>3. /\ Append(g[n - 1], t[n]) \in Seq(T)
          /\ Len(Append(g[n - 1], t[n])) = Len(g[n - 1]) + 1
      BY <2>7, AppendProperties
    <3> QED BY <2>3, <2>7, <3>1, <3>2, <3>3
  <2>9. CASE n \notin P
    <3>1. f[n] = f[n - 1] /\ g[n] = g[n - 1]
      BY <1>1, <1>2, <2>6, <2>9, Zenon
    <3> QED BY <2>3, <2>7, <3>1
  <2> QED BY <2>8, <2>9
<1>5. Alike(Len(s))
  <2> HIDE DEF Alike
  <2> QED BY <1>4
<1> QED BY <1>1, <1>2, <1>5, OwnElements

-----------------------------------------------------------------------------
(* The reports of the headers, by the header.                               *)
LEMMA HeaderReportsAt ==
  ASSUME NEW hs, IsSequence(hs)
  PROVE  /\ Len(HeaderReports(hs)) = 2 * Len(hs)
         /\ \A m \in 1..Len(hs) :
              /\ HeaderReports(hs)[2 * m - 1] = [cb |-> "field", str |-> hs[m].key]
              /\ HeaderReports(hs)[2 * m] = [cb |-> "value", str |-> hs[m].value]
<1> DEFINE H == Len(hs)
<1>1. H \in Nat
  BY DEF IsSequence
<1> HIDE DEF H
<1>2. DOMAIN HeaderReports(hs) = 1..(2 * H)
  BY DEF HeaderReports, H
<1>3. HeaderReports(hs) \in Seq({HeaderReports(hs)[i] : i \in 1..(2 * H)})
  <2> DEFINE T == {HeaderReports(hs)[i] : i \in 1..(2 * H)}
  <2>1. HeaderReports(hs) = [i \in 1..(2 * H) |-> HeaderReports(hs)[i]]
    BY DEF HeaderReports, H
  <2>2. \A i \in 1..(2 * H) : HeaderReports(hs)[i] \in T
    OBVIOUS
  <2>3. 2 * H \in Nat
    BY <1>1
  <2> HIDE DEF T
  <2>4. HeaderReports(hs) \in Seq(T)
    BY <2>1, <2>2, <2>3
  <2> QED BY <2>4 DEF T
<1>4. Len(HeaderReports(hs)) = 2 * H
  BY <1>1, <1>2, <1>3
<1>5. ASSUME NEW m \in 1..H
      PROVE  /\ HeaderReports(hs)[2 * m - 1] = [cb |-> "field", str |-> hs[m].key]
             /\ HeaderReports(hs)[2 * m] = [cb |-> "value", str |-> hs[m].value]
  <2>1. /\ 2 * m - 1 \in 1..(2 * H) /\ 2 * m \in 1..(2 * H)
        /\ (2 * m - 1) % 2 = 1 /\ (2 * m) % 2 # 1
        /\ ((2 * m - 1) + 1) \div 2 = m /\ ((2 * m) + 1) \div 2 = m
    BY <1>1
  <2> QED BY <2>1 DEF HeaderReports, H
<1> QED BY <1>4, <1>5 DEF H

(* Every report has a name and a string.                                    *)
ReportOf(r) ==
  [cb  : {"url", "field", "value", "headersComplete", "body", "complete"},
   str : {r.url, r.body, <<>>} \cup {r.headers[i].key : i \in 1..Len(r.headers)}
                              \cup {r.headers[i].value : i \in 1..Len(r.headers)}]

(* Those of the headers are such.                                           *)
LEMMA HeaderReportsType ==
  ASSUME NEW r \in Requests
  PROVE  HeaderReports(r.headers) \in Seq(ReportOf(r))
<1> DEFINE hs == r.headers
           H == Len(hs)
<1>1. H \in Nat
  BY RequestsAssumption DEF IsSequence
<1>2. ASSUME NEW i \in 1..(2 * H) PROVE HeaderReports(hs)[i] \in ReportOf(r)
  <2>1. (i + 1) \div 2 \in 1..H
    BY <1>1
  <2> HIDE DEF H
  <2>2. hs[(i + 1) \div 2].key \in {hs[j].key : j \in 1..H}
        /\ hs[(i + 1) \div 2].value \in {hs[j].value : j \in 1..H}
    BY <2>1
  <2>3. HeaderReports(hs)[i] = IF i % 2 = 1 THEN [cb |-> "field", str |-> hs[(i + 1) \div 2].key]
                               ELSE [cb |-> "value", str |-> hs[(i + 1) \div 2].value]
    BY <1>1 DEF HeaderReports, H
  <2> DEFINE key == hs[(i + 1) \div 2].key
             value == hs[(i + 1) \div 2].value
  <2>4. [cb |-> "field", str |-> key] \in ReportOf(r) /\ [cb |-> "value", str |-> value] \in ReportOf(r)
    <3>1. key \in {r.headers[j].key : j \in 1..Len(r.headers)}
          /\ value \in {r.headers[j].value : j \in 1..Len(r.headers)}
      BY <2>2 DEF H
    <3> HIDE DEF key, value
    <3> QED BY <3>1 DEF ReportOf
  <2> HIDE DEF hs
  <2> QED BY <2>3, <2>4
<1>3. HeaderReports(hs) = [i \in 1..(2 * H) |-> HeaderReports(hs)[i]]
  BY DEF HeaderReports
<1>4. 2 * H \in Nat
  BY <1>1
<1> HIDE DEF H, hs
<1> QED BY <1>2, <1>3, <1>4 DEF hs

(* One sequence behind another.                                             *)
Joined(u, s, t, S) ==
  /\ u \in Seq(S) /\ Len(u) = Len(s) + Len(t)
  /\ \A i \in 1..Len(s) : u[i] = s[i]
  /\ \A i \in 1..Len(t) : u[Len(s) + i] = t[i]

(* What \o gives.                                                           *)
LEMMA Behind ==
  ASSUME NEW S, NEW s \in Seq(S), NEW t \in Seq(S)
  PROVE  Joined(s \o t, s, t, S)
BY DEF Joined

(* All the reports of a request, by their places.                           *)
LEMMA ReportsAt ==
  ASSUME NEW r \in Requests
  PROVE  LET R == Reports(r)
             H == Len(r.headers)
         IN  /\ R \in Seq(ReportOf(r)) /\ H \in Nat
             /\ Len(R) = IF r.body = <<>> THEN 2 * H + 3 ELSE 2 * H + 4
             /\ R[1] = [cb |-> "url", str |-> r.url]
             /\ \A m \in 1..H : /\ R[2 * m] = [cb |-> "field", str |-> r.headers[m].key]
                                /\ R[2 * m + 1] = [cb |-> "value", str |-> r.headers[m].value]
             /\ R[2 * H + 2] = [cb |-> "headersComplete", str |-> <<>>]
             /\ r.body # <<>> => R[2 * H + 3] = [cb |-> "body", str |-> r.body]
             /\ R[Len(R)] = [cb |-> "complete", str |-> <<>>]
<1> DEFINE H  == Len(r.headers)
           T  == ReportOf(r)
           hr == HeaderReports(r.headers)
           a  == <<[cb |-> "url", str |-> r.url]>>
           c  == <<[cb |-> "headersComplete", str |-> <<>>]>>
           b  == IF r.body = <<>> THEN <<>> ELSE <<[cb |-> "body", str |-> r.body]>>
           e  == <<[cb |-> "complete", str |-> <<>>]>>
<1>1. H \in Nat /\ IsSequence(r.headers)
  <2>1. IsSequence(r.headers)
    BY RequestsAssumption
  <2> QED BY <2>1 DEF IsSequence
<1>2. hr \in Seq(T) /\ Len(hr) = 2 * H
  BY <1>1, HeaderReportsType, HeaderReportsAt
<1>3. \A m \in 1..H : /\ hr[2 * m - 1] = [cb |-> "field", str |-> r.headers[m].key]
                      /\ hr[2 * m] = [cb |-> "value", str |-> r.headers[m].value]
  BY <1>1, HeaderReportsAt
<1>4. a \in Seq(T) /\ c \in Seq(T) /\ b \in Seq(T) /\ e \in Seq(T)
  <2>1. /\ [cb |-> "url", str |-> r.url] \in T
        /\ [cb |-> "headersComplete", str |-> <<>>] \in T
        /\ [cb |-> "body", str |-> r.body] \in T
        /\ [cb |-> "complete", str |-> <<>>] \in T
    BY DEF ReportOf
  <2> HIDE DEF T
  <2> QED BY <2>1
<1>5. /\ Len(a) = 1 /\ a[1] = [cb |-> "url", str |-> r.url]
      /\ Len(c) = 1 /\ c[1] = [cb |-> "headersComplete", str |-> <<>>]
      /\ Len(e) = 1 /\ e[1] = [cb |-> "complete", str |-> <<>>]
      /\ Len(b) = IF r.body = <<>> THEN 0 ELSE 1
      /\ r.body # <<>> => b[1] = [cb |-> "body", str |-> r.body]
  OBVIOUS
<1>6. Reports(r) = a \o hr \o c \o b \o e
  BY DEF Reports
<1> HIDE DEF H, T, hr, a, b, c, e
<1> DEFINE x == a \o hr
           y == x \o c
           z == y \o b
<1>7. /\ x \in Seq(T) /\ Len(x) = 2 * H + 1 /\ x[1] = a[1]
      /\ \A i \in 1..(2 * H) : x[i + 1] = hr[i]
  <2>1. Joined(x, a, hr, T)
    BY <1>2, <1>4, Behind DEF x
  <2> HIDE DEF x
  <2> QED BY <1>1, <1>2, <1>5, <2>1 DEF Joined
<1> HIDE DEF x
<1>8. /\ y \in Seq(T) /\ Len(y) = 2 * H + 2 /\ y[2 * H + 2] = c[1]
      /\ \A i \in 1..(2 * H + 1) : y[i] = x[i]
  <2>1. Joined(y, x, c, T)
    BY <1>4, <1>7, Behind DEF y
  <2> HIDE DEF y
  <2> QED BY <1>1, <1>5, <1>7, <2>1 DEF Joined
<1> HIDE DEF y
<1>9. /\ z \in Seq(T) /\ Len(z) = 2 * H + 2 + Len(b)
      /\ r.body # <<>> => z[2 * H + 3] = b[1]
      /\ \A i \in 1..(2 * H + 2) : z[i] = y[i]
  <2>1. Joined(z, y, b, T)
    BY <1>4, <1>8, Behind DEF z
  <2> HIDE DEF z
  <2> QED BY <1>1, <1>5, <1>8, <2>1 DEF Joined
<1> HIDE DEF z
<1>10. /\ z \o e \in Seq(T) /\ Len(z \o e) = 2 * H + 3 + Len(b)
       /\ (z \o e)[2 * H + 3 + Len(b)] = e[1]
       /\ \A i \in 1..(2 * H + 2 + Len(b)) : (z \o e)[i] = z[i]
  <2>1. Joined(z \o e, z, e, T)
    BY <1>4, <1>9, Behind
  <2> QED BY <1>1, <1>5, <1>9, <2>1 DEF Joined
<1>11. Reports(r) = z \o e
  BY <1>6 DEF x, y, z
<1> DEFINE R == z \o e
<1> HIDE DEF R
<1>12. /\ R \in Seq(T) /\ Len(R) = 2 * H + 3 + Len(b)
       /\ R[2 * H + 3 + Len(b)] = e[1]
       /\ r.body # <<>> => R[2 * H + 3] = b[1]
       /\ R[2 * H + 2] = c[1] /\ R[1] = a[1]
       /\ \A i \in 2..(2 * H + 1) : R[i] = hr[i - 1]
  BY <1>1, <1>5, <1>7, <1>8, <1>9, <1>10 DEF R
<1>13. ASSUME NEW m \in 1..H
       PROVE  /\ R[2 * m] = [cb |-> "field", str |-> r.headers[m].key]
              /\ R[2 * m + 1] = [cb |-> "value", str |-> r.headers[m].value]
  <2>1. /\ 2 * m \in 2..(2 * H + 1) /\ 2 * m + 1 \in 2..(2 * H + 1)
        /\ (2 * m + 1) - 1 = 2 * m
    BY <1>1
  <2> QED BY <1>3, <1>12, <2>1
<1>14. Len(R) = IF r.body = <<>> THEN 2 * H + 3 ELSE 2 * H + 4
  BY <1>1, <1>5, <1>12
<1>15. R = Reports(r)
  BY <1>11 DEF R
<1> QED BY <1>1, <1>5, <1>12, <1>13, <1>14, <1>15 DEF H, T

(* The place of a report says what it is, and the other way round.          *)
LEMMA Places ==
  ASSUME NEW r \in Requests, NEW p \in 1..Len(Reports(r))
  PROVE  LET R == Reports(r)
             H == Len(r.headers)
         IN  /\ IsSequence(R[p].str)
             /\ R[p].cb = "url" => p = 1
             /\ R[p].cb = "field" => \E m \in 1..H : p = 2 * m
             /\ R[p].cb = "value" => \E m \in 1..H : p = 2 * m + 1
             /\ R[p].cb = "headersComplete" => p = 2 * H + 2
             /\ R[p].cb = "body" <=> p = 2 * H + 3 /\ r.body # <<>>
             /\ R[p].cb = "complete" <=> p = Len(R)
<1> DEFINE R == Reports(r)
           H == Len(r.headers)
<1>1. /\ H \in Nat
      /\ Len(R) = IF r.body = <<>> THEN 2 * H + 3 ELSE 2 * H + 4
      /\ R[1] = [cb |-> "url", str |-> r.url]
      /\ \A m \in 1..H : /\ R[2 * m] = [cb |-> "field", str |-> r.headers[m].key]
                         /\ R[2 * m + 1] = [cb |-> "value", str |-> r.headers[m].value]
      /\ R[2 * H + 2] = [cb |-> "headersComplete", str |-> <<>>]
      /\ r.body # <<>> => R[2 * H + 3] = [cb |-> "body", str |-> r.body]
      /\ R[Len(R)] = [cb |-> "complete", str |-> <<>>]
  BY ReportsAt
<1>2. /\ IsSequence(r.url) /\ IsSequence(r.body)
      /\ \A m \in 1..H : IsSequence(r.headers[m].key) /\ IsSequence(r.headers[m].value)
  BY RequestsAssumption
<1>3. IsSequence(<<>>)
  BY DEF IsSequence
<1> HIDE DEF R, H
<1>4. CASE p = 1
  BY <1>1, <1>2, <1>4 DEF R, H
<1>5. CASE p \in 2..(2 * H + 1)
  <2>1. PICK m \in 1..H : p = 2 * m \/ p = 2 * m + 1
    <3>1. p \div 2 \in 1..H /\ (p = 2 * (p \div 2) \/ p = 2 * (p \div 2) + 1)
      BY <1>1, <1>5
    <3> QED BY <3>1
  <2>2. p # Len(R) /\ p # 2 * H + 3
    BY <1>1, <1>5
  <2>3. CASE p = 2 * m
    <3>1. R[p] = [cb |-> "field", str |-> r.headers[m].key]
      BY <1>1, <2>3
    <3> QED BY <1>2, <2>2, <2>3, <3>1 DEF R, H
  <2>4. CASE p = 2 * m + 1
    <3>1. R[p] = [cb |-> "value", str |-> r.headers[m].value]
      BY <1>1, <2>4
    <3> QED BY <1>2, <2>2, <2>4, <3>1 DEF R, H
  <2> QED BY <2>1, <2>3, <2>4
<1>6. CASE p = 2 * H + 2
  <2>1. p # Len(R) /\ p # 2 * H + 3
    BY <1>1, <1>6
  <2> QED BY <1>1, <1>3, <1>6, <2>1 DEF R, H
<1>7. CASE p = 2 * H + 3 /\ r.body # <<>>
  <2>1. p # Len(R)
    BY <1>1, <1>7
  <2> QED BY <1>1, <1>2, <1>7, <2>1 DEF R, H
<1>8. CASE p = Len(R)
  <2>1. ~(p = 2 * H + 3 /\ r.body # <<>>)
    BY <1>1, <1>8
  <2> QED BY <1>1, <1>3, <1>8, <2>1 DEF R, H
<1> QED
  <2>1. \/ p = 1 \/ p \in 2..(2 * H + 1) \/ p = 2 * H + 2
        \/ (p = 2 * H + 3 /\ r.body # <<>>) \/ p = Len(R)
    BY <1>1 DEF R
  <2> QED BY <1>4, <1>5, <1>6, <1>7, <1>8, <2>1

-----------------------------------------------------------------------------
(* This many of the reports of the request are over.                        *)
Got == Len(Reports(sent)) - Len(left)

Callbacks == {"url", "field", "value", "headersComplete", "body", "complete"}

(* What is left are the last reports of what was sent; of the first of them *)
(* a part may be over, and of one other than the body only when it is cut,  *)
(* or when all of a value is over.                                          *)
LeftInv ==
  /\ IsSequence(left)
  /\ left # <<>> =>
       /\ count > 0 /\ handler = 0
       /\ left[1] \in [cb : Callbacks, str : {left[1].str}] /\ IsSequence(left[1].str)
       /\ left[1].cb = Reports(sent)[Got + 1].cb
       /\ left[1].cb # "body" /\ ~cut =>
            \/ left[1].str = Reports(sent)[Got + 1].str
            \/ left[1].cb = "value" /\ left[1].str = <<>>
       /\ \A i \in 2..Len(left) : left[i] = Reports(sent)[Got + i]

(* The body that is there and the rest of it are the one sent.              *)
BodyInv ==
  LET at == 2 * Len(sent.headers) + 2
  IN  /\ IsSequence(body)
      /\ count > 0 =>
           /\ sent.body = <<>> \/ Got < at => body = <<>>
           /\ sent.body # <<>> /\ Got = at => body \o left[1].str = sent.body
           /\ Got > at => body = sent.body

(* The value that is due is over, but for the call with nothing.            *)
ValueOver == /\ left # <<>> /\ left[1].cb = "value"
             /\ left[1].str # Reports(sent)[Got + 1].str

(* This many of the reports are over, or all of their strings.              *)
Given == IF ValueOver THEN Got + 1 ELSE Got

(* Of a request that came whole so far, url, key, headers and method are    *)
(* those that were reported.                                                *)
FieldsInv ==
  LET H == Len(sent.headers)
  IN  count > 0 /\ ~cut =>
        /\ Got > 0 => url = sent.url
        /\ \A j \in 1..H : Got = 2 * j => tmpKey = Lower(sent.headers[j].key)
        /\ \A j \in 0..H : (Given >= 2 * j + 1 \/ j = 0) /\ (Given <= 2 * j + 2 \/ j = H)
                           => headers = FirstValues(sent.headers, j)
        /\ Got > 2 * H + 1 => method = sent.method

(* The session goes by the headers of the request that was handled last.    *)
KeepInv == Handled => keepAlive = NeedKeepConnection

(* Every route is made of a template.                                       *)
RoutesInv ==
  \A m \in Methods :
    /\ IsSequence(routes[m])
    /\ \A i \in 1..Len(routes[m]) :
         \E t \in Templates : routes[m][i] = ParsePathToRegex(t.parts)

(* A query that is parsed while the url arrives is known to be.             *)
EarlyInv == parsed /\ Due("url") => early

(* The handler that has the request is that of a route that its path        *)
(* matches.                                                                 *)
MatchInv ==
  Handled /\ handler # 0 => RegexMatch(PathOf(url), routes[method][handler].pattern)

RequestInv ==
  /\ TypeOK /\ LeftInv /\ BodyInv /\ FieldsInv /\ KeepInv /\ RoutesInv /\ EarlyInv
  /\ QueryFresh /\ MatchInv /\ ParamsAllButLast

-----------------------------------------------------------------------------
(* The part that is given and the rest are the string.                      *)
LEMMA Halves ==
  ASSUME NEW s, IsSequence(s), NEW n \in 0..Len(s)
  PROVE  /\ IsSequence(SubSeq(s, 1, n)) /\ IsSequence(SubSeq(s, n + 1, Len(s)))
         /\ SubSeq(s, 1, n) \o SubSeq(s, n + 1, Len(s)) = s
         /\ SubSeq(s, 1, Len(s)) = s
<1> DEFINE S == {s[i] : i \in DOMAIN s}
<1>1. s \in Seq(S)
  BY DEF IsSequence
<1> HIDE DEF S
<1>2. /\ SubSeq(s, 1, n) \in Seq(S) /\ SubSeq(s, n + 1, Len(s)) \in Seq(S)
      /\ SubSeq(s, 1, Len(s)) = s
  BY <1>1
<1>3. SubSeq(s, 1, n) \o SubSeq(s, n + 1, Len(s)) = SubSeq(s, 1, Len(s))
  <2>1. /\ 1 \in 1..(Len(s) + 1) /\ n \in (1 - 1)..Len(s) /\ Len(s) \in n..Len(s)
    BY <1>1
  <2> QED BY <1>1, <2>1, ConcatAdjacentSubSeq
<1> QED BY <1>2, <1>3, OwnElements

(* Three strings, joined in either order.                                   *)
LEMMA ThreeStrings ==
  ASSUME NEW s, NEW t, NEW u, IsSequence(s), IsSequence(t), IsSequence(u)
  PROVE  /\ (s \o t) \o u = s \o (t \o u)
         /\ IsSequence(s \o t)
         /\ <<>> \o s = s
<1> DEFINE S == {s[i] : i \in DOMAIN s} \cup {t[i] : i \in DOMAIN t}
                \cup {u[i] : i \in DOMAIN u}
<1>1. s \in Seq(S) /\ t \in Seq(S) /\ u \in Seq(S)
  BY DEF IsSequence
<1> HIDE DEF S
<1>2. (s \o t) \o u = s \o (t \o u)
  BY <1>1, ConcatAssociative
<1>3. s \o t \in Seq(S) /\ <<>> \o s = s
  BY <1>1
<1> QED BY <1>2, <1>3, OwnElements

(* What one call of a callback leaves, whichever it is: the string is over  *)
(* and the next report is due, or the rest of it is.                        *)
LEMMA ReportStep ==
  ASSUME TypeOK, LeftInv,
         NEW cb \in Callbacks \ {"complete"}, NEW n, Report(cb, n)
  PROVE  /\ left' # <<>> /\ Got \in Nat /\ Len(left') <= Len(Reports(sent))
         /\ Got + 1 \in 1..Len(Reports(sent)) /\ Reports(sent)[Got + 1].cb = cb
         /\ left[1].cb = cb /\ count > 0 /\ handler = 0 /\ cut' \in BOOLEAN
         /\ LeftInv' /\ IsSequence(Part(n)) /\ IsSequence(left[1].str)
         /\ \/ /\ Got' = Got + 1 /\ Part(n) = left[1].str
               /\ left'[1] = Reports(sent)[Got' + 1]
            \/ /\ Got' = Got /\ left'[1].cb = cb /\ IsSequence(left'[1].str)
               /\ Part(n) \o left'[1].str = left[1].str
               /\ cb \notin {"body", "value"} => cut'
               /\ cb = "value" /\ ~cut' => /\ Part(n) = left[1].str /\ left[1].str # <<>>
                                           /\ left'[1].str = <<>>
         /\ ~cut' /\ cb \notin {"body", "value"} =>
              ~cut /\ Part(n) = Reports(sent)[Got + 1].str
         /\ ~cut' => ~cut
<1> DEFINE R == Reports(sent)
           str == left[1].str
           X == {left[i] : i \in DOMAIN left}
<1>0. left # <<>> /\ left[1].cb = cb /\ Head(left) = left[1]
  <2>1. left # <<>> /\ Head(left).cb = cb
    BY DEF Report, Due
  <2>2. Head(left) = left[1]
    BY <2>1 DEF LeftInv, IsSequence
  <2> QED BY <2>1, <2>2
<1>a. PICK ends \in BOOLEAN :
        /\ n \in (IF str = <<>> THEN 0 ELSE 1)..Len(str)
        /\ n < Len(str) => ends
        /\ ends /\ n = Len(str) => n > 0 /\ cb \in {"url", "field", "value"}
        /\ left' = IF ends THEN [left EXCEPT ![1].str = SubSeq(str, n + 1, Len(str))]
                   ELSE Tail(left)
        /\ cut' = (cut \/ (ends /\ cb # (IF n < Len(str) THEN "body" ELSE "value")))
  BY <1>0 DEF Report
<1>1. /\ left # <<>> /\ left[1].cb = cb /\ Head(left) = left[1]
      /\ n \in (IF str = <<>> THEN 0 ELSE 1)..Len(str)
      /\ UNCHANGED <<sent, count, handler>>
  BY <1>0, <1>a DEF Report
<1>2. sent \in Requests /\ R \in Seq(ReportOf(sent)) /\ Len(R) \in Nat
  <2>1. sent \in Requests
    BY DEF TypeOK
  <2>2. R \in Seq(ReportOf(sent))
    BY <2>1, ReportsAt
  <2> HIDE DEF R
  <2> QED BY <2>1, <2>2
<1>3. left \in Seq(X) /\ Len(left) \in Nat /\ Len(left) >= 1 /\ Len(left) <= Len(R)
  BY <1>1 DEF LeftInv, IsSequence, TypeOK
<1>4. /\ count > 0 /\ handler = 0
      /\ left[1] \in [cb : Callbacks, str : {str}] /\ IsSequence(str)
      /\ cb = R[Got + 1].cb
      /\ cb # "body" /\ ~cut => str = R[Got + 1].str \/ (cb = "value" /\ str = <<>>)
      /\ \A i \in 2..Len(left) : left[i] = R[Got + i]
  BY <1>1 DEF LeftInv
<1>5. Got = Len(R) - Len(left) /\ Got \in Nat /\ Got + 1 \in 1..Len(R)
  BY <1>2, <1>3 DEF Got
<1>6. Got + 1 # Len(R)
  BY <1>2, <1>4, <1>5, Places
<1>7. Len(left) >= 2
  BY <1>2, <1>3, <1>5, <1>6
<1>8. Len(str) \in Nat
  BY <1>4 DEF IsSequence
<1>9. n \in 0..Len(str) /\ Part(n) = SubSeq(str, 1, n)
  BY <1>1, <1>8 DEF Part
<1>10. cut \in BOOLEAN
  BY DEF TypeOK
<1> HIDE DEF R, X
<1>11. CASE ~ends
  <2>0. n = Len(str)
    BY <1>8, <1>9, <1>a, <1>11
  <2>1. left' = Tail(left)
    BY <1>a, <1>11
  <2>2. /\ left' \in Seq(X) /\ Len(left') = Len(left) - 1 /\ left' # <<>>
        /\ \A i \in 1..Len(left') : left'[i] = left[i + 1]
    <3>1. /\ Tail(left) \in Seq(X) /\ Len(Tail(left)) = Len(left) - 1
          /\ \A i \in 1..Len(Tail(left)) : Tail(left)[i] = left[i + 1]
      BY <1>1, <1>3, HeadTailProperties
    <3>2. Tail(left) # <<>>
      <4>1. Len(Tail(left)) # 0 /\ Len(<<>>) = 0
        BY <1>3, <1>7, <3>1
      <4> QED BY <4>1, Zenon
    <3> QED BY <2>1, <3>1, <3>2, Zenon
  <2>3. Reports(sent)' = R /\ Got' = Got + 1
    <3>1. Reports(sent)' = R
      BY <1>1 DEF R
    <3>2. Got' = Len(R) - Len(left')
      BY <3>1 DEF Got
    <3> QED BY <1>2, <1>3, <1>5, <2>2, <3>1, <3>2
  <2>4. Part(n) = str
    BY <1>4, <1>9, <2>0, Halves
  <2>5. \A i \in 1..Len(left') : left'[i] = R[Got' + i]
    <3> SUFFICES ASSUME NEW i \in 1..Len(left') PROVE left'[i] = R[Got' + i]
      OBVIOUS
    <3>1. i + 1 \in 2..Len(left) /\ Got + (i + 1) = Got' + i
      BY <1>3, <1>5, <2>2, <2>3
    <3> QED BY <1>4, <2>2, <3>1
  <2>6. left'[1] = R[Got' + 1] /\ Got' + 1 \in 1..Len(R)
    BY <1>2, <1>3, <1>5, <1>7, <2>2, <2>3, <2>5
  <2>7. R[Got' + 1] \in ReportOf(sent) /\ IsSequence(R[Got' + 1].str)
    BY <1>2, <2>6, Places DEF R
  <2>8. LeftInv'
    <3>1. IsSequence(left')
      BY <2>2, OwnElements
    <3>2. left'[1] \in [cb : Callbacks, str : {left'[1].str}]
      BY <2>6, <2>7 DEF ReportOf, Callbacks
    <3>3. \A i \in 2..Len(left') : left'[i] = R[Got' + i]
      BY <2>2, <2>5, <1>3
    <3> QED BY <1>1, <1>4, <2>3, <2>6, <2>7, <3>1, <3>2, <3>3 DEF LeftInv
  <2>9. cut' = cut /\ Len(left') <= Len(R)
    BY <1>a, <1>3, <1>10, <1>11, <2>2
  <2>10. IsSequence(Part(n))
    BY <1>4, <2>4
  <2> QED BY <1>1, <1>4, <1>5, <1>10, <2>2, <2>3, <2>4, <2>6, <2>8, <2>9, <2>10 DEF R
<1>12. CASE ends
  <2> DEFINE rest == SubSeq(str, n + 1, Len(str))
             new == [left[1] EXCEPT !.str = rest]
  <2>1. left' = [left EXCEPT ![1] = new]
    BY <1>a, <1>12
  <2>2. new \in [cb : Callbacks, str : {rest}] /\ new.cb = cb /\ new.str = rest
    BY <1>1, <1>4
  <2>3. /\ IsSequence(Part(n)) /\ IsSequence(rest) /\ Part(n) \o rest = str
    <3> HIDE DEF str
    <3>1. /\ IsSequence(SubSeq(str, 1, n)) /\ IsSequence(rest)
          /\ SubSeq(str, 1, n) \o rest = str
      BY <1>4, <1>9, Halves
    <3> QED BY <1>9, <3>1
  <2>3a. n = Len(str) => Part(n) = str /\ rest = <<>> /\ str # <<>>
    <3> SUFFICES ASSUME n = Len(str) PROVE Part(n) = str /\ rest = <<>> /\ str # <<>>
      OBVIOUS
    <3>1. n > 0
      BY <1>a, <1>12
    <3>2. Part(n) = str
      BY <1>4, <1>9, Halves
    <3>3. rest = <<>>
      BY <1>4, <1>8 DEF IsSequence
    <3>4. Len(<<>>) = 0
      OBVIOUS
    <3> QED BY <3>1, <3>2, <3>3, <3>4
  <2> HIDE DEF rest, new
  <2>4. /\ left' \in Seq(X \cup {new}) /\ Len(left') = Len(left) /\ left'[1] = new
        /\ \A i \in 2..Len(left) : left'[i] = left[i]
    BY <1>3, <2>1
  <2>5. Reports(sent)' = R /\ Got' = Got /\ left' # <<>>
    BY <1>1, <1>3, <2>4 DEF Got, R
  <2>6. /\ cb \notin {"body", "value"} => cut'
        /\ cb = "value" /\ ~cut' => Part(n) = str /\ str # <<>> /\ rest = <<>>
    <3>1. CASE n < Len(str)
      BY <1>a, <1>12, <3>1
    <3>2. CASE n = Len(str)
      BY <1>a, <1>12, <2>3a, <3>2
    <3> QED BY <1>8, <1>9, <3>1, <3>2
  <2>7. cut' \in BOOLEAN /\ (~cut' => ~cut)
    BY <1>a, <1>10
  <2>8. LeftInv'
    <3>1. IsSequence(left')
      BY <2>4, OwnElements
    <3> QED BY <1>1, <1>4, <2>2, <2>3, <2>4, <2>5, <2>6, <3>1 DEF LeftInv
  <2> QED BY <1>1, <1>3, <1>4, <1>5, <2>2, <2>3, <2>4, <2>5, <2>6, <2>7, <2>8 DEF R
<1> QED BY <1>11, <1>12

(* What a callback other than onReqMessageComplete keeps, whatever it does  *)
(* with its string.                                                         *)
LEMMA ReportKeeps ==
  ASSUME RequestInv, NEW cb \in Callbacks \ {"complete"}, NEW n, Report(cb, n),
         method' \in Methods, url' = url \/ cb = "url"
  PROVE  /\ TypeOK' /\ LeftInv' /\ KeepInv' /\ RoutesInv' /\ EarlyInv'
         /\ QueryFresh' /\ MatchInv' /\ ParamsAllButLast'
<1>1. /\ left' # <<>> /\ Got \in Nat /\ Len(left') <= Len(Reports(sent))
      /\ left[1].cb = cb /\ count > 0 /\ handler = 0 /\ cut' \in BOOLEAN
      /\ LeftInv' /\ (Got' = Got + 1 \/ Got' = Got)
  BY ReportStep DEF RequestInv
<1>2. UNCHANGED <<routes, params, queryParams, parsed, keepAlive, handler, early,
                  sent, count>> /\ Due(cb)
  BY DEF Report
<1>3. TypeOK'
  <2>1. \A m \in Methods : Len(routes[m]) \in Nat
    BY DEF RequestInv, RoutesInv, IsSequence
  <2>2. handler' \in 0..Len(routes'[method'])
    BY <1>1, <1>2, <2>1
  <2>3. Reports(sent)' = Reports(sent)
    BY <1>2
  <2> QED BY <1>1, <1>2, <2>2, <2>3 DEF RequestInv, TypeOK
<1>4. KeepInv' /\ MatchInv' /\ ParamsAllButLast'
  BY <1>1 DEF KeepInv, MatchInv, ParamsAllButLast, Handled
<1>5. RoutesInv'
  BY <1>2 DEF RequestInv, RoutesInv
<1>6. Due("url")' => Due("url")
  <2> SUFFICES ASSUME Due("url")' PROVE cb = "url"
    BY <1>2
  <2>1. IsSequence(left) /\ IsSequence(left')
    BY <1>1 DEF RequestInv, LeftInv
  <2>2. left'[1].cb = "url"
    BY <1>1, <2>1 DEF Due, IsSequence
  <2>3. Reports(sent)[Got' + 1].cb = "url" /\ sent \in Requests
    BY <1>1, <1>2, <2>2 DEF LeftInv, RequestInv, TypeOK
  <2>4. Len(Reports(sent)) \in Nat
    <3>1. Reports(sent) \in Seq(ReportOf(sent))
      BY <2>3, ReportsAt
    <3> QED BY <3>1
  <2>5. Got' = Len(Reports(sent)) - Len(left') /\ Len(left') \in Nat /\ Len(left') > 0
    BY <1>1, <1>2, <2>1 DEF Got, IsSequence
  <2>6. Got' + 1 \in 1..Len(Reports(sent))
    BY <1>1, <2>4, <2>5
  <2>7. Got' + 1 = 1
    BY <2>3, <2>6, Places
  <2>8. Got = Got'
    BY <1>1, <2>5, <2>7
  <2>9. left[1].cb = Reports(sent)[Got + 1].cb
    BY <1>2 DEF RequestInv, LeftInv, Due
  <2> QED BY <1>1, <2>3, <2>8, <2>9
<1>7. EarlyInv'
  BY <1>2, <1>6 DEF RequestInv, EarlyInv
<1>8. QueryFresh'
  <2>1. CASE url' = url
    BY <1>2, <2>1 DEF RequestInv, QueryFresh
  <2>2. CASE cb = "url"
    BY <1>2, <2>2 DEF RequestInv, EarlyInv, QueryFresh
  <2> QED BY <2>1, <2>2
<1> QED BY <1>1, <1>3, <1>4, <1>5, <1>7, <1>8

(* A callback that is not given a part of the body.                         *)
LEMMA BodyKept ==
  ASSUME RequestInv, NEW cb \in Callbacks \ {"complete", "body"}, NEW n, Report(cb, n),
         body' = body
  PROVE  BodyInv'
<1> DEFINE R == Reports(sent)
           H == Len(sent.headers)
<1>1. /\ Got \in Nat /\ Got + 1 \in 1..Len(R) /\ R[Got + 1].cb = cb
      /\ (Got' = Got + 1 /\ left'[1] = R[Got' + 1]) \/ Got' = Got
      /\ count > 0 /\ sent \in Requests
  BY ReportStep DEF RequestInv, TypeOK
<1>2. sent' = sent /\ count' = count
  BY DEF Report
<1>3. H \in Nat /\ (sent.body # <<>> => R[2 * H + 3] = [cb |-> "body", str |-> sent.body])
      /\ IsSequence(sent.body)
  BY <1>1, ReportsAt, RequestsAssumption
<1>4. ~(Got + 1 = 2 * H + 3 /\ sent.body # <<>>)
  BY <1>1, Places
<1>5. /\ IsSequence(body)
      /\ sent.body = <<>> \/ Got < 2 * H + 2 => body = <<>>
      /\ Got > 2 * H + 2 => body = sent.body
  BY <1>1 DEF RequestInv, BodyInv
<1> HIDE DEF R, H
<1>6. sent.body = <<>> \/ Got' < 2 * H + 2 => body = <<>>
  BY <1>1, <1>3, <1>5
<1>7. Got' > 2 * H + 2 => body = sent.body
  BY <1>1, <1>3, <1>4, <1>5
<1>8. ASSUME sent.body # <<>>, Got' = 2 * H + 2 PROVE body \o left'[1].str = sent.body
  <2>1. Got' = Got + 1
    BY <1>1, <1>3, <1>4, <1>8
  <2>2. body = <<>>
    BY <1>1, <1>3, <1>5, <1>8, <2>1
  <2>3. left'[1] = R[2 * H + 3]
    BY <1>1, <1>3, <1>8, <2>1
  <2>4. left'[1].str = sent.body
    BY <1>3, <1>8, <2>3
  <2> QED BY <1>3, <2>2, <2>4, ThreeStrings
<1> QED BY <1>1, <1>2, <1>5, <1>6, <1>7, <1>8 DEF BodyInv, H

(* onReqBody appends the part.                                              *)
LEMMA BodyGiven ==
  ASSUME RequestInv, NEW n, Report("body", n), body' = body \o Part(n)
  PROVE  BodyInv'
<1> DEFINE R == Reports(sent)
           H == Len(sent.headers)
<1>1. /\ Got \in Nat /\ Got + 1 \in 1..Len(R) /\ R[Got + 1].cb = "body"
      /\ count > 0 /\ sent \in Requests
      /\ IsSequence(Part(n))
      /\ \/ Got' = Got + 1 /\ Part(n) = left[1].str
         \/ /\ Got' = Got /\ IsSequence(left'[1].str)
            /\ Part(n) \o left'[1].str = left[1].str
  <2>1. "body" \in Callbacks \ {"complete"}
    BY DEF Callbacks
  <2> QED BY <2>1, ReportStep DEF RequestInv, TypeOK
<1>2. sent' = sent /\ count' = count
  BY DEF Report
<1>3. H \in Nat
  BY <1>1, ReportsAt
<1>4. Got + 1 = 2 * H + 3 /\ sent.body # <<>>
  BY <1>1, Places
<1>5. Got = 2 * H + 2
  <2>1. Got \in Nat /\ Got + 1 = 2 * H + 3
    BY <1>1, <1>4
  <2> HIDE DEF H, R
  <2> QED BY <2>1, <1>3
<1>6. IsSequence(body) /\ body \o left[1].str = sent.body
  BY <1>1, <1>4, <1>5 DEF RequestInv, BodyInv
<1>7. IsSequence(body')
  BY <1>1, <1>6, ThreeStrings
<1> HIDE DEF R, H
<1>8. CASE Got' = Got + 1 /\ Part(n) = left[1].str
  <2>1. Got' > 2 * H + 2 /\ ~(Got' < 2 * H + 2) /\ Got' # 2 * H + 2
    BY <1>3, <1>5, <1>8
  <2>2. body' = sent.body
    BY <1>6, <1>8
  <2> QED BY <1>2, <1>4, <1>7, <2>1, <2>2 DEF BodyInv, H
<1>9. CASE Got' = Got /\ IsSequence(left'[1].str) /\ Part(n) \o left'[1].str = left[1].str
  <2>1. Got' = 2 * H + 2 /\ ~(Got' < 2 * H + 2) /\ ~(Got' > 2 * H + 2)
    BY <1>3, <1>5, <1>9
  <2>2. body' \o left'[1].str = body \o (Part(n) \o left'[1].str)
    <3> DEFINE part == Part(n)
               rest == left'[1].str
    <3>1. IsSequence(body) /\ IsSequence(part) /\ IsSequence(rest)
      BY <1>1, <1>6, <1>9
    <3> HIDE DEF part, rest
    <3>2. (body \o part) \o rest = body \o (part \o rest)
      BY <3>1, ThreeStrings
    <3> QED BY <3>2 DEF part, rest
  <2>3. body' \o left'[1].str = sent.body
    BY <1>6, <1>9, <2>2
  <2> QED BY <1>2, <1>4, <1>7, <2>1, <2>3 DEF BodyInv, H
<1> QED BY <1>1, <1>8, <1>9

-----------------------------------------------------------------------------
(* The value of a key is that of the first header that has it.              *)
LEMMA FirstValueOf ==
  ASSUME NEW hs, NEW m \in Nat, NEW i \in 1..m,
         \A j \in 1..(i - 1) : Lower(hs[j].key) # Lower(hs[i].key)
  PROVE  /\ Lower(hs[i].key) \in DOMAIN FirstValues(hs, m)
         /\ FirstValues(hs, m)[Lower(hs[i].key)] = hs[i].value
<1> DEFINE k == Lower(hs[i].key)
           First(x) == x \in 1..m /\ Lower(hs[x].key) = k
                       /\ \A j \in 1..(x - 1) : Lower(hs[j].key) # k
           c == CHOOSE x \in 1..m : /\ Lower(hs[x].key) = k
                                    /\ \A j \in 1..(x - 1) : Lower(hs[j].key) # k
<1>1. First(i)
  OBVIOUS
<1>2. First(c)
  BY <1>1
<1>3. ASSUME NEW x, First(x) PROVE x = i
  <2>1. x \in 1..m /\ Lower(hs[x].key) = k
        /\ \A j \in 1..(x - 1) : Lower(hs[j].key) # k
    BY <1>3
  <2> HIDE DEF k
  <2>2. x <= i
    <3>1. ~(i \in 1..(x - 1))
      BY <2>1 DEF k
    <3> QED BY <2>1, <3>1
  <2>3. i <= x
    <3>1. ~(x \in 1..(i - 1))
      BY <2>1 DEF k
    <3> QED BY <2>1, <3>1
  <2> QED BY <2>1, <2>2, <2>3
<1>4. c = i
  BY <1>2, <1>3
<1>5. k \in {Lower(hs[x].key) : x \in 1..m}
  OBVIOUS
<1> HIDE DEF First
<1> QED BY <1>4, <1>5 DEF FirstValues

(* Every key of the map has such a header.                                  *)
LEMMA FirstExists ==
  ASSUME NEW hs, NEW m \in Nat, NEW k \in DOMAIN FirstValues(hs, m)
  PROVE  \E i \in 1..m : /\ Lower(hs[i].key) = k
                         /\ \A j \in 1..(i - 1) : Lower(hs[j].key) # k
<1> DEFINE B == {i \in 1..m : Lower(hs[i].key) = k}
<1>1. B # {}
  BY DEF FirstValues
<1>2. B \in SUBSET Nat
  OBVIOUS
<1>3. PICK i \in B : \A j \in B : i <= j
  BY <1>1, <1>2, Least
<1>4. ASSUME NEW j \in 1..(i - 1), Lower(hs[j].key) = k PROVE FALSE
  <2>1. j \in 1..m /\ ~(i <= j)
    BY <1>3
  <2> QED BY <1>3, <1>4, <2>1
<1> QED BY <1>3, <1>4

(* Of no headers there is nothing, and insert() adds the next one.          *)
LEMMA FirstValuesStep ==
  ASSUME NEW hs, NEW m \in Nat
  PROVE  /\ FirstValues(hs, 0) = EmptyMap
         /\ Insert(FirstValues(hs, m), Lower(hs[m + 1].key), hs[m + 1].value)
              = FirstValues(hs, m + 1)
<1>1. FirstValues(hs, 0) = EmptyMap
  <2>1. {Lower(hs[i].key) : i \in 1..0} = {}
    OBVIOUS
  <2> QED BY <2>1 DEF FirstValues, EmptyMap
<1> DEFINE key == Lower(hs[m + 1].key)
           f == FirstValues(hs, m)
           g == FirstValues(hs, m + 1)
           h == Insert(f, key, hs[m + 1].value)
<1>2. DOMAIN f = {Lower(hs[i].key) : i \in 1..m}
      /\ DOMAIN g = {Lower(hs[i].key) : i \in 1..(m + 1)}
  BY DEF FirstValues
<1>3. DOMAIN g = DOMAIN f \cup {key}
  <2>1. 1..(m + 1) = 1..m \cup {m + 1}
    OBVIOUS
  <2> QED BY <1>2, <2>1
<1>4. DOMAIN h = DOMAIN f \cup {key}
  BY DEF Insert
<1>5. ASSUME NEW k \in DOMAIN f PROVE h[k] = g[k]
  <2>1. PICK i \in 1..m : Lower(hs[i].key) = k /\ \A j \in 1..(i - 1) : Lower(hs[j].key) # k
    BY <1>5, FirstExists
  <2>2. m + 1 \in Nat /\ i \in 1..(m + 1)
    OBVIOUS
  <2>3. f[k] = hs[i].value
    BY <2>1, FirstValueOf
  <2>4. g[k] = hs[i].value
    BY <2>1, <2>2, FirstValueOf
  <2>5. h[k] = f[k]
    BY <1>5 DEF Insert
  <2> QED BY <2>3, <2>4, <2>5
<1>6. ASSUME key \notin DOMAIN f PROVE h[key] = g[key]
  <2>1. m + 1 \in Nat /\ m + 1 \in 1..(m + 1) /\ (m + 1) - 1 = m
    OBVIOUS
  <2>2. \A j \in 1..((m + 1) - 1) : Lower(hs[j].key) # key
    BY <1>2, <1>6, <2>1
  <2>3. g[key] = hs[m + 1].value
    BY <2>1, <2>2, FirstValueOf
  <2>4. h[key] = hs[m + 1].value
    BY <1>6 DEF Insert
  <2> QED BY <2>3, <2>4
<1>7. \A k \in DOMAIN h : h[k] = g[k]
  <2> HIDE DEF f, g, h, key
  <2> QED BY <1>4, <1>5, <1>6
<1>8. g = [k \in DOMAIN g |-> g[k]] /\ h = [k \in DOMAIN h |-> h[k]]
  BY DEF FirstValues, Insert
<1>9. g = h
  <2> HIDE DEF f, g, h, key
  <2> QED BY <1>3, <1>4, <1>7, <1>8
<1> QED BY <1>1, <1>9

-----------------------------------------------------------------------------
(* Before any request nothing is left and no query is parsed.               *)
LEMMA RequestInit == Init => RequestInv
<1> SUFFICES ASSUME Init PROVE RequestInv
  OBVIOUS
<1>1. /\ sent \in Requests /\ left = <<>> /\ count = 0 /\ handler = 0
      /\ routes = [m \in Methods |-> <<>>] /\ parsed = FALSE /\ body = <<>>
  BY DEF Init
<1>2. IsSequence(<<>>) /\ Len(<<>>) = 0
  BY DEF IsSequence
<1>3. TypeOK
  <2>1. Reports(sent) \in Seq(ReportOf(sent))
    BY <1>1, ReportsAt
  <2>2. Len(left) <= Len(Reports(sent))
    BY <1>1, <1>2, <2>1
  <2>3. method \in Methods /\ DOMAIN routes = Methods
    BY <1>1 DEF Init
  <2>4. Len(routes[method]) = 0
    BY <1>1, <1>2, <2>3
  <2>5. handler \in 0..Len(routes[method]) /\ count \in 0..MaxRequests
    BY <1>1, <2>4, RequestBoundsAssumption
  <2>6. /\ parsed \in BOOLEAN /\ keepAlive \in BOOLEAN
        /\ cut \in BOOLEAN /\ early \in BOOLEAN
    BY DEF Init
  <2> QED BY <1>1, <2>2, <2>3, <2>5, <2>6 DEF TypeOK
<1>4. LeftInv /\ BodyInv /\ FieldsInv
  BY <1>1, <1>2 DEF LeftInv, BodyInv, FieldsInv
<1>5. KeepInv /\ MatchInv /\ ParamsAllButLast
  BY <1>1 DEF KeepInv, MatchInv, ParamsAllButLast, Handled
<1>6. RoutesInv
  BY <1>1, <1>2 DEF RoutesInv
<1>7. EarlyInv /\ QueryFresh
  BY <1>1 DEF EarlyInv, QueryFresh
<1> QED BY <1>3, <1>4, <1>5, <1>6, <1>7 DEF RequestInv

(* addRoute appends a route of the template; nothing has been handled yet.  *)
LEMMA AddRouteInv ==
  ASSUME RequestInv, NEW t \in Templates, AddRoute(t)
  PROVE  RequestInv'
<1> DEFINE new == ParsePathToRegex(t.parts)
<1>1. /\ count = 0 /\ left = <<>>
      /\ routes' = [routes EXCEPT ![t.method] = Append(@, new)]
      /\ UNCHANGED <<fields, params, queryParams, parsed, tmpKey, keepAlive, left,
                     handler, early, history>>
  BY DEF AddRoute
<1> HIDE DEF new
<1>2. UNCHANGED <<url, headers, body, method, sent, cut, count>>
  BY <1>1 DEF fields, history
<1>3. DOMAIN routes = Methods /\ t.method \in Methods
  BY TemplatesAssumption DEF RequestInv, TypeOK, RouteMethods
<1>4. ASSUME NEW m \in Methods
      PROVE  /\ IsSequence(routes'[m])
             /\ Len(routes'[m]) >= Len(routes[m]) /\ Len(routes[m]) \in Nat
             /\ Len(routes'[m]) \in Nat
             /\ \A i \in 1..Len(routes'[m]) :
                  \E u \in Templates : routes'[m][i] = ParsePathToRegex(u.parts)
  <2>1. /\ IsSequence(routes[m])
        /\ \A i \in 1..Len(routes[m]) :
             \E u \in Templates : routes[m][i] = ParsePathToRegex(u.parts)
    BY DEF RequestInv, RoutesInv
  <2>2. Len(routes[m]) \in Nat
    BY <2>1 DEF IsSequence
  <2>3. CASE m # t.method
    <3>1. routes'[m] = routes[m]
      BY <1>1, <1>3, <2>3
    <3> QED BY <2>1, <2>2, <3>1
  <2>4. CASE m = t.method
    <3> DEFINE X == {routes[m][i] : i \in DOMAIN routes[m]} \cup {new}
               old == routes[m]
    <3>1. routes'[m] = Append(old, new)
      BY <1>1, <1>3, <2>4
    <3>2. old \in Seq(X) /\ new \in X
      BY <2>1 DEF IsSequence
    <3> HIDE DEF X, old
    <3>3. /\ Append(old, new) \in Seq(X) /\ Len(Append(old, new)) = Len(old) + 1
          /\ Append(old, new)[Len(old) + 1] = new
          /\ \A i \in 1..Len(old) : Append(old, new)[i] = old[i]
      BY <3>2, AppendProperties
    <3>4. IsSequence(routes'[m])
      BY <3>1, <3>3, OwnElements
    <3>5. ASSUME NEW i \in 1..Len(routes'[m])
          PROVE  \E u \in Templates : routes'[m][i] = ParsePathToRegex(u.parts)
      <4>1. i \in 1..Len(old) \/ i = Len(old) + 1
        BY <2>2, <3>1, <3>3, <3>5 DEF old
      <4>2. CASE i \in 1..Len(old)
        BY <2>1, <3>1, <3>3, <4>2 DEF old
      <4>3. CASE i = Len(old) + 1
        BY <3>1, <3>3, <4>3 DEF new
      <4> QED BY <4>1, <4>2, <4>3
    <3>6. Len(routes'[m]) = Len(routes[m]) + 1
      BY <3>1, <3>3 DEF old
    <3> QED BY <2>2, <3>4, <3>5, <3>6
  <2> QED BY <2>3, <2>4
<1>5. RoutesInv'
  BY <1>4 DEF RoutesInv
<1>6. TypeOK'
  <2>1. DOMAIN routes' = Methods
    BY <1>1, <1>3
  <2>2. method \in Methods /\ handler \in 0..Len(routes[method])
    BY DEF RequestInv, TypeOK
  <2>3. handler \in 0..Len(routes'[method])
    BY <1>4, <2>2
  <2>4. Reports(sent)' = Reports(sent)
    BY <1>2
  <2> QED BY <1>1, <1>2, <2>1, <2>3, <2>4 DEF RequestInv, TypeOK
<1>7. LeftInv' /\ BodyInv' /\ FieldsInv'
  <2>1. Got' = Got /\ Given' = Given
    BY <1>1, <1>2 DEF Got, Given, ValueOver
  <2> QED BY <1>1, <1>2, <2>1 DEF RequestInv, LeftInv, BodyInv, FieldsInv
<1>8. KeepInv' /\ MatchInv' /\ ParamsAllButLast'
  BY <1>1, <1>2 DEF KeepInv, MatchInv, ParamsAllButLast, Handled
<1>9. EarlyInv' /\ QueryFresh'
  BY <1>1, <1>2 DEF RequestInv, EarlyInv, QueryFresh, Due
<1> QED BY <1>5, <1>6, <1>7, <1>8, <1>9 DEF RequestInv

(* onReqMessageBegin: everything is still to come, and nothing is left of   *)
(* the request before but method, params and the parsed query, which is     *)
(* marked as none.                                                          *)
LEMMA MessageBeginInv ==
  ASSUME RequestInv, NEW r \in Requests, OnReqMessageBegin(r)
  PROVE  RequestInv'
<1> DEFINE R == Reports(r)
           H == Len(r.headers)
<1>1. /\ left = <<>> /\ count < MaxRequests /\ headers' = EmptyMap /\ body' = <<>>
      /\ parsed' = FALSE /\ left' = R /\ sent' = r /\ count' = count + 1
      /\ handler' = 0 /\ cut' = FALSE /\ early' = FALSE
      /\ UNCHANGED <<routes, method, params, queryParams, tmpKey, keepAlive>>
  BY DEF OnReqMessageBegin
<1>2. /\ R \in Seq(ReportOf(r)) /\ H \in Nat
      /\ Len(R) = IF r.body = <<>> THEN 2 * H + 3 ELSE 2 * H + 4
  BY ReportsAt
<1>3. /\ \A i \in 1..Len(R) : R[i] \in ReportOf(r)
      /\ Len(R) \in Nat /\ Len(R) >= 1 /\ R # <<>>
  <2> HIDE DEF R, H
  <2> QED BY <1>2
<1>4. \A i \in 1..Len(R) : IsSequence(R[i].str)
  BY Places
<1>5. count \in Nat /\ method \in Methods
  BY RequestBoundsAssumption DEF RequestInv, TypeOK
<1>6. Reports(sent)' = R /\ Got' = 0
  <2>1. Reports(sent)' = R
    BY <1>1
  <2>2. Got' = Len(R) - Len(R)
    BY <1>1, <2>1 DEF Got
  <2> HIDE DEF R
  <2> QED BY <1>3, <2>1, <2>2
<1>7. TypeOK'
  <2>1. count' \in 0..MaxRequests
    BY <1>1, <1>5, RequestBoundsAssumption
  <2>2. Len(routes[method]) \in Nat
    BY <1>5 DEF RequestInv, RoutesInv, IsSequence
  <2>3. handler' \in 0..Len(routes[method])
    BY <1>1, <2>2
  <2>4. Len(left') <= Len(Reports(sent)')
    <3> HIDE DEF R
    <3> QED BY <1>1, <1>3, <1>6
  <2> QED BY <1>1, <2>1, <2>3, <2>4 DEF RequestInv, TypeOK
<1>8. LeftInv'
  <2>1. IsSequence(left')
    BY <1>1, <1>2, OwnElements
  <2> HIDE DEF R, H
  <2>2. left'[1] = R[1] /\ R[1] \in ReportOf(r) /\ IsSequence(R[1].str)
    BY <1>1, <1>3, <1>4
  <2>3. left'[1] \in [cb : Callbacks, str : {left'[1].str}]
    BY <2>2 DEF ReportOf, Callbacks
  <2>4. \A i \in 2..Len(left') : left'[i] = R[Got' + i]
    BY <1>1, <1>6
  <2>5. Got' + 1 = 1 /\ count' > 0
    BY <1>1, <1>5, <1>6
  <2> QED BY <1>1, <1>6, <2>1, <2>2, <2>3, <2>4, <2>5 DEF LeftInv
<1>9. BodyInv'
  <2>1. IsSequence(<<>>)
    BY DEF IsSequence
  <2> HIDE DEF R, H
  <2>2. Got' < 2 * H + 2 /\ ~(Got' > 2 * H + 2) /\ Got' # 2 * H + 2
    BY <1>2, <1>6
  <2> QED BY <1>1, <2>1, <2>2 DEF BodyInv, H
<1>10. FieldsInv'
  <2>1. FirstValues(r.headers, 0) = EmptyMap
    BY FirstValuesStep
  <2> HIDE DEF R, H
  <2>2. \A j \in 1..H : Got' # 2 * j
    BY <1>2, <1>6
  <2>a. Given' = Got'
    <3>1. left'[1] = R[1] /\ R[1] = [cb |-> "url", str |-> r.url]
      BY <1>1, ReportsAt DEF R
    <3> QED BY <3>1 DEF Given, ValueOver
  <2>3. \A j \in 0..H : (Given' >= 2 * j + 1 \/ j = 0) => j = 0
    BY <1>2, <1>6, <2>a
  <2>4. ~(Got' > 0) /\ ~(Got' > 2 * H + 1)
    BY <1>2, <1>6
  <2> QED BY <1>1, <2>1, <2>2, <2>3, <2>4 DEF FieldsInv, H
<1>11. KeepInv' /\ MatchInv' /\ ParamsAllButLast'
  BY <1>1, <1>3 DEF KeepInv, MatchInv, ParamsAllButLast, Handled
<1>12. RoutesInv' /\ EarlyInv' /\ QueryFresh'
  BY <1>1 DEF RequestInv, RoutesInv, EarlyInv, QueryFresh
<1> QED BY <1>7, <1>8, <1>9, <1>10, <1>11, <1>12 DEF RequestInv

(* The places that a count of reports stands for in FieldsInv.              *)
LEMMA HeadersAt ==
  ASSUME NEW H \in Nat, NEW m \in 1..H, NEW j \in 0..H
  PROVE  /\ (2 * m >= 2 * j + 1 \/ j = 0) /\ (2 * m <= 2 * j + 2 \/ j = H) => j = m - 1
         /\ (2 * m + 1 >= 2 * j + 1 \/ j = 0) /\ (2 * m + 1 <= 2 * j + 2 \/ j = H) => j = m
OBVIOUS

(* The facts that the callbacks share but those of values and the body: one *)
(* was given all of its string or the request is cut.                       *)
LEMMA WholeReport ==
  ASSUME RequestInv, NEW cb \in Callbacks \ {"complete", "body", "value"}, NEW n,
         Report(cb, n)
  PROVE  /\ Got \in Nat /\ Got + 1 \in 1..Len(Reports(sent))
         /\ Reports(sent)[Got + 1].cb = cb
         /\ sent \in Requests /\ sent' = sent /\ count' = count /\ count > 0
         /\ Len(sent.headers) \in Nat
         /\ Given = Got
         /\ ~cut' => /\ ~cut /\ Got' = Got + 1 /\ Given' = Got'
                     /\ Part(n) = Reports(sent)[Got + 1].str
<1>1. /\ Got \in Nat /\ Got + 1 \in 1..Len(Reports(sent))
      /\ Reports(sent)[Got + 1].cb = cb /\ count > 0
      /\ ~cut' => ~cut /\ Part(n) = Reports(sent)[Got + 1].str
      /\ (Got' = Got + 1 /\ left'[1] = Reports(sent)[Got' + 1]) \/ cut'
      /\ left[1].cb = cb
  BY ReportStep DEF RequestInv
<1>2. sent \in Requests /\ sent' = sent /\ count' = count
  BY DEF RequestInv, TypeOK, Report
<1>3. Len(sent.headers) \in Nat
  BY <1>2, ReportsAt
<1>4. Given = Got /\ (~cut' => Given' = Got')
  <2>1. ~ValueOver
    BY <1>1 DEF ValueOver
  <2>2. ~cut' => ~ValueOver'
    BY <1>1, <1>2 DEF ValueOver
  <2> QED BY <2>1, <2>2 DEF Given
<1> QED BY <1>1, <1>2, <1>3, <1>4

(* onReqURL: a url that comes whole is the one sent.                        *)
LEMMA URLInv ==
  ASSUME RequestInv, NEW n, OnReqURL(n)
  PROVE  RequestInv'
<1> DEFINE R == Reports(sent)
           H == Len(sent.headers)
<1>1. Report("url", n) /\ url' = Part(n) /\ UNCHANGED <<headers, body, method, tmpKey>>
  BY DEF OnReqURL
<1>2. "url" \in Callbacks \ {"complete", "body", "value"} /\ method \in Methods
  BY DEF Callbacks, RequestInv, TypeOK
<1>3. /\ TypeOK' /\ LeftInv' /\ KeepInv' /\ RoutesInv' /\ EarlyInv'
      /\ QueryFresh' /\ MatchInv' /\ ParamsAllButLast'
  BY <1>1, <1>2, ReportKeeps
<1>4. BodyInv'
  BY <1>1, <1>2, BodyKept
<1>5. /\ Got \in Nat /\ Got + 1 \in 1..Len(R) /\ R[Got + 1].cb = "url"
      /\ sent \in Requests /\ sent' = sent /\ count' = count /\ count > 0 /\ H \in Nat
      /\ Given = Got /\ (~cut' => ~cut /\ Got' = Got + 1 /\ Given' = Got' /\ Part(n) = R[Got + 1].str)
  BY <1>1, <1>2, WholeReport
<1>6. Got + 1 = 1 /\ R[1].str = sent.url
  <2>1. Got + 1 = 1
    BY <1>5, Places
  <2>2. R[1] = [cb |-> "url", str |-> sent.url]
    BY <1>5, ReportsAt
  <2> HIDE DEF R
  <2> QED BY <2>1, <2>2
<1>7. FieldsInv'
  <2> SUFFICES ASSUME ~cut' PROVE FieldsInv'
    BY DEF FieldsInv
  <2>1. headers = FirstValues(sent.headers, 0)
    <3>1. Got = 0 /\ 0 \in 0..H /\ Given <= 2 * 0 + 2
      <4> HIDE DEF H, R
      <4> QED BY <1>5, <1>6
    <3> QED BY <1>5, <3>1 DEF RequestInv, FieldsInv
  <2> HIDE DEF H, R
  <2>2. Got' = 1 /\ url' = sent.url
    BY <1>1, <1>5, <1>6
  <2>3. /\ \A j \in 1..H : Got' # 2 * j
        /\ \A j \in 0..H : (Given' >= 2 * j + 1 \/ j = 0) => j = 0
        /\ ~(Got' > 2 * H + 1)
    BY <1>5, <2>2
  <2> QED BY <1>1, <1>5, <2>1, <2>2, <2>3 DEF FieldsInv, H
<1> QED BY <1>3, <1>4, <1>7 DEF RequestInv

(* onReqHeaderField: the key is kept in lower case.                         *)
LEMMA HeaderFieldInv ==
  ASSUME RequestInv, NEW n, OnReqHeaderField(n)
  PROVE  RequestInv'
<1> DEFINE R == Reports(sent)
           hs == sent.headers
           H == Len(sent.headers)
<1>1. Report("field", n) /\ tmpKey' = Lower(Part(n)) /\ UNCHANGED <<url, headers, body, method>>
  BY DEF OnReqHeaderField, fields
<1>2. "field" \in Callbacks \ {"complete", "body", "value"} /\ method \in Methods
  BY DEF Callbacks, RequestInv, TypeOK
<1>3. /\ TypeOK' /\ LeftInv' /\ KeepInv' /\ RoutesInv' /\ EarlyInv'
      /\ QueryFresh' /\ MatchInv' /\ ParamsAllButLast'
  BY <1>1, <1>2, ReportKeeps
<1>4. BodyInv'
  BY <1>1, <1>2, BodyKept
<1>5. /\ Got \in Nat /\ Got + 1 \in 1..Len(R) /\ R[Got + 1].cb = "field"
      /\ sent \in Requests /\ sent' = sent /\ count' = count /\ count > 0 /\ H \in Nat
      /\ Given = Got /\ (~cut' => ~cut /\ Got' = Got + 1 /\ Given' = Got' /\ Part(n) = R[Got + 1].str)
  BY <1>1, <1>2, WholeReport
<1>6. PICK m \in 1..H : Got + 1 = 2 * m
  BY <1>5, Places
<1>7. R[2 * m].str = hs[m].key
  <2>1. R[2 * m] = [cb |-> "field", str |-> hs[m].key]
    BY <1>5, ReportsAt
  <2> HIDE DEF R, hs
  <2> QED BY <2>1
<1>8. FieldsInv'
  <2> SUFFICES ASSUME ~cut' PROVE FieldsInv'
    BY DEF FieldsInv
  <2> HIDE DEF H, R, hs
  <2>1. /\ Got = 2 * m - 1 /\ Got > 0 /\ m - 1 \in 0..H
        /\ Given >= 2 * (m - 1) + 1 /\ Given <= 2 * (m - 1) + 2
    BY <1>5, <1>6
  <2>2. headers = FirstValues(hs, m - 1) /\ url = sent.url
    BY <1>5, <2>1 DEF RequestInv, FieldsInv, H, hs
  <2>3. Got' = 2 * m /\ tmpKey' = Lower(hs[m].key)
    BY <1>1, <1>5, <1>6, <1>7
  <2>4. /\ \A j \in 1..H : Got' = 2 * j => j = m
        /\ ~(Got' > 2 * H + 1)
    BY <1>5, <2>3
  <2>5. \A j \in 0..H : (Given' >= 2 * j + 1 \/ j = 0) /\ (Given' <= 2 * j + 2 \/ j = H)
                       => j = m - 1
    BY <1>5, <2>3, HeadersAt
  <2> QED BY <1>1, <1>5, <2>2, <2>3, <2>4, <2>5 DEF FieldsInv, H, hs
<1> QED BY <1>3, <1>4, <1>8 DEF RequestInv

(* A value that came whole is given once, or once more as nothing.          *)
LEMMA ValueReport ==
  ASSUME RequestInv, NEW n, Report("value", n)
  PROVE  /\ Got \in Nat /\ Got + 1 \in 1..Len(Reports(sent))
         /\ Reports(sent)[Got + 1].cb = "value"
         /\ sent \in Requests /\ sent' = sent /\ count' = count /\ count > 0
         /\ Len(sent.headers) \in Nat
         /\ ~cut' =>
              /\ ~cut
              /\ \/ Given = Got /\ Part(n) = Reports(sent)[Got + 1].str
                 \/ Given = Got + 1
              /\ Given' = Got + 1 /\ (Got' = Got \/ Got' = Got + 1)
<1>0. "value" \in Callbacks \ {"complete"}
  BY DEF Callbacks
<1>1. /\ Got \in Nat /\ Got + 1 \in 1..Len(Reports(sent)) /\ left' # <<>>
      /\ Reports(sent)[Got + 1].cb = "value" /\ count > 0
      /\ left[1].cb = "value" /\ (~cut' => ~cut)
      /\ \/ /\ Got' = Got + 1 /\ Part(n) = left[1].str
            /\ left'[1] = Reports(sent)[Got' + 1]
         \/ /\ Got' = Got /\ left'[1].cb = "value"
            /\ ~cut' => /\ Part(n) = left[1].str /\ left[1].str # <<>>
                        /\ left'[1].str = <<>>
  BY <1>0, ReportStep DEF RequestInv
<1>2. sent \in Requests /\ sent' = sent /\ count' = count /\ left # <<>>
  BY DEF RequestInv, TypeOK, Report, Due
<1>3. Len(sent.headers) \in Nat
  BY <1>2, ReportsAt
<1>4. ASSUME ~cut' PROVE /\ left[1].str = Reports(sent)[Got + 1].str \/ left[1].str = <<>>
                         /\ Part(n) = left[1].str
  BY <1>1, <1>2, <1>4 DEF RequestInv, LeftInv
<1>5. ASSUME ~cut'
      PROVE  \/ Given = Got /\ Part(n) = Reports(sent)[Got + 1].str
             \/ Given = Got + 1
  BY <1>1, <1>2, <1>4, <1>5 DEF Given, ValueOver
<1>6. ASSUME ~cut' PROVE Given' = Got + 1
  <2>1. CASE Got' = Got + 1 /\ left'[1] = Reports(sent)[Got' + 1]
    <3>1. ~ValueOver'
      BY <1>2, <2>1 DEF ValueOver
    <3> QED BY <2>1, <3>1 DEF Given
  <2>2. CASE Got' = Got /\ left'[1].cb = "value" /\ left[1].str # <<>> /\ left'[1].str = <<>>
    <3>1. ValueOver'
      BY <1>1, <1>2, <1>4, <1>6, <2>2 DEF ValueOver
    <3> QED BY <2>2, <3>1 DEF Given
  <2> QED BY <1>1, <1>6, <2>1, <2>2
<1> QED BY <1>1, <1>2, <1>3, <1>5, <1>6

(* onReqHeaderValue: insert() keeps the first value of a key, and does not  *)
(* mind the nothing behind it.                                              *)
LEMMA HeaderValueInv ==
  ASSUME RequestInv, NEW n, OnReqHeaderValue(n)
  PROVE  RequestInv'
<1> DEFINE R == Reports(sent)
           hs == sent.headers
           H == Len(sent.headers)
<1>1. /\ Report("value", n) /\ headers' = Insert(headers, tmpKey, Part(n))
      /\ UNCHANGED <<url, body, method, tmpKey>>
  BY DEF OnReqHeaderValue
<1>2. "value" \in Callbacks \ {"complete", "body"} /\ method \in Methods
  BY DEF Callbacks, RequestInv, TypeOK
<1>3. /\ TypeOK' /\ LeftInv' /\ KeepInv' /\ RoutesInv' /\ EarlyInv'
      /\ QueryFresh' /\ MatchInv' /\ ParamsAllButLast'
  BY <1>1, <1>2, ReportKeeps
<1>4. BodyInv'
  BY <1>1, <1>2, BodyKept
<1>5. /\ Got \in Nat /\ Got + 1 \in 1..Len(R) /\ R[Got + 1].cb = "value"
      /\ sent \in Requests /\ sent' = sent /\ count' = count /\ count > 0 /\ H \in Nat
      /\ ~cut' => /\ ~cut
                  /\ (Given = Got /\ Part(n) = R[Got + 1].str) \/ Given = Got + 1
                  /\ Given' = Got + 1 /\ (Got' = Got \/ Got' = Got + 1)
  BY <1>1, ValueReport
<1>6. PICK m \in 1..H : Got + 1 = 2 * m + 1
  BY <1>5, Places
<1>7. R[2 * m + 1].str = hs[m].value
  <2>1. R[2 * m + 1] = [cb |-> "value", str |-> hs[m].value]
    BY <1>5, ReportsAt
  <2> HIDE DEF R, hs
  <2> QED BY <2>1
<1>8. FieldsInv'
  <2> SUFFICES ASSUME ~cut' PROVE FieldsInv'
    BY DEF FieldsInv
  <2> HIDE DEF H, R, hs
  <2>1. /\ Got = 2 * m /\ Got > 0 /\ m - 1 \in 0..H /\ m - 1 \in Nat /\ (m - 1) + 1 = m
        /\ m \in 0..H
    BY <1>5, <1>6
  <2>2. url = sent.url /\ tmpKey = Lower(hs[m].key)
    BY <1>5, <2>1 DEF RequestInv, FieldsInv, H, hs
  <2>3. ASSUME Given = Got, Part(n) = R[Got + 1].str PROVE headers' = FirstValues(hs, m)
    <3>1. Given >= 2 * (m - 1) + 1 /\ Given <= 2 * (m - 1) + 2
      BY <2>1, <2>3
    <3>2. headers = FirstValues(hs, m - 1) /\ Part(n) = hs[m].value
      BY <1>5, <1>6, <1>7, <2>1, <2>3, <3>1 DEF RequestInv, FieldsInv, H, hs
    <3>3. Insert(FirstValues(hs, m - 1), Lower(hs[(m - 1) + 1].key), hs[(m - 1) + 1].value)
            = FirstValues(hs, (m - 1) + 1)
      BY <2>1, FirstValuesStep
    <3>4. headers' = FirstValues(hs, m)
      BY <1>1, <2>1, <2>2, <3>2, <3>3
    <3> QED BY <3>4
  <2>4. ASSUME Given = Got + 1 PROVE headers' = FirstValues(hs, m)
    <3>1. Given >= 2 * m + 1 /\ Given <= 2 * m + 2
      BY <2>1, <2>4
    <3>2. headers = FirstValues(hs, m)
      BY <1>5, <2>1, <3>1 DEF RequestInv, FieldsInv, H, hs
    <3>3. tmpKey \in DOMAIN headers
      BY <2>2, <3>2 DEF FirstValues
    <3>4. Insert(headers, tmpKey, Part(n)) = headers
      <4>1. headers = [x \in DOMAIN headers |-> headers[x]]
        BY <3>2 DEF FirstValues
      <4>2. DOMAIN headers \cup {tmpKey} = DOMAIN headers
        BY <3>3
      <4> QED BY <4>1, <4>2 DEF Insert
    <3> QED BY <1>1, <3>2, <3>4
  <2>5. headers' = FirstValues(hs, m)
    BY <1>5, <2>3, <2>4
  <2>6. /\ \A j \in 1..H : Got' = 2 * j => j = m
        /\ ~(Got' > 2 * H + 1)
    BY <1>5, <2>1
  <2>7. \A j \in 0..H : (Given' >= 2 * j + 1 \/ j = 0) /\ (Given' <= 2 * j + 2 \/ j = H)
                       => j = m
    <3>1. Given' = 2 * m + 1
      BY <1>5, <1>6
    <3> QED BY <1>5, <3>1, HeadersAt
  <2> QED BY <1>1, <1>5, <2>2, <2>5, <2>6, <2>7 DEF FieldsInv, H, hs
<1> QED BY <1>3, <1>4, <1>8 DEF RequestInv

(* onReqHeaderComplete: the method is known.                                *)
LEMMA HeaderCompleteInv ==
  ASSUME RequestInv, OnReqHeaderComplete
  PROVE  RequestInv'
<1> DEFINE R == Reports(sent)
           hs == sent.headers
           H == Len(sent.headers)
<1>1. /\ Report("headersComplete", 0) /\ method' = sent.method
      /\ UNCHANGED <<url, headers, body, tmpKey>>
  BY DEF OnReqHeaderComplete
<1>2. "headersComplete" \in Callbacks \ {"complete", "body", "value"} /\ method' \in Methods
  BY <1>1, RequestsAssumption DEF Callbacks, RequestInv, TypeOK
<1>3. /\ TypeOK' /\ LeftInv' /\ KeepInv' /\ RoutesInv' /\ EarlyInv'
      /\ QueryFresh' /\ MatchInv' /\ ParamsAllButLast'
  BY <1>1, <1>2, ReportKeeps
<1>4. BodyInv'
  BY <1>1, <1>2, BodyKept
<1>5. /\ Got \in Nat /\ Got + 1 \in 1..Len(R) /\ R[Got + 1].cb = "headersComplete"
      /\ sent \in Requests /\ sent' = sent /\ count' = count /\ count > 0 /\ H \in Nat
      /\ Given = Got /\ (~cut' => ~cut /\ Got' = Got + 1 /\ Given' = Got')
  BY <1>1, <1>2, WholeReport
<1>6. Got + 1 = 2 * H + 2
  BY <1>5, Places
<1>7. FieldsInv'
  <2> SUFFICES ASSUME ~cut' PROVE FieldsInv'
    BY DEF FieldsInv
  <2> HIDE DEF H, R, hs
  <2>1. Got > 0 /\ H \in 0..H /\ Given >= 2 * H + 1 /\ Got' = 2 * H + 2
    BY <1>5, <1>6
  <2>2. headers = FirstValues(hs, H) /\ url = sent.url
    BY <1>5, <2>1 DEF RequestInv, FieldsInv, H, hs
  <2>3. /\ \A j \in 1..H : Got' # 2 * j
        /\ \A j \in 0..H : (Given' <= 2 * j + 2 \/ j = H) => j = H
    BY <1>5, <2>1
  <2> QED BY <1>1, <1>5, <2>2, <2>3 DEF FieldsInv, H, hs
<1> QED BY <1>3, <1>4, <1>7 DEF RequestInv

(* onReqBody.                                                               *)
LEMMA ReqBodyInv ==
  ASSUME RequestInv, NEW n, OnReqBody(n)
  PROVE  RequestInv'
<1> DEFINE R == Reports(sent)
           hs == sent.headers
           H == Len(sent.headers)
<1>1. /\ Report("body", n) /\ body' = body \o Part(n)
      /\ UNCHANGED <<url, headers, method, tmpKey>>
  BY DEF OnReqBody
<1>2. "body" \in Callbacks \ {"complete"} /\ method' \in Methods
  BY <1>1 DEF Callbacks, RequestInv, TypeOK
<1>3. /\ TypeOK' /\ LeftInv' /\ KeepInv' /\ RoutesInv' /\ EarlyInv'
      /\ QueryFresh' /\ MatchInv' /\ ParamsAllButLast'
  BY <1>1, <1>2, ReportKeeps
<1>4. BodyInv'
  BY <1>1, BodyGiven
<1>5. /\ Got \in Nat /\ Got + 1 \in 1..Len(R) /\ R[Got + 1].cb = "body"
      /\ count > 0 /\ (~cut' => ~cut) /\ left[1].cb = "body"
      /\ \/ Got' = Got + 1 /\ left'[1] = R[Got' + 1]
         \/ Got' = Got /\ left'[1].cb = "body"
      /\ sent \in Requests
  BY <1>1, <1>2, ReportStep DEF RequestInv, TypeOK
<1>6. sent' = sent /\ count' = count
  BY <1>1 DEF Report
<1>7. Got + 1 = 2 * H + 3 /\ H \in Nat
  BY <1>5, Places, ReportsAt
<1>8. FieldsInv'
  <2> SUFFICES ASSUME ~cut' PROVE FieldsInv'
    BY DEF FieldsInv
  <2>a. Given = Got /\ Given' = Got'
    <3>1. ~ValueOver /\ ~ValueOver'
      BY <1>5, <1>6 DEF ValueOver
    <3> QED BY <3>1 DEF Given
  <2> HIDE DEF H, R, hs
  <2>1. Got > 0 /\ H \in 0..H /\ Given >= 2 * H + 1 /\ Got > 2 * H + 1 /\ Got' >= 2 * H + 2
    BY <1>5, <1>7, <2>a
  <2>2. headers = FirstValues(hs, H) /\ url = sent.url /\ method = sent.method
    BY <1>5, <2>1 DEF RequestInv, FieldsInv, H, hs
  <2>3. /\ \A j \in 1..H : Got' # 2 * j
        /\ \A j \in 0..H : (Given' <= 2 * j + 2 \/ j = H) => j = H
    BY <1>5, <1>7, <2>1, <2>a
  <2> QED BY <1>1, <1>5, <1>6, <2>2, <2>3 DEF FieldsInv, H, hs
<1> QED BY <1>3, <1>4, <1>8 DEF RequestInv

-----------------------------------------------------------------------------
(* The first route that matches is one of the list.                         *)
LEMMA FirstMatchIn ==
  ASSUME NEW path, NEW list, Len(list) \in Nat
  PROVE  /\ FirstMatch(path, list) \in 0..Len(list)
         /\ FirstMatch(path, list) # 0 =>
              RegexMatch(path, list[FirstMatch(path, list)].pattern)
<1> DEFINE fits == {i \in 1..Len(list) : RegexMatch(path, list[i].pattern)}
<1>1. CASE fits = {}
  BY <1>1 DEF FirstMatch
<1>2. CASE fits # {}
  <2>1. fits \in SUBSET Nat
    OBVIOUS
  <2>2. \E i \in fits : \A j \in fits : i <= j
    BY <1>2, <2>1, Least
  <2>3. FirstMatch(path, list) = CHOOSE i \in fits : \A j \in fits : i <= j
    BY <1>2 DEF FirstMatch
  <2>4. FirstMatch(path, list) \in fits
    <3> HIDE DEF fits
    <3> QED BY <2>2, <2>3
  <2> QED BY <2>4
<1> QED BY <1>1, <1>2

(* dispatch() assigns every name but the last, where the groups and the     *)
(* names agree in number.                                                   *)
LEMMA AllButLastAssigned ==
  ASSUME NEW path, NEW route, IsSequence(route.paramNames),
         Len(MatchResults(path, route.pattern)) = Len(route.paramNames),
         NEW i \in 1..(Len(route.paramNames) - 1)
  PROVE  LET names  == route.paramNames
             groups == MatchResults(path, route.pattern)
         IN  /\ names[i] \in DOMAIN Assigned(path, route)
             /\ (\A j \in 1..Len(names) : names[j] = names[i] => j = i)
                  => Assigned(path, route)[names[i]] = groups[i]
<1> DEFINE groups == MatchResults(path, route.pattern)
           names  == route.paramNames
           size   == Len(groups) + 1
           param_len == IF size < Len(names) THEN size ELSE Len(names)
           loop   == 1..(param_len - 1)
           LastOf(n, x) == /\ names[x] = n
                         /\ \A j \in loop : j > x => names[j] # n
           last(n) == CHOOSE x \in loop : LastOf(n, x)
<1>1. Assigned(path, route) = [n \in {names[x] : x \in loop} |-> groups[last(n)]]
  BY DEF Assigned, ParamAt
<1>2. Len(names) \in Nat
  BY DEF IsSequence
<1>3. param_len = Len(names)
  <2> HIDE DEF groups, names
  <2>1. Len(groups) = Len(names)
    BY DEF groups, names
  <2> QED BY <1>2, <2>1
<1>4. i \in loop /\ \A x \in loop : x \in 1..Len(names)
  <2> HIDE DEF param_len
  <2> QED BY <1>2, <1>3
<1>5. i \in loop /\ names[i] \in {names[x] : x \in loop}
  BY <1>4
<1>6. ASSUME \A j \in 1..Len(names) : names[j] = names[i] => j = i
      PROVE  last(names[i]) = i
  <2> HIDE DEF loop, names
  <2>1. i \in loop /\ LastOf(names[i], i)
    <3>1. \A j \in loop : j > i => names[j] # names[i]
      BY <1>2, <1>4, <1>6
    <3> QED BY <1>4, <3>1
  <2>2. \A x \in loop : LastOf(names[i], x) => x = i
    BY <1>4, <1>6
  <2> HIDE DEF LastOf
  <2> QED BY <2>1, <2>2
<1> HIDE DEF loop, last
<1>7. names[i] \in DOMAIN Assigned(path, route)
  BY <1>1, <1>5
<1>8. Assigned(path, route)[names[i]] = groups[last(names[i])]
  BY <1>1, <1>5
<1> QED BY <1>6, <1>7, <1>8

(* onReqMessageComplete: the request is handed over as it is, and what the  *)
(* route assigns is put over what earlier requests have left.               *)
LEMMA MessageCompleteInv ==
  ASSUME RequestInv, OnReqMessageComplete
  PROVE  RequestInv'
<1> DEFINE R == Reports(sent)
           hs == sent.headers
           H == Len(sent.headers)
           path == PathOf(url)
           list == routes[method]
           k == FirstMatch(path, list)
<1>1. /\ Due("complete") /\ left' = <<>> /\ keepAlive' = NeedKeepConnection
      /\ handler' = k
      /\ params' = IF list = <<>> THEN params
                   ELSE IF k = 0 THEN EmptyMap
                   ELSE Over(Assigned(path, list[k]), params)
      /\ UNCHANGED <<routes, fields, queryParams, parsed, tmpKey, early, history>>
  BY DEF OnReqMessageComplete, Dispatch
<1>2. UNCHANGED <<url, headers, body, method, sent, cut, count>>
  BY <1>1 DEF fields, history
<1>3. /\ sent \in Requests /\ method \in Methods /\ IsSequence(left) /\ left # <<>>
      /\ Len(left) <= Len(R) /\ count > 0 /\ cut \in BOOLEAN
      /\ left[1].cb = R[Got + 1].cb
  BY <1>1 DEF RequestInv, TypeOK, LeftInv, Due
<1>4. /\ R \in Seq(ReportOf(sent)) /\ H \in Nat
      /\ Len(R) = IF sent.body = <<>> THEN 2 * H + 3 ELSE 2 * H + 4
  BY <1>3, ReportsAt
<1>5. Len(left) \in Nat /\ Len(left) > 0 /\ left[1].cb = "complete"
  BY <1>1, <1>3 DEF Due, IsSequence
<1>6. Got + 1 \in 1..Len(R) /\ Got \in Nat
  <2>1. Got = Len(R) - Len(left)
    BY DEF Got
  <2> HIDE DEF R, H
  <2> QED BY <1>3, <1>4, <1>5, <2>1
<1>7. Got + 1 = Len(R)
  <2>1. R[Got + 1].cb = "complete"
    BY <1>3, <1>5
  <2>2. R[Got + 1].cb = "complete" <=> Got + 1 = Len(R)
    BY <1>3, <1>6, Places
  <2> HIDE DEF R
  <2> QED BY <2>1, <2>2
<1>8. Got' = Len(R)
  <2>1. Got' = Len(R) - Len(<<>>)
    BY <1>1, <1>2 DEF Got
  <2> HIDE DEF R
  <2> QED BY <1>6, <1>7, <2>1
<1>9. IsSequence(list) /\ Len(list) \in Nat
  BY <1>3 DEF RequestInv, RoutesInv, IsSequence
<1>10. k \in 0..Len(list)
  BY <1>9, FirstMatchIn
<1> HIDE DEF R, hs, H, path, list, k
<1>11. TypeOK'
  <2>1. handler' \in 0..Len(routes'[method'])
    BY <1>1, <1>2, <1>10 DEF list
  <2>2. keepAlive' \in BOOLEAN
    BY <1>1 DEF NeedKeepConnection
  <2>3. Len(left') <= Len(Reports(sent)')
    <3>1. Reports(sent)' = R
      BY <1>2 DEF R
    <3> QED BY <1>1, <1>4, <3>1
  <2> QED BY <1>1, <1>2, <2>1, <2>2, <2>3 DEF RequestInv, TypeOK
<1>12. LeftInv'
  BY <1>1 DEF LeftInv, IsSequence
<1>13. BodyInv'
  <2>1. /\ IsSequence(body)
        /\ sent.body = <<>> => body = <<>>
        /\ Got > 2 * H + 2 => body = sent.body
    BY <1>3 DEF RequestInv, BodyInv, H
  <2>2. body = sent.body
    BY <1>4, <1>6, <1>7, <2>1
  <2>3. ~(Got' < 2 * H + 2) /\ Got' # 2 * H + 2
    BY <1>4, <1>8
  <2> QED BY <1>2, <2>1, <2>2, <2>3 DEF BodyInv, H
<1>14. FieldsInv'
  <2> SUFFICES ASSUME ~cut PROVE FieldsInv'
    BY <1>2 DEF FieldsInv
  <2>a. Given = Got /\ Given' = Got'
    <3>1. left[1].cb = "complete"
      BY DEF OnReqMessageComplete, Due, RequestInv, LeftInv, IsSequence
    <3> QED BY <1>1, <3>1 DEF Given, ValueOver
  <2>1. Got > 0 /\ H \in 0..H /\ Given >= 2 * H + 1 /\ Got > 2 * H + 1 /\ Got' >= 2 * H + 3
    BY <1>4, <1>6, <1>7, <1>8, <2>a
  <2>2. headers = FirstValues(hs, H) /\ url = sent.url /\ method = sent.method
    BY <1>3, <2>1 DEF RequestInv, FieldsInv, H, hs
  <2>3. /\ \A j \in 1..H : Got' # 2 * j
        /\ \A j \in 0..H : (Given' <= 2 * j + 2 \/ j = H) => j = H
    BY <1>4, <1>8, <2>1, <2>a
  <2> QED BY <1>1, <1>2, <1>3, <2>2, <2>3 DEF FieldsInv, H, hs
<1>15. KeepInv' /\ MatchInv'
  <2>1. PathOf(url)' = path /\ routes'[method'] = list
    BY <1>1, <1>2 DEF path, list
  <2>2. k # 0 => RegexMatch(path, list[k].pattern)
    BY <1>9, FirstMatchIn DEF k
  <2> QED BY <1>1, <1>2, <2>1, <2>2 DEF KeepInv, MatchInv, NeedKeepConnection
<1>16. RoutesInv' /\ EarlyInv' /\ QueryFresh'
  BY <1>1, <1>2 DEF RequestInv, RoutesInv, EarlyInv, QueryFresh, Due
<1>17. ParamsAllButLast'
  <2> SUFFICES ASSUME k # 0 PROVE ParamsAllButLast'
    BY <1>1 DEF ParamsAllButLast
  <2> DEFINE route == list[k]
             groups == MatchResults(path, route.pattern)
             names == route.paramNames
  <2>1. k \in 1..Len(list) /\ list # <<>>
    BY <1>9, <1>10
  <2>2. params' = Over(Assigned(path, route), params)
    BY <1>1, <2>1
  <2>3. IsSequence(names)
    <3>1. PICK t \in Templates : route = ParsePathToRegex(t.parts)
      BY <1>3, <2>1 DEF RequestInv, RoutesInv, list
    <3>2. names = ParamNames(t.parts)
      BY <3>1 DEF ParsePathToRegex
    <3> DEFINE all == [x \in 1..Len(t.parts) |-> t.parts[x].name]
               X == {t.parts[x].name : x \in 1..Len(t.parts)}
    <3>3. Len(t.parts) \in Nat
      BY TemplatesAssumption DEF IsSequence
    <3>4. all \in Seq(X)
      BY <3>3
    <3>5. Len(all) \in Nat
      <4> HIDE DEF all, X
      <4> QED BY <3>4
    <3> QED BY <3>2, <3>5, PickedAlike DEF ParamNames
  <2>4. ASSUME Len(groups) = Len(names), NEW i \in 1..(Len(names) - 1)
        PROVE  /\ names[i] \in DOMAIN params'
               /\ (\A j \in 1..Len(names) : names[j] = names[i] => j = i)
                    => params'[names[i]] = groups[i]
    <3>1. /\ names[i] \in DOMAIN Assigned(path, route)
          /\ (\A j \in 1..Len(names) : names[j] = names[i] => j = i)
               => Assigned(path, route)[names[i]] = groups[i]
      BY <2>3, <2>4, AllButLastAssigned
    <3> HIDE DEF names, groups, route
    <3>2. /\ names[i] \in DOMAIN params'
          /\ params'[names[i]] = Assigned(path, route)[names[i]]
      BY <2>2, <3>1 DEF Over
    <3> QED BY <3>1, <3>2
  <2>5. routes'[method'][handler'] = route /\ PathOf(url)' = path
    BY <1>1, <1>2 DEF list, path
  <2> HIDE DEF route
  <2> QED BY <2>4, <2>5 DEF ParamsAllButLast
<1> QED BY <1>11, <1>12, <1>13, <1>14, <1>15, <1>16, <1>17 DEF RequestInv

(* query() parses the url that is there.                                    *)
LEMMA QueryInv ==
  ASSUME RequestInv, Query
  PROVE  RequestInv'
<1>1. /\ queryParams' = UrlDecode(url, EmptyMap) /\ parsed' = TRUE /\ early' = Due("url")
      /\ UNCHANGED <<routes, fields, params, tmpKey, keepAlive, left, handler, history>>
  BY DEF Query
<1>2. UNCHANGED <<url, headers, body, method, sent, cut, count>>
  BY <1>1 DEF fields, history
<1>3. TypeOK'
  <2>1. early' \in BOOLEAN
    BY <1>1 DEF Due
  <2> QED BY <1>1, <1>2, <2>1 DEF RequestInv, TypeOK
<1>4. LeftInv' /\ BodyInv' /\ FieldsInv'
  <2>1. Got' = Got /\ Given' = Given
    BY <1>1, <1>2 DEF Got, Given, ValueOver
  <2> QED BY <1>1, <1>2, <2>1 DEF RequestInv, LeftInv, BodyInv, FieldsInv
<1>5. KeepInv' /\ MatchInv' /\ ParamsAllButLast'
  BY <1>1, <1>2 DEF RequestInv, KeepInv, MatchInv, ParamsAllButLast, Handled, NeedKeepConnection
<1>6. RoutesInv' /\ EarlyInv' /\ QueryFresh'
  BY <1>1, <1>2 DEF RequestInv, RoutesInv, EarlyInv, QueryFresh, Due
<1> QED BY <1>3, <1>4, <1>5, <1>6 DEF RequestInv

(* Every step keeps the invariant.                                          *)
LEMMA RequestNext == RequestInv /\ [Next]_vars => RequestInv'
<1> SUFFICES ASSUME RequestInv, [Next]_vars PROVE RequestInv'
  OBVIOUS
<1>1. CASE UNCHANGED vars
  <2>1. /\ UNCHANGED <<routes, params, queryParams, parsed, tmpKey, keepAlive, left,
                       handler, early>>
        /\ UNCHANGED <<url, headers, body, method, sent, cut, count>>
    BY <1>1 DEF vars, fields, history
  <2>2. Got' = Got /\ Given' = Given
    BY <2>1 DEF Got, Given, ValueOver
  <2>3. TypeOK' /\ LeftInv' /\ BodyInv' /\ FieldsInv'
    BY <2>1, <2>2 DEF RequestInv, TypeOK, LeftInv, BodyInv, FieldsInv
  <2>4. KeepInv' /\ MatchInv' /\ ParamsAllButLast'
    BY <2>1 DEF RequestInv, KeepInv, MatchInv, ParamsAllButLast, Handled, NeedKeepConnection
  <2>5. RoutesInv' /\ EarlyInv' /\ QueryFresh'
    BY <2>1 DEF RequestInv, RoutesInv, EarlyInv, QueryFresh, Due
  <2> QED BY <2>3, <2>4, <2>5 DEF RequestInv
<1>2. CASE Next
  BY <1>2, AddRouteInv, MessageBeginInv, URLInv, HeaderFieldInv, HeaderValueInv,
     HeaderCompleteInv, ReqBodyInv, MessageCompleteInv, QueryInv DEF Next
<1> QED BY <1>1, <1>2

(* What has come of a request that is handed over is all of it.             *)
LEMMA HandedOver == RequestInv => WholeIsFaithful
<1> SUFFICES ASSUME RequestInv, Handled
             PROVE  /\ body = sent.body
                    /\ ~cut => /\ url = sent.url /\ method = sent.method
                               /\ headers = SentHeaders(sent)
                    /\ keepAlive = (connection \in DOMAIN headers
                                    /\ headers[connection] = KeepAlive)
  BY DEF WholeIsFaithful, RequestInv
<1> DEFINE H == Len(sent.headers)
<1>1. sent \in Requests /\ left = <<>> /\ count > 0
  BY DEF RequestInv, TypeOK, Handled
<1>2. H \in Nat /\ Len(Reports(sent)) = IF sent.body = <<>> THEN 2 * H + 3 ELSE 2 * H + 4
  BY <1>1, ReportsAt
<1>3. Got = Len(Reports(sent)) - Len(<<>>)
  BY <1>1 DEF Got
<1> HIDE DEF H
<1>4. Got > 2 * H + 2 /\ Got > 2 * H + 1 /\ Got > 0 /\ Given >= 2 * H + 1 /\ H \in 0..H
  <2>1. Given = Got
    BY <1>1 DEF Given, ValueOver
  <2> QED BY <1>2, <1>3, <2>1
<1>5. body = sent.body
  BY <1>1, <1>4 DEF RequestInv, BodyInv, H
<1>6. ~cut => url = sent.url /\ method = sent.method /\ headers = FirstValues(sent.headers, H)
  BY <1>1, <1>4 DEF RequestInv, FieldsInv, H
<1>7. keepAlive = (connection \in DOMAIN headers /\ headers[connection] = KeepAlive)
  BY DEF RequestInv, KeepInv, NeedKeepConnection
<1> QED BY <1>5, <1>6, <1>7 DEF SentHeaders, H

-----------------------------------------------------------------------------
(* The invariant holds of every behaviour.                                  *)
THEOREM RequestsHold == Spec => []RequestInv
BY RequestInit, RequestNext, PTL DEF Spec

(* However reads cut it, a handler has the whole body of its request; and   *)
(* when the rest came whole, the request is the one sent, with nothing left *)
(* of an earlier one in url, method, headers and keep-alive.                *)
THEOREM FaithfulWhenWhole == Spec => []WholeIsFaithful
BY RequestsHold, HandedOver, PTL

(* query() never returns the pairs of an earlier request's url.             *)
THEOREM QueriesAreFresh == Spec => []QueryFresh
<1>1. RequestInv => QueryFresh
  BY DEF RequestInv
<1> QED BY <1>1, RequestsHold, PTL

(* No group of the template is without a name.                              *)
AllNamed(t) == \A i \in 1..Len(t.parts) : t.parts[i].kind \in {"lit", "param", "regex"}

(* Of such a template the names and the groups that its expression matched  *)
(* agree in number.                                                         *)
LEMMA NamesAndGroups ==
  ASSUME NEW t \in Templates, AllNamed(t), NEW path,
         RegexMatch(path, ParsePathToRegex(t.parts).pattern)
  PROVE  Len(MatchResults(path, ParsePathToRegex(t.parts).pattern))
           = Len(ParsePathToRegex(t.parts).paramNames)
<1> DEFINE parts == t.parts
           n == Len(parts)
           pattern == ParsePathToRegex(parts).pattern
           all == [i \in 1..n |-> parts[i].name]
           X == {parts[i].name : i \in 1..n}
           P == {i \in 1..n : parts[i].kind \in {"param", "regex"}}
<1>1. n \in Nat
  BY TemplatesAssumption DEF IsSequence
<1>2. pattern = RegexStr(parts) /\ ParsePathToRegex(parts).paramNames = Picked(all, P)
  BY DEF ParsePathToRegex, ParamNames
<1>3. \A i \in 1..n : pattern[i].group = (parts[i].kind # "lit")
  <2>1. pattern = [i \in 1..n |-> [group |-> parts[i].kind # "lit",
                                   any |-> parts[i].kind = "param",
                                   accepts |-> parts[i].accepts]]
    BY <1>2 DEF RegexStr
  <2> HIDE DEF pattern, parts, n
  <2> QED BY <2>1
<1>4. Len(pattern) = n
  <2> DEFINE Y == {pattern[i] : i \in 1..n}
  <2>1. pattern = [i \in 1..n |-> pattern[i]]
    BY <1>2 DEF RegexStr
  <2>2. \A i \in 1..n : pattern[i] \in Y
    OBVIOUS
  <2> HIDE DEF n, pattern, Y
  <2>3. pattern \in Seq(Y)
    BY <1>1, <2>1, <2>2
  <2>4. DOMAIN pattern = 1..n
    BY <2>1
  <2> QED BY <1>1, <2>3, <2>4
<1>5. Len(path) = n
  BY <1>4 DEF RegexMatch
<1>6. {i \in 1..Len(path) : pattern[i].group} = P
  <2>1. \A i \in 1..n : parts[i].kind \in {"lit", "param", "regex"}
    BY DEF AllNamed
  <2> HIDE DEF n, pattern, parts
  <2> QED BY <1>3, <1>5, <2>1
<1>7. Len(all) = n
  <2>1. all \in Seq(X) /\ DOMAIN all = 1..n
    BY <1>1
  <2> HIDE DEF all, n, X
  <2> QED BY <1>1, <2>1
<1> HIDE DEF all, n, P
<1>8. MatchResults(path, pattern) = Picked(path, P)
  BY <1>6 DEF MatchResults
<1>9. Len(Picked(path, P)) = Len(Picked(all, P))
  BY <1>1, <1>5, <1>7, PickedAlike
<1> QED BY <1>2, <1>8, <1>9

(* Every parameter but the last is the segment of this request, for every   *)
(* set of routes and every sequence of requests (dispatch).                 *)
THEOREM ParamsAreOwn == Spec => []ParamsAllButLast
<1>1. RequestInv => ParamsAllButLast
  BY DEF RequestInv
<1> QED BY <1>1, RequestsHold, PTL

(* The handler of a route of such a template has every parameter but the    *)
(* last, of this request.                                                   *)
NamedParams ==
  Handled /\ handler # 0 =>
    \A t \in Templates :
      LET route  == ParsePathToRegex(t.parts)
          groups == MatchResults(PathOf(url), route.pattern)
          names  == route.paramNames
      IN  AllNamed(t) /\ routes[method][handler] = route =>
            \A i \in 1..(Len(names) - 1) :
              /\ names[i] \in DOMAIN params
              /\ (\A j \in 1..Len(names) : names[j] = names[i] => j = i)
                   => params[names[i]] = groups[i]

(* For a template whose groups all have a name, that groups and names agree *)
(* needs not be asked of a request (parsePathToRegex, dispatch).            *)
THEOREM NamedParamsAreOwn == Spec => []NamedParams
<1>1. RequestInv => NamedParams
  <2> SUFFICES ASSUME RequestInv, Handled, handler # 0, NEW t \in Templates, AllNamed(t),
                      routes[method][handler] = ParsePathToRegex(t.parts)
               PROVE  LET route  == ParsePathToRegex(t.parts)
                          groups == MatchResults(PathOf(url), route.pattern)
                          names  == route.paramNames
                      IN  \A i \in 1..(Len(names) - 1) :
                            /\ names[i] \in DOMAIN params
                            /\ (\A j \in 1..Len(names) : names[j] = names[i] => j = i)
                                 => params[names[i]] = groups[i]
    BY DEF NamedParams
  <2>1. RegexMatch(PathOf(url), ParsePathToRegex(t.parts).pattern)
    BY DEF RequestInv, MatchInv
  <2>2. Len(MatchResults(PathOf(url), ParsePathToRegex(t.parts).pattern))
          = Len(ParsePathToRegex(t.parts).paramNames)
    BY <2>1, NamesAndGroups
  <2> QED BY <2>2 DEF RequestInv, ParamsAllButLast
<1> QED BY <1>1, RequestsHold, PTL

-----------------------------------------------------------------------------
(* When the first token of a payload is to end.                             *)
EndOf(x) == x.first.at + x.first.lasts * Tick

(* The dates of a token or a payload are those of the first one of its      *)
(* payload, or earlier, where an int did not hold them.                     *)
Dated(x) ==
  /\ x.first.at \in Nat /\ x.first.at <= now /\ x.first.lasts \in Int
  /\ x.iat \in Int /\ -Half <= x.iat /\ x.iat <= Seconds(x.first.at)
  /\ x.first.lasts > 0 =>
       x.exp \in Int /\ -Half <= x.exp /\ x.exp <= Seconds(EndOf(x))

(* The exp is that of the first one.                                        *)
Exact(x) == x.first.lasts > 0 => x.exp = Seconds(EndOf(x))

(* An int holds that exp.                                                   *)
Fits(x) == Seconds(EndOf(x)) < Half

DatesInv ==
  /\ now \in Nat
  /\ \A t \in tokens : Dated(t) /\ ((t.anew => Fits(t)) => Exact(t))
  /\ \A p \in payloads : Dated(p) /\ (Fits(p) => Exact(p))

TokenInv == DatesInv /\ EndsWithFirst /\ AgeBounded

(* A time is rounded down, by less than a second.                           *)
LEMMA Rounding ==
  ASSUME NEW t \in Nat
  PROVE  /\ Seconds(t) \in Nat
         /\ Seconds(t) * Tick <= t
         /\ t < Seconds(t) * Tick + Tick
BY TimeAssumption DEF Seconds

(* A duration is added before the rounding.                                 *)
LEMMA Lasting ==
  ASSUME NEW t \in Nat, NEW n \in Int, n > 0
  PROVE  /\ n * Tick \in Nat /\ t + n * Tick \in Nat
         /\ (n - 1) * Tick = n * Tick - Tick
BY TimeAssumption

(* What is left of a remainder.                                             *)
LEMMA Remainder ==
  ASSUME NEW a \in Nat, NEW b \in Nat \ {0}
  PROVE  /\ a % b \in 0..(b - 1) /\ a % b <= a
         /\ a < b => a % b = a
OBVIOUS

(* An int keeps a date that it holds, and makes an earlier one of another.  *)
LEMMA IntOfDate ==
  ASSUME NEW d \in Int, -Half <= d
  PROVE  /\ SetInteger(d) \in Int /\ -Half <= SetInteger(d) /\ SetInteger(d) <= d
         /\ d < Half => SetInteger(d) = d
<1>1. d + Half \in Nat /\ 2 * Half \in Nat \ {0}
  BY ClaimAssumption
<1>2. /\ (d + Half) % (2 * Half) \in 0..(2 * Half - 1)
      /\ (d + Half) % (2 * Half) <= d + Half
      /\ d + Half < 2 * Half => (d + Half) % (2 * Half) = d + Half
  BY <1>1, Remainder
<1> QED BY <1>2, ClaimAssumption DEF SetInteger

(* Seconds in ticks.                                                        *)
LEMMA InTicks ==
  ASSUME NEW a \in Int, NEW b \in Int, a <= b
  PROVE  a * Tick \in Int /\ b * Tick \in Int /\ a * Tick <= b * Tick
BY TimeAssumption

-----------------------------------------------------------------------------
(* The initial states satisfy the invariant.                                *)
LEMMA TokenInit == JwtInit => TokenInv
BY DEF JwtInit, TokenInv, DatesInv, EndsWithFirst, AgeBounded

(* The application's own payload gets the dates of now.                     *)
LEMMA SignInv ==
  ASSUME TokenInv, NEW key \in Keys, NEW expires \in Expires, Sign(key, expires)
  PROVE  TokenInv'
<1> DEFINE t == Signed([iat |-> None, exp |-> None, first |-> [at |-> now, lasts |-> expires]],
                       key, expires)
<1>1. tokens' = tokens \cup {t} /\ UNCHANGED <<now, payloads, accepted>>
  BY DEF Sign
<1>2. expires \in Int /\ now \in Nat
  BY ArgumentsAssumption DEF TokenInv, DatesInv
<1>3. /\ t.first.at = now /\ t.first.lasts = expires /\ t.iat = Seconds(now)
      /\ expires > 0 => t.exp = Seconds(now + expires * Tick)
  BY DEF Signed
<1> HIDE DEF t
<1>4. Dated(t) /\ Exact(t)
  <2>1. Seconds(now) \in Nat
    BY <1>2, Rounding
  <2>2. expires > 0 => Seconds(now + expires * Tick) \in Nat
    BY <1>2, Lasting, Rounding
  <2> QED BY <1>2, <1>3, <2>1, <2>2, ClaimAssumption DEF Dated, Exact, EndOf
<1>5. DatesInv'
  BY <1>1, <1>4 DEF TokenInv, DatesInv, Dated, Exact, Fits, EndOf
<1> QED BY <1>1, <1>5 DEF TokenInv, EndsWithFirst, AgeBounded

(* sign() lets the dates of a payload that verify() returned stand.         *)
LEMMA SignAgainInv ==
  ASSUME TokenInv, NEW payload \in payloads, NEW key \in Keys, NEW expires \in Expires,
         SignAgain(payload, key, expires)
  PROVE  TokenInv'
<1> DEFINE t == Signed(payload, key, expires)
<1>1. tokens' = tokens \cup {t} /\ UNCHANGED <<now, payloads, accepted>>
  BY DEF SignAgain
<1>2. Dated(payload) /\ (Fits(payload) => Exact(payload))
  BY DEF TokenInv, DatesInv
<1>3. payload.iat # None
  BY <1>2, ClaimAssumption DEF Dated
<1>4. payload.first.lasts > 0 => payload.exp # None
  BY <1>2, ClaimAssumption DEF Dated
<1>5. /\ t.first = payload.first /\ t.iat = payload.iat /\ t.anew
      /\ payload.first.lasts > 0 => t.exp = payload.exp
  BY <1>3, <1>4 DEF Signed
<1> HIDE DEF t
<1>6. Dated(t) /\ (Fits(t) => Exact(t))
  BY <1>2, <1>5 DEF Dated, Fits, Exact, EndOf
<1>7. DatesInv'
  BY <1>1, <1>5, <1>6 DEF TokenInv, DatesInv, Dated, Exact, Fits, EndOf
<1> QED BY <1>1, <1>7 DEF TokenInv, EndsWithFirst, AgeBounded

(* What verify() accepts is of the key, in its time and young enough.       *)
LEMMA VerifyInv ==
  ASSUME TokenInv, NEW token \in tokens, NEW key \in Keys, NEW maxAge \in MaxAges,
         Verify(token, key, maxAge)
  PROVE  TokenInv'
<1> DEFINE a == [token |-> token, key |-> key, maxAge |-> maxAge, at |-> now]
           p == [iat |-> SetInteger(token.iat),
                 exp |-> IF token.exp = None THEN None ELSE SetInteger(token.exp),
                 first |-> token.first]
           start == token.first.at
           lasts == token.first.lasts
<1>1. /\ payloads' = payloads \cup {p} /\ accepted' = {a} /\ UNCHANGED <<now, tokens>>
      /\ VerifierAccepts(token, key) /\ YoungEnough(token, maxAge)
  BY DEF Verify
<1>2. /\ Dated(token) /\ (Fits(token) => Exact(token))
      /\ now \in Nat /\ maxAge \in Int
  BY ArgumentsAssumption DEF TokenInv, DatesInv
<1>3. /\ start \in Nat /\ start <= now /\ lasts \in Int
      /\ token.iat \in Int /\ -Half <= token.iat /\ token.iat <= Seconds(start)
      /\ lasts > 0 => /\ token.exp \in Int /\ -Half <= token.exp
                      /\ token.exp <= Seconds(start + lasts * Tick)
  BY <1>2 DEF Dated, EndOf
<1>4. Dated(p) /\ (Fits(p) => Exact(p))
  <2>1. /\ SetInteger(token.iat) \in Int /\ -Half <= SetInteger(token.iat)
        /\ SetInteger(token.iat) <= token.iat
    BY <1>3, IntOfDate
  <2>2. lasts > 0 => /\ token.exp # None /\ p.exp = SetInteger(token.exp)
                     /\ p.exp \in Int /\ -Half <= p.exp /\ p.exp <= token.exp
                     /\ token.exp < Half => p.exp = token.exp
    BY <1>3, IntOfDate, ClaimAssumption
  <2>3. p.iat = SetInteger(token.iat) /\ p.first = token.first
    OBVIOUS
  <2>4. Seconds(start) \in Nat /\ (lasts > 0 => Seconds(start + lasts * Tick) \in Nat)
    BY <1>3, Rounding, Lasting
  <2> HIDE DEF p
  <2>5. Dated(p)
    BY <1>3, <2>1, <2>2, <2>3, <2>4, ClaimAssumption DEF Dated, EndOf
  <2>6. Fits(p) => Exact(p)
    BY <1>2, <2>2, <2>3 DEF Fits, Exact, EndOf
  <2> QED BY <2>5, <2>6
<1> HIDE DEF start, lasts
<1>5. DatesInv'
  BY <1>1, <1>4 DEF TokenInv, DatesInv, Dated, Exact, Fits, EndOf
<1>6. ASSUME lasts > 0 PROVE now <= start + lasts * Tick
  <2> DEFINE e == start + lasts * Tick
  <2>1. e \in Nat
    BY <1>3, <1>6, Lasting
  <2>2. token.exp \in Int /\ token.exp # None /\ token.exp <= Seconds(e)
    BY <1>3, <1>6, ClaimAssumption
  <2> HIDE DEF e
  <2>3. Seconds(e) \in Nat /\ Seconds(e) * Tick <= e
    BY <2>1, Rounding
  <2>4. now <= token.exp * Tick
    BY <1>1, <2>2 DEF VerifierAccepts
  <2>5. /\ token.exp * Tick \in Int /\ Seconds(e) * Tick \in Int
        /\ token.exp * Tick <= Seconds(e) * Tick
    BY <2>2, <2>3, InTicks
  <2>6. now <= e
    BY <1>2, <2>1, <2>3, <2>4, <2>5
  <2> QED BY <2>6 DEF e
<1>7. ASSUME maxAge >= 0 PROVE now - start <= maxAge * Hour * Tick
  <2> DEFINE m == maxAge * Hour
             i == token.iat
             s == Seconds(start)
  <2>1. m \in Nat
    BY <1>2, <1>7, TimeAssumption
  <2>2. s \in Nat /\ s * Tick <= start /\ i \in Int /\ i <= s
    BY <1>3, Rounding
  <2>3. (i + m) * Tick >= now
    BY <1>1, <1>2, <1>3, <1>7 DEF YoungEnough
  <2> HIDE DEF m, i, s
  <2>4. /\ i * Tick \in Int /\ s * Tick \in Int /\ i * Tick <= s * Tick
    BY <2>2, InTicks
  <2>5. (i + m) * Tick = i * Tick + m * Tick /\ m * Tick \in Int
    BY <2>1, <2>2, TimeAssumption
  <2>6. now - start <= m * Tick
    BY <1>2, <1>3, <2>2, <2>3, <2>4, <2>5
  <2> QED BY <2>6 DEF m
<1>8. EndsWithFirst'
  BY <1>1, <1>6 DEF EndsWithFirst, start, lasts
<1>9. AgeBounded'
  BY <1>1, <1>7 DEF AgeBounded, start, VerifierAccepts
<1> QED BY <1>5, <1>8, <1>9 DEF TokenInv

(* The clock goes on.                                                       *)
LEMMA TimeInv ==
  ASSUME TokenInv, TimePasses
  PROVE  TokenInv'
<1>1. now \in Nat /\ now' = now + 1 /\ UNCHANGED <<tokens, payloads, accepted>>
  BY DEF TokenInv, DatesInv, TimePasses
<1>2. ASSUME NEW x, Dated(x) PROVE Dated(x)'
  BY <1>1, <1>2 DEF Dated, EndOf, Seconds
<1>3. DatesInv'
  BY <1>1, <1>2 DEF TokenInv, DatesInv, Exact, Fits, EndOf, Seconds
<1> QED BY <1>1, <1>3 DEF TokenInv, EndsWithFirst, AgeBounded

(* Every step keeps the invariant.                                          *)
LEMMA TokenNext == TokenInv /\ [JwtNext]_jwtVars => TokenInv'
<1> SUFFICES ASSUME TokenInv, [JwtNext]_jwtVars PROVE TokenInv'
  OBVIOUS
<1>1. CASE UNCHANGED jwtVars
  BY <1>1 DEF jwtVars, TokenInv, DatesInv, Dated, Exact, Fits, EndOf, EndsWithFirst,
                  AgeBounded, Seconds
<1>2. CASE JwtNext
  BY <1>2, SignInv, SignAgainInv, VerifyInv, TimeInv DEF JwtNext
<1> QED BY <1>1, <1>2

(* The dates decide what the verifier says of a token.                      *)
LEMMA DatesUsable == DatesInv => UsableAtOnce
<1> SUFFICES ASSUME DatesInv, NEW t \in tokens,
                    t.first.lasts > 0, now <= EndOf(t) - Tick, t.anew => Fits(t)
             PROVE  VerifierAccepts(t, t.key)
  BY DEF UsableAtOnce, EndOf, Fits
<1> DEFINE start == t.first.at
           e == EndOf(t)
<1>1. /\ start \in Nat /\ start <= now /\ now \in Nat /\ t.first.lasts \in Int
      /\ t.iat \in Int /\ t.iat <= Seconds(start) /\ t.exp = Seconds(e)
      /\ now <= e - Tick
  BY DEF DatesInv, Dated, Exact
<1>2. e \in Nat
  BY <1>1, Lasting DEF EndOf
<1> HIDE DEF start, e
<1>3. /\ Seconds(start) * Tick <= start /\ Seconds(start) \in Nat
      /\ e < Seconds(e) * Tick + Tick /\ Seconds(e) \in Nat
  BY <1>1, <1>2, Rounding
<1>4. /\ t.iat * Tick \in Int /\ Seconds(start) * Tick \in Int
      /\ t.iat * Tick <= Seconds(start) * Tick /\ Seconds(e) * Tick \in Int
  BY <1>1, <1>3, InTicks
<1>5. now >= t.iat * Tick /\ now <= Seconds(e) * Tick
  BY <1>1, <1>2, <1>3, <1>4, TimeAssumption
<1> QED BY <1>1, <1>5 DEF VerifierAccepts

-----------------------------------------------------------------------------
(* The invariant holds of every behaviour.                                  *)
THEOREM TokensHold == JwtSpec => []TokenInv
BY TokenInit, TokenNext, PTL DEF JwtSpec

(* A token, and all that is signed anew of its payload, is refused when its *)
(* time is over (sign, verify).                                             *)
THEOREM NothingProlonged == JwtSpec => []EndsWithFirst
<1>1. TokenInv => EndsWithFirst
  BY DEF TokenInv
<1> QED BY <1>1, TokensHold, PTL

(* verify() accepts nothing older than the age asked for, or of another key.*)
THEOREM NothingTooOld == JwtSpec => []AgeBounded
<1>1. TokenInv => AgeBounded
  BY DEF TokenInv
<1> QED BY <1>1, TokensHold, PTL

(* A token is good at once and loses less than a second of its time; one    *)
(* signed anew, if an int holds its exp (sign, verify, set_integer).        *)
THEOREM GoodAtOnce == JwtSpec => []UsableAtOnce
<1>1. TokenInv => UsableAtOnce
  BY DatesUsable DEF TokenInv
<1> QED BY <1>1, TokensHold, PTL
=============================================================================
