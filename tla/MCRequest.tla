----------------------------- MODULE MCRequest -----------------------------
(***************************************************************************)
(* Instances of Request: two requests of one connection, with and without  *)
(* query, body, repeated and differently written headers; routes of none,  *)
(* one and two parameters, of which one has an unnamed group.              *)
(***************************************************************************)
EXTENDS Request

Seg(s) == <<"seg", s>>
Q      == <<"?">>
Pair(k, v) == <<"pair", k, v>>

lower == [i \in 1..2 |-> [text |-> connection[i], caps |-> FALSE]]
caps  == [i \in 1..2 |-> [text |-> connection[i], caps |-> i = 1]]
host  == <<[text |-> "host", caps |-> TRUE]>>

Req(m, u, h, b) == [method |-> m, url |-> u, headers |-> h, body |-> b]
Hd(k, v)        == [key |-> k, value |-> v]

MCRequests ==
  {Req("GET", <<Seg("users"), Seg("7")>>, <<Hd(caps, KeepAlive)>>, <<>>),
   Req("GET", <<Seg("users"), Seg("8"), Seg("x")>>,
       <<Hd(lower, <<"close">>), Hd(caps, KeepAlive)>>, <<>>),
   Req("GET", <<Seg("users"), Seg("7"), Seg("y")>>, <<>>, <<>>),
   Req("GET", <<Seg("x"), Q, Pair("k", "1"), Pair("", "2"), Pair("k", "3")>>,
       <<Hd(host, <<>>)>>, <<>>),
   Req("POST", <<Seg("users"), Seg("y"), Seg("x"), Q, Pair("k", "2")>>,
       <<Hd(host, <<"a">>), Hd(lower, KeepAlive)>>, <<"b1", "b2", "b3">>),
   Req("PUT", <<Seg("users"), Seg("7")>>, <<>>, <<"b1">>)}

Lit(s)    == [kind |-> "lit", name |-> "", accepts |-> {Seg(s)}]
Param(n)  == [kind |-> "param", name |-> n, accepts |-> {}]
Regex(n)  == [kind |-> "regex", name |-> n, accepts |-> {Seg("7"), Seg("8")}]
Raw       == [kind |-> "raw", name |-> "", accepts |-> {Seg("x"), Seg("7")}]

Tmpl(m, p, ok) == [method |-> m, parts |-> p, ok |-> ok]

MCTemplates ==
  {Tmpl("GET", <<Lit("users"), Regex("id")>>, TRUE),
   Tmpl("GET", <<Lit("users"), Param("id"), Param("what")>>, TRUE),
   Tmpl("GET", <<Param("id"), Raw>>, TRUE),
   Tmpl("GET", <<Raw>>, FALSE),
   Tmpl("POST", <<Param("what"), Param("id"), Raw>>, TRUE)}
(* The route of the README's example.                                       *)
ReadmeTemplates == {Tmpl("GET", <<Lit("users"), Regex("id")>>, TRUE)}
=============================================================================
