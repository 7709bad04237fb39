------------------------------ MODULE Request ------------------------------
(***************************************************************************)
(* The httpReq of a Session (src/src/core/httpserver.cpp, httpReq.cpp):    *)
(* filled by the callbacks of http_parser, handed to a handler by the      *)
(* router, and used again for the next request of the connection.  The     *)
(* application has the raw pointer to it and may keep it.                  *)
(*                                                                         *)
(* Strings are sequences of pieces.  http_parser gives a string to its     *)
(* callback whole, or in parts when a read ends inside it or, of the url   *)
(* and the headers, directly behind it: the last part is empty then.       *)
(***************************************************************************)
EXTENDS Router, SequencesExt

CONSTANTS
  Methods,      \* the methods of http_parser
  Requests,     \* what a peer may send: records with the fields
                \*   method, url, body, and headers, a sequence of
                \*   records with the fields key and value
  Templates,    \* what the application may register: records with the
                \*   fields method, parts, and ok: std::regex takes it
  MaxPieces,    \* bound: pieces of one string
  MaxRequests,  \* bound: requests of one connection
  MaxRoutes     \* bound: calls of get() and post()

(* Those that get() and post() register a route for.                        *)
RouteMethods == {"GET", "POST"}

(* A sequence, of whatever it has in it.                                    *)
IsSequence(s) == s \in Seq({s[i] : i \in DOMAIN s})

(* A request has one of the methods, and strings.                           *)
ASSUME RequestsAssumption ==
  \A r \in Requests :
    /\ r.method \in Methods
    /\ IsSequence(r.url) /\ IsSequence(r.body) /\ IsSequence(r.headers)
    /\ \A i \in 1..Len(r.headers) :
         IsSequence(r.headers[i].key) /\ IsSequence(r.headers[i].value)

(* get() and post() are given a path each.                                  *)
ASSUME TemplatesAssumption ==
  /\ RouteMethods \subseteq Methods
  /\ \A t \in Templates : t.method \in RouteMethods /\ IsSequence(t.parts)

(* Only the number of requests has to be one.                               *)
ASSUME RequestBoundsAssumption == MaxRequests \in Nat

VARIABLES
  routes,    \* m_router.routes
  url, headers, body, method, params, queryParams,  \* fields of m_req
  parsed,    \* is_queryParams_parsed
  tmpKey,    \* m_tmpKey
  keepAlive, \* m_isKeepAlive
  sent,      \* the request that is arriving or arrived last
  left,      \* the strings and events of it that are still to come
  handler,   \* the route whose handler has the request; 0: 404 or none yet
  cut,       \* history: a read ended inside its url or a header, or
             \* directly behind the url or the name of a header
  early,     \* history: query() was called while its url was arriving
  count      \* counter for MaxRequests

fields  == <<url, headers, body, method>>
history == <<sent, cut, count>>
vars == <<routes, fields, params, queryParams, parsed, tmpKey, keepAlive, left,
          handler, early, history>>

(* A piece of a header's key has a text and may be written in capitals.     *)
Lower(key) == [i \in 1..Len(key) |-> key[i].text]

connection == <<"connec", "tion">>
KeepAlive  == <<"keep-", "alive">>

EmptyMap == [x \in {} |-> x]

(* m[k] = v on a map, and insert, which leaves the value a key has.         *)
Assign(m, k, v) == [x \in DOMAIN m \cup {k} |-> IF x = k THEN v ELSE m[x]]
Insert(m, k, v) == [x \in DOMAIN m \cup {k} |-> IF x \in DOMAIN m THEN m[x] ELSE v]

(* What m has, and what l has of the rest.                                  *)
Over(m, l) ==
  [x \in DOMAIN m \cup DOMAIN l |-> IF x \in DOMAIN m THEN m[x] ELSE l[x]]

(* Nothing sets the method of a new httpReq.                                *)
Init ==
  /\ routes = [m \in Methods |-> <<>>]
  /\ url = <<>>
  /\ headers = EmptyMap
  /\ body = <<>>
  /\ method \in Methods
  /\ params = EmptyMap
  /\ queryParams = EmptyMap
  /\ parsed = FALSE
  /\ tmpKey = <<>>
  /\ keepAlive = FALSE
  /\ sent \in Requests
  /\ left = <<>>
  /\ handler = 0
  /\ cut = FALSE
  /\ early = FALSE
  /\ count = 0

-----------------------------------------------------------------------------
(* addRoute, called by get() and post().  An expression that std::regex     *)
(* refuses is logged and forgotten.                                         *)
AddRoute(t) ==
  /\ count = 0 /\ left = <<>>
  /\ Len(routes["GET"]) + Len(routes["POST"]) < MaxRoutes
  /\ t.ok
  /\ routes' = [routes EXCEPT ![t.method] = Append(@, ParsePathToRegex(t.parts))]
  /\ UNCHANGED <<fields, params, queryParams, parsed, tmpKey, keepAlive, left,
                 handler, early, history>>

(* What http_parser will report of a request, in order.                     *)
HeaderReports(hs) ==
  [i \in 1..(2 * Len(hs)) |->
     LET h == hs[(i + 1) \div 2]
     IN  IF i % 2 = 1 THEN [cb |-> "field", str |-> h.key]
         ELSE [cb |-> "value", str |-> h.value]]

Reports(r) ==
  <<[cb |-> "url", str |-> r.url]>>
  \o HeaderReports(r.headers)
  \o <<[cb |-> "headersComplete", str |-> <<>>]>>
  \o (IF r.body = <<>> THEN <<>> ELSE <<[cb |-> "body", str |-> r.body]>>)
  \o <<[cb |-> "complete", str |-> <<>>]>>

Due(cb) == left # <<>> /\ Head(left).cb = cb

(* The first n pieces of the string that is due are given to its callback.  *)
Part(n) == SubSeq(Head(left).str, 1, n)

(* The read ends behind them, or goes on behind the string.  The parser     *)
(* knows the end of a body by its length; the end of the other strings it   *)
(* knows by the byte behind it.  When that is the first of a later read, it *)
(* reports the string once more, with the nothing that came before it.      *)
Report(cb, n) ==
  /\ Due(cb)
  /\ \E ends \in BOOLEAN :
       LET str == Head(left).str
       IN  /\ n \in (IF str = <<>> THEN 0 ELSE 1)..Len(str)
           /\ n < Len(str) => ends
           /\ ends /\ n = Len(str) => n > 0 /\ cb \in {"url", "field", "value"}
           /\ left' = IF ends
                      THEN [left EXCEPT ![1].str = SubSeq(str, n + 1, Len(str))]
                      ELSE Tail(left)
           /\ cut' = (cut \/ (ends /\ cb # (IF n < Len(str) THEN "body" ELSE "value")))
  /\ UNCHANGED <<routes, params, queryParams, parsed, keepAlive, handler, early,
                 sent, count>>

-----------------------------------------------------------------------------
(* The headers of the request before are kept.                              *)
MOnReqMessageBegin(r) ==
  /\ left = <<>> /\ count < MaxRequests
  /\ body' = <<>> /\ url' = <<>> /\ parsed' = FALSE
  /\ left' = Reports(r) /\ sent' = r /\ count' = count + 1
  /\ handler' = 0 /\ cut' = FALSE /\ early' = FALSE
  /\ UNCHANGED <<routes, headers, method, params, queryParams, tmpKey, keepAlive>>

(* The parsed query of the request before is kept.                          *)
MOnReqMessageBeginParsed(r) ==
  /\ left = <<>> /\ count < MaxRequests
  /\ headers' = EmptyMap /\ body' = <<>> /\ url' = <<>>
  /\ left' = Reports(r) /\ sent' = r /\ count' = count + 1
  /\ handler' = 0 /\ cut' = FALSE /\ early' = FALSE
  /\ UNCHANGED <<routes, method, params, queryParams, parsed, tmpKey, keepAlive>>

(* params, method and queryParams stay.                                     *)
OnReqMessageBegin(r) ==
  /\ left = <<>>
  /\ count < MaxRequests
  /\ headers' = EmptyMap
  /\ body' = <<>>
  /\ url' = <<>>
  /\ parsed' = FALSE
  /\ left' = Reports(r)
  /\ sent' = r
  /\ count' = count + 1
  /\ handler' = 0
  /\ cut' = FALSE
  /\ early' = FALSE
  /\ UNCHANGED <<routes, method, params, queryParams, tmpKey, keepAlive>>

OnReqURL(n) ==
  /\ Report("url", n)
  /\ url' = Part(n)
  /\ UNCHANGED <<headers, body, method, tmpKey>>

OnReqHeaderField(n) ==
  /\ Report("field", n)
  /\ tmpKey' = Lower(Part(n))
  /\ UNCHANGED fields

OnReqHeaderValue(n) ==
  /\ Report("value", n)
  /\ headers' = Insert(headers, tmpKey, Part(n))
  /\ UNCHANGED <<url, body, method, tmpKey>>

OnReqHeaderComplete ==
  /\ Report("headersComplete", 0)
  /\ method' = sent.method
  /\ UNCHANGED <<url, headers, body, tmpKey>>

OnReqBody(n) ==
  /\ Report("body", n)
  /\ body' = body \o Part(n)
  /\ UNCHANGED <<url, headers, method, tmpKey>>

-----------------------------------------------------------------------------
(* A url is a sequence of segments <<"seg", s>>, of which the first <<"?">> *)
(* ends the path, and of pairs <<"pair", key, value>> behind it.            *)
PathOf(u) ==
  LET q == SelectInSeq(u, LAMBDA x : x = <<"?">>)
  IN  IF q = 0 THEN u ELSE SubSeq(u, 1, q - 1)

NeedKeepConnection ==
  connection \in DOMAIN headers /\ headers[connection] = KeepAlive

(* A parameter that an earlier request has set is not set again.            *)
MDispatch ==
  LET path == PathOf(url)
      list == routes[method]
      i    == FirstMatch(path, list)
  IN  /\ handler' = i
      /\ params' = IF list = <<>> THEN params
                   ELSE IF i = 0 THEN EmptyMap
                   ELSE Over(params, Assigned(path, list[i]))

(* dispatch().  Only a request that no route of its method matches clears   *)
(* what earlier requests left in params.                                    *)
Dispatch ==
  LET path == PathOf(url)
      list == routes[method]
      i    == FirstMatch(path, list)
  IN  /\ handler' = i
      /\ params' = IF list = <<>> THEN params
                   ELSE IF i = 0 THEN EmptyMap
                   ELSE Over(Assigned(path, list[i]), params)

(* onReqMessageComplete and handle_request; the handler has the request     *)
(* from here on.  Upgrades, which are not dispatched, are HttpSession's.    *)
OnReqMessageComplete ==
  /\ Due("complete")
  /\ left' = <<>>
  /\ keepAlive' = NeedKeepConnection
  /\ Dispatch
  /\ UNCHANGED <<routes, fields, queryParams, parsed, tmpKey, early, history>>

(* urlDecode: a pair without a key is left out, a later one replaces an     *)
(* earlier one.                                                             *)
UrlDecode(u, m) ==
  LET q == SelectInSeq(u, LAMBDA x : x = <<"?">>)
      pairs == IF q = 0 THEN <<>> ELSE SubSeq(u, q + 1, Len(u))
  IN  FoldLeft(LAMBDA acc, p : IF p[2] = "" THEN acc ELSE Assign(acc, p[2], p[3]),
               m, pairs)

(* query(), called by a handler, or later by the pointer that it kept.      *)
Query ==
  /\ count > 1 \/ (count = 1 /\ left = <<>>)
  /\ ~parsed
  /\ queryParams' = UrlDecode(url, EmptyMap)
  /\ parsed' = TRUE
  /\ early' = Due("url")
  /\ UNCHANGED <<routes, fields, params, tmpKey, keepAlive, left, handler,
                 history>>

-----------------------------------------------------------------------------
Next ==
  \/ \E t \in Templates : AddRoute(t)
  \/ \E r \in Requests : OnReqMessageBegin(r)
  \/ \E n \in 0..MaxPieces : \/ OnReqURL(n) \/ OnReqHeaderField(n)
                             \/ OnReqHeaderValue(n) \/ OnReqBody(n)
  \/ OnReqHeaderComplete
  \/ OnReqMessageComplete
  \/ Query

Spec == Init /\ [][Next]_vars
-----------------------------------------------------------------------------
(* The request has the parts of one, and the parser has reports left only   *)
(* of what was sent.                                                        *)
TypeOK ==
  /\ DOMAIN routes = Methods
  /\ method \in Methods
  /\ parsed \in BOOLEAN /\ keepAlive \in BOOLEAN
  /\ cut \in BOOLEAN /\ early \in BOOLEAN
  /\ sent \in Requests
  /\ count \in 0..MaxRequests
  /\ handler \in 0..Len(routes[method])
  /\ Len(left) <= Len(Reports(sent))

Handled == left = <<>> /\ count > 0

(* The headers hs up to the m-th as a map: the first value of each key.     *)
FirstValues(hs, m) ==
  LET first(k) == CHOOSE i \in 1..m : /\ Lower(hs[i].key) = k
                                      /\ \A j \in 1..(i - 1) : Lower(hs[j].key) # k
  IN  [k \in {Lower(hs[i].key) : i \in 1..m} |-> hs[first(k)].value]

SentHeaders(r) == FirstValues(r.headers, Len(r.headers))

(* However reads cut the request, its handler has the whole body, and none  *)
(* of the one before (onReqBody appends, onReqMessageBegin clears).  When   *)
(* no read ended inside the url or a header, or directly behind the url or  *)
(* the name of a header (onReqURL and onReqHeaderField then forget what     *)
(* they had; behind a value a read may end), the request that the handler   *)
(* has is the one sent, and nothing of the request before it is left in it  *)
(* but params: method, url, the first value of each header, and what        *)
(* follows from them, the keep-alive of the session.                        *)
WholeIsFaithful ==
  /\ TypeOK
  /\ Handled =>
       /\ body = sent.body
       /\ ~cut =>
            /\ url = sent.url
            /\ method = sent.method
            /\ headers = SentHeaders(sent)
            /\ keepAlive = (connection \in DOMAIN headers
                            /\ headers[connection] = KeepAlive)

(* What query() has cached is the query of the url that is there, of no     *)
(* earlier request, unless the pointer was used while the url arrived.      *)
QueryFresh == parsed /\ ~early => queryParams = UrlDecode(url, EmptyMap)

(* When the groups of the route and its names agree, every parameter but    *)
(* the last is the segment of this request, whatever earlier requests have  *)
(* left in params.                                                          *)
ParamsAllButLast ==
  Handled /\ handler # 0 =>
    LET route  == routes[method][handler]
        groups == MatchResults(PathOf(url), route.pattern)
        names  == route.paramNames
    IN  Len(groups) = Len(names) =>
          \A i \in 1..(Len(names) - 1) :
            /\ names[i] \in DOMAIN params
            /\ (\A j \in 1..Len(names) : names[j] = names[i] => j = i)
                 => params[names[i]] = groups[i]

(* What the README's example takes for granted, that a handler finds the    *)
(* parameter of its route: req->param["id"] of "/id/:id([0-9]+)".           *)
ParamsComplete ==
  Handled /\ handler # 0 =>
    \A i \in 1..Len(routes[method][handler].paramNames) :
      routes[method][handler].paramNames[i] \in DOMAIN params

(* What http_parser.h asks of its callbacks, that a string which comes in   *)
(* several calls is joined.                                                 *)
FragmentsJoined ==
  Handled => url = sent.url /\ headers = SentHeaders(sent)
=============================================================================
