------------------------------- MODULE Router -------------------------------
(***************************************************************************)
(* httpRouter (src/src/core/httpRouter.cpp): templates of paths, and the   *)
(* route and parameters that a path is given.                              *)
(*                                                                         *)
(* A template is a sequence of parts, one for each segment of the path:    *)
(* "lit" is literal text, "param" is :name, "regex" is :name(re), and      *)
(* "raw" is a group without a name, as test_sendfile.cpp has one.  What    *)
(* the own expression of a part matches is its set accepts; no group       *)
(* spans two segments here.                                                *)
(***************************************************************************)
EXTENDS Naturals, Sequences

(* What a loop over seq keeps that takes the elements at the places P.      *)
Picked(seq, P) ==
  LET picked[i \in 0..Len(seq)] ==
        IF i = 0 THEN <<>>
        ELSE IF i \in P THEN Append(picked[i - 1], seq[i]) ELSE picked[i - 1]
  IN  picked[Len(seq)]

(* The names: every :name of the template, in order.                        *)
ParamNames(template) ==
  Picked([i \in 1..Len(template) |-> template[i].name],
         {i \in 1..Len(template) : template[i].kind \in {"param", "regex"}})

(* The expression: :name(re) becomes (re), :name becomes ([^/]+), and what  *)
(* is left stands as it is.  any: every segment.                            *)
RegexStr(template) ==
  [i \in 1..Len(template) |->
     [group   |-> template[i].kind # "lit",
      any     |-> template[i].kind = "param",
      accepts |-> template[i].accepts]]

ParsePathToRegex(template) ==
  [pattern |-> RegexStr(template), paramNames |-> ParamNames(template)]

(* std::regex_match: the whole path has to match.                           *)
RegexMatch(path, pattern) ==
  /\ Len(path) = Len(pattern)
  /\ \A i \in 1..Len(path) : pattern[i].any \/ path[i] \in pattern[i].accepts

(* match_results[1], match_results[2], ...: what the groups matched.        *)
MatchResults(path, pattern) ==
  Picked(path, {i \in 1..Len(path) : pattern[i].group})

(* route.paramNames[i - 1]                                                  *)
ParamAt(names, i) == names[i]

(* The parameters that dispatch() assigns.  match_results has one entry     *)
(* more than there are groups; the loop ends before param_len.              *)
Assigned(path, route) ==
  LET groups == MatchResults(path, route.pattern)
      names  == route.paramNames
      size   == Len(groups) + 1
      param_len == IF size < Len(names) THEN size ELSE Len(names)
      loop   == 1..(param_len - 1)
      last(n) == CHOOSE i \in loop : /\ ParamAt(names, i) = n
                                     /\ \A j \in loop : j > i => ParamAt(names, j) # n
  IN  [n \in {ParamAt(names, i) : i \in loop} |-> groups[last(n)]]

(* The route that dispatch() takes of those of the method: the first that   *)
(* matches, 0 if none does.                                                 *)
FirstMatch(path, list) ==
  LET fits == {i \in 1..Len(list) : RegexMatch(path, list[i].pattern)}
  IN  IF fits = {} THEN 0 ELSE CHOOSE i \in fits : \A j \in fits : i <= j

=============================================================================
