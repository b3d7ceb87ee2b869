------------------------------- MODULE Routing --------------------------------
(***************************************************************************)
(* How a request finds its handler: an application is put together with    *)
(* App::route, App::resource and App::handler (application.rs), its        *)
(* resources become the patterns of a router (router.rs), and a request is *)
(* taken or refused by the application, matched, passed to the routes of   *)
(* its resource (resource.rs, route.rs, pred.rs) and, failing these, to    *)
(* the default resource, here NormalizePath (helpers.rs).                  *)
(*                                                                         *)
(* A path is a sequence of characters; "%" stands for an escaped slash and *)
(* "!" for an escape that does not decode to UTF-8.  A pattern is a        *)
(* sequence of characters and of the variables "VAR", {name}, and "TAIL",  *)
(* {name:.*}.                                                              *)
(***************************************************************************)
EXTENDS Integers, Sequences, SequencesExt, FiniteSets, FiniteSetsExt

CONSTANTS
  Patterns,   \* patterns of resources, with or without a leading slash
  AppPrefixes, \* prefixes given for applications and for handlers
  Paths,      \* paths of requests
  Methods,    \* methods of routes; the request's is GET
  MaxRoutes   \* bound: registrations

VARIABLES
  prefix,     \* prefix of the application
  handlers,   \* prefixes of App::handler, in order
  resources,  \* resources: the pattern, and the routes as [method, id]
  added,      \* registrations: how, pattern and method
  normalize,  \* settings of NormalizePath: append, merge
  answer      \* what came of the request

vars == <<prefix, handlers, resources, added, normalize, answer>>

Vars == {"VAR", "TAIL"}
NoAnswer == [path |-> <<>>, method |-> "", to |-> "none", idx |-> 0, params |-> <<>>, route |-> 0,
             location |-> <<>>]

-----------------------------------------------------------------------------
(* starts_with, and the rest of a path after n characters.                 *)
StartsWith(p, q) == IsPrefix(q, p)
From(p, n) == SubSeq(p, n + 1, Len(p))
EndsInSlash(p) == p # <<>> /\ p[Len(p)] = "/"
RECURSIVE TrimRight(_)
TrimRight(p) == IF EndsInSlash(p) THEN TrimRight(Front(p)) ELSE p

(* percent_decode: an escaped slash becomes one.                           *)
Decode(p) == [i \in DOMAIN p |-> IF p[i] = "%" THEN "/" ELSE p[i]]

(* The value a variable takes at the front of a path: the longest after    *)
(* which the rest of the pattern still fits ({name} is [^/]+).             *)
Fits(v, value) == v = "TAIL" \/ (value # <<>> /\ "/" \notin Range(value))

(* match_with_params: the values of the variables, {} if it does not fit.  *)
RECURSIVE Captures(_, _)
Captures(pattern, p) ==
  IF pattern = <<>> THEN IF p = <<>> THEN {<<>>} ELSE {}
  ELSE IF pattern[1] \in Vars
  THEN LET ends == {n \in 0..Len(p) : Fits(pattern[1], SubSeq(p, 1, n))
                                       /\ Captures(Tail(pattern), From(p, n)) # {}}
       IN {<<SubSeq(p, 1, n)>> \o c : n \in {m \in ends : \A k \in ends : k <= m},
                                       c \in UNION {Captures(Tail(pattern), From(p, m)) : m \in
                                                     {m \in ends : \A k \in ends : k <= m}}}
  ELSE IF p # <<>> /\ p[1] = pattern[1] THEN Captures(Tail(pattern), Tail(p)) ELSE {}

(* Resource::new and parse: a leading slash is optional, and there is one. *)
Bare(pattern) == IF StartsWith(pattern, <<"/">>) THEN Tail(pattern) ELSE pattern
Full(pattern) == <<"/">> \o Bare(pattern)
IsMatch(pattern, p) == Captures(Full(pattern), p) # {}

(* The elements parse keeps for building paths: what follows the last      *)
(* variable is not among them.                                             *)
Elements(pattern) ==
  LET last == Max({0} \cup {i \in DOMAIN pattern : pattern[i] \in Vars}) IN SubSeq(pattern, 1, last)

(* resource_path: the prefix, a slash, and the elements with the values.   *)
RECURSIVE Filled(_, _)
Filled(elements, values) ==
  IF elements = <<>> THEN <<>>
  ELSE IF elements[1] \in Vars THEN values[1] \o Filled(Tail(elements), Tail(values))
  ELSE <<elements[1]>> \o Filled(Tail(elements), values)
UrlFor(pre, pattern, values) == pre \o <<"/">> \o Filled(Elements(Bare(pattern)), values)

-----------------------------------------------------------------------------
(* App::prefix and App::finish; the path of App::handler.                  *)
Prefix(p) == IF StartsWith(p, <<"/">>) THEN p ELSE <<"/">> \o p
Finish(p) == TrimRight(p)
HandlerPath(p) == LET t == TrimRight(p) IN IF t = <<>> THEN t ELSE Prefix(t)

(* App::route: a route for a method, added to the first resource that has  *)
(* this very pattern, compared as it was written, or to a new one.         *)
WithRouteApart(res, pattern, route) == Append(res, [pattern |-> pattern, routes |-> <<route>>])
WithRoute(res, pattern, route) ==
  LET same == {i \in DOMAIN res : res[i].pattern = pattern}
  IN IF same # {} THEN [res EXCEPT ![Min(same)].routes = Append(@, route)]
     ELSE Append(res, [pattern |-> pattern, routes |-> <<route>>])

(* App::resource: always a resource of its own.                            *)
WithResource(res, pattern, route) == Append(res, [pattern |-> pattern, routes |-> <<route>>])

Register(how, pattern, method) ==
  /\ answer = NoAnswer /\ Len(added) < MaxRoutes
  /\ added' = Append(added, [how |-> how, pattern |-> pattern, method |-> method])
  /\ LET route == [method |-> method, id |-> Len(added) + 1]
     IN resources' = IF how = "route" THEN WithRoute(resources, pattern, route)
                     ELSE WithResource(resources, pattern, route)
  /\ UNCHANGED <<prefix, handlers, normalize, answer>>

(* HttpApplication::handle: the path is under the prefix, at a slash.      *)
Under(p, pre) == StartsWith(p, pre) /\ (Len(p) = Len(pre) \/ p[Len(pre) + 1] = "/")
Takes(p) == IF prefix = <<>> THEN p # <<>> /\ p[1] = "/" ELSE Under(p, prefix)

(* Router::recognize: the first pattern that fits the decoded rest.        *)
RoutePath(p) == LET rest == From(p, Len(prefix)) IN IF rest = <<>> THEN <<"/">> ELSE Decode(rest)
Matching(p) == {i \in DOMAIN resources : IsMatch(resources[i].pattern, RoutePath(p))}
HasRoute(p) ==
  LET q == IF p = <<>> THEN <<"/">> ELSE p IN \E i \in DOMAIN resources : IsMatch(resources[i].pattern, q)

(* get_handler's search of the handlers: the first under whose prefix the  *)
(* rest of the path is.                                                    *)
Handling(p) == {i \in DOMAIN handlers : Under(From(p, Len(prefix)), handlers[i])}

(* The parameter "tail" a handler is given.                                *)
TailOf(p, i) ==
  LET rest == From(p, Len(prefix) + Len(handlers[i])) IN IF rest = <<>> THEN <<>> ELSE Tail(rest)

(* NormalizePath::handle: where it redirects to, {} if it does not.        *)
MergeSlashes(p) ==
  LET kept == {i \in DOMAIN p : ~(p[i] = "/" /\ i > 1 /\ p[i - 1] = "/")}
  IN [k \in 1..Cardinality(kept) |-> p[CHOOSE i \in kept : Cardinality({j \in kept : j <= i}) = k]]
Slash(p) == p \o <<"/">>

Normalize(p) ==
  LET m == MergeSlashes(p)
      appended == IF normalize.append /\ ~EndsInSlash(p) /\ HasRoute(Slash(p)) THEN {Slash(p)} ELSE {}
  IN IF ~normalize.merge THEN appended
     ELSE IF m # p
     THEN IF HasRoute(m) THEN {m}
          ELSE IF normalize.append /\ ~EndsInSlash(m) /\ HasRoute(Slash(m)) THEN {Slash(m)}
          ELSE IF EndsInSlash(m) /\ HasRoute(TrimRight(m)) THEN {TrimRight(m)}
          ELSE appended
     ELSE IF EndsInSlash(m) /\ HasRoute(TrimRight(m)) THEN {TrimRight(m)}
     ELSE appended

(* Resource::handle: the first route whose predicates hold, or the default *)
(* resource.                                                               *)
RoutesFor(i, method) == {r \in DOMAIN resources[i].routes : resources[i].routes[r].method = method}

ByDefault(p, a) ==
  LET to == Normalize(p)
  IN IF to = {} THEN [a EXCEPT !.to = "NotFound"]
     ELSE [a EXCEPT !.to = "Redirect", !.location = CHOOSE l \in to : TRUE]

ByResource(i, p, a) ==
  LET b == [a EXCEPT !.idx = i, !.params = CHOOSE c \in Captures(Full(resources[i].pattern), RoutePath(p)) : TRUE]
      fit == RoutesFor(i, a.method)
  IN IF fit # {} THEN [b EXCEPT !.to = "Route", !.route = resources[i].routes[Min(fit)].id]
     ELSE ByDefault(p, b)

(* The whole way of a request: refused, failed on a path that does not     *)
(* decode, or answered.                                                    *)
Answer(p, method) ==
  LET a == [NoAnswer EXCEPT !.path = p, !.method = method]
  IN IF ~Takes(p) THEN [a EXCEPT !.to = "Refused"]
     ELSE IF "!" \in Range(From(p, Len(prefix))) THEN [a EXCEPT !.to = "Panic"]
     ELSE IF Matching(p) # {} THEN ByResource(Min(Matching(p)), p, a)
     ELSE IF Handling(p) # {}
     THEN [a EXCEPT !.to = "Handler", !.idx = Min(Handling(p)), !.params = <<TailOf(p, Min(Handling(p)))>>]
     ELSE ByDefault(p, a)

-----------------------------------------------------------------------------
Init ==
  /\ prefix \in {Finish(Prefix(p)) : p \in AppPrefixes}
  /\ handlers \in {<<>>} \cup {<<HandlerPath(h)>> : h \in AppPrefixes}
  /\ resources = <<>> /\ added = <<>> /\ normalize \in [append : BOOLEAN, merge : BOOLEAN]
  /\ answer = NoAnswer

Handle(p, method) ==
  /\ answer = NoAnswer /\ Len(added) > 0 /\ answer' = Answer(p, method)
  /\ UNCHANGED <<prefix, handlers, resources, added, normalize>>

Next ==
  \/ \E how \in {"route", "resource"}, pattern \in Patterns, method \in Methods : Register(how, pattern, method)
  \/ \E p \in Paths : Handle(p, "GET")

Spec == Init /\ [][Next]_vars

-----------------------------------------------------------------------------
Escaped(p) == Range(p) \cap {"%", "!"} # {}
Rest(p) == From(p, Len(prefix))
HasTail(pattern) == Bare(pattern) = <<>> \/ pattern[Len(pattern)] \in Vars

(* The values of the variables.                                            *)
TypeOK ==
  /\ answer.to \in {"none", "Refused", "Panic", "Route", "Handler", "Redirect", "NotFound"}
  /\ answer.to = "Route" => answer.route \in DOMAIN added
  /\ \A i \in DOMAIN resources : resources[i].routes # <<>>

(* The application answers the paths below its prefix, cut at a slash, and *)
(* refuses every other, which is then another application's; it hands a    *)
(* handler what follows the handler's own prefix, with nothing lost from   *)
(* it (application.rs:75, 104).                                            *)
Below(p) == p # <<>> /\ (p = prefix \/ StartsWith(p, Slash(prefix)))
TakesItsOwn ==
  /\ answer # NoAnswer => (answer.to # "Refused" <=> Below(answer.path))
  /\ answer.to = "Handler" =>
       Rest(answer.path) \in {handlers[answer.idx] \o <<"/">> \o answer.params[1],
                              handlers[answer.idx]}

(* The values captured, put back into the pattern, give the path that was  *)
(* asked for, and url_for with these values gives a link to this very      *)
(* place: if the pattern ends in a variable, for what follows the last one *)
(* is left out of the link (router.rs:305).                                *)
LinksBack ==
  (answer.to = "Route" /\ ~Escaped(answer.path)) =>
     LET pattern == resources[answer.idx].pattern
         link == UrlFor(prefix, pattern, answer.params)
     IN /\ Filled(Full(pattern), answer.params) = RoutePath(answer.path)
        /\ HasTail(pattern) => link \in {answer.path, Slash(answer.path)}

(* A route registered for a path and a method is reached, unless another   *)
(* pattern or a resource of its own comes before it and fits too.          *)
Reached ==
  (answer.to # "none" /\ Takes(answer.path) /\ answer.to # "Panic") =>
     \A i \in DOMAIN added :
        LET fits(k) == IsMatch(added[k].pattern, RoutePath(answer.path))
        IN (/\ added[i].how = "route" /\ added[i].method = answer.method /\ fits(i)
            /\ \A k \in 1..(i - 1) : fits(k) => added[k].pattern = added[i].pattern /\ added[k].how = "route")
           => answer.to = "Route" /\ added[answer.route].pattern = added[i].pattern

(* For a path that no resource has, in an application without a prefix,    *)
(* which has_route does not take into account (router.rs:96), a redirect   *)
(* of NormalizePath leads to a path of a resource, other than the one      *)
(* asked for and different from it in slashes only.  has_route does not    *)
(* ask for the method: a request for which that resource has no route may  *)
(* be redirected again, even back.                                         *)
RedirectArrives ==
  (answer.to = "Redirect" /\ prefix = <<>> /\ answer.idx = 0 /\ ~Escaped(answer.path)) =>
     /\ Takes(answer.location) /\ Matching(answer.location) # {}
     /\ answer.location # answer.path
     /\ TrimRight(MergeSlashes(answer.location)) = TrimRight(MergeSlashes(answer.path))
=============================================================================
