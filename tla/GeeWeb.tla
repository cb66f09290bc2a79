------------------------------- MODULE GeeWeb -------------------------------
(***************************************************************************)
(* geeweb/gee: an Engine is set up (groups, middlewares, routes), and then *)
(* serves a request.  Requests share nothing but the engine: each has a    *)
(* Context and a handler list of its own, so one is followed.              *)
(*                                                                         *)
(* Slices matter: Group copies the slice of its parent's middlewares, that *)
(* is a length and a reference to an array with room to append to.         *)
(* The engine compares texts, the router their parts (Trie): "//v1/b" has  *)
(* the parts of "/v1/b" but not the prefix "/v1".  Every text begins with  *)
(* a slash or is empty.  There is one HTTP method.                         *)
(***************************************************************************)
EXTENDS Trie

CONSTANTS Middlewares,  \* the middlewares, in the order Use is given them
          May,          \* what each handler may do: "next", "panic", "recover"
          GroupPrefixes, \* arguments of Group
          Comps,        \* arguments of GET, none of them empty: GET on the engine
                        \* would take the route of "/" away
          Statics,      \* first arguments of Static
          Paths,        \* texts of the paths of requests
          Begins,       \* <<p, q>>: the text of part p begins that of part q
          Budgets,      \* bounds on the calls of Group, Use and GET together
          MaxNext       \* bound on the calls of Next by one handler

Handlers == DOMAIN May

ASSUME GeeWebAssumption ==
    /\ \A h \in Handlers : May[h] \subseteq {"next", "panic", "recover"}
    /\ {"route", "404"} \subseteq Handlers
    /\ Middlewares \in Seq(Handlers) /\ MaxNext \in Nat
    /\ \A b \in Budgets : b \in [groups : Nat, uses : 0 .. Len(Middlewares), routes : Nat]
    /\ GroupPrefixes \cup Comps \cup Statics \cup Paths \subseteq Texts
    /\ <<>> \notin Comps

VARIABLES nodes,    \* the trie
          routes,   \* the routes registered, in order: parts of the pattern, group
          groups,   \* engine.groups: prefix, parent and a slice; own is what
                    \* Use has given the group
          arrays,   \* the arrays behind the slices, as long as their capacity
          clash,    \* history: an append has written over another group's
          left,     \* what is left of the budget
          path,     \* of the request, once there is one
          found,    \* the node the router has found for it, or 0
          params,   \* Context.Params
          handlers, \* Context.handlers
          index,    \* Context.index, counted from 1
          active,   \* the handlers running, innermost first
          at,       \* "setup", in a "loop" of Next, in a "handler", or the end
          started   \* history: the handlers started so far

setupVars == <<nodes, routes, groups, arrays, clash>>
requestVars == <<path, found, params, handlers, index, active, started>>
vars == <<setupVars, left, requestVars, at>>

\* New: the engine is a group without a prefix.
Init ==
    /\ nodes = Root /\ routes = <<>>
    /\ groups = <<[prefix |-> <<>>, parent |-> 1, array |-> 1, len |-> 0, own |-> {}]>>
    /\ arrays = << <<>> >> /\ clash = FALSE
    /\ left \in Budgets
    /\ path = <<>> /\ found = 0 /\ params = <<>> /\ handlers = <<>> /\ index = 0 /\ active = <<>>
    /\ started = <<>> /\ at = "setup"

-----------------------------------------------------------------------------
(* Setting up. *)

Setup(what) == at = "setup" /\ left[what] > 0 /\ left' = [left EXCEPT ![what] = @ - 1]

\* The middlewares a group's slice holds.
Held(g) == SubSeq(arrays[groups[g].array], 1, groups[g].len)

\* RouterGroup.Group: the new group starts with its parent's slice.
Group(g, prefix) ==
    /\ Setup("groups")
    /\ groups' = Append(groups, [groups[g] EXCEPT !.prefix = @ \o prefix, !.parent = g, !.own = {}])
    /\ UNCHANGED <<nodes, routes, arrays, clash, requestVars, at>>

\* Mutant: Use replaces what the group has.
UseReplaces(g) ==
    /\ Setup("uses")
    /\ LET m == Middlewares[Len(Middlewares) - left'.uses]
       IN /\ arrays' = Append(arrays, <<m>>)
          /\ groups' = [groups EXCEPT ![g].array = Len(arrays) + 1, ![g].len = 1,
                                      ![g].own = @ \cup {m}]
    /\ UNCHANGED <<nodes, routes, clash, requestVars, at>>

\* RouterGroup.Use: append writes behind the group's middlewares if the array
\* has room there, and otherwise copies them to an array twice as long.
Use(g) ==
    /\ Setup("uses")
    /\ LET m == Middlewares[Len(Middlewares) - left'.uses]
           slice == groups[g]
           room == slice.len < Len(arrays[slice.array])
       IN /\ arrays' = IF room THEN [arrays EXCEPT ![slice.array][slice.len + 1] = m]
                       ELSE Append(arrays, Held(g) \o <<m>>
                                           \o [i \in 1 .. slice.len - 1 |-> "empty"])
          /\ groups' = [groups EXCEPT ![g].array = IF room THEN @ ELSE Len(arrays) + 1,
                                      ![g].len = @ + 1, ![g].own = @ \cup {m}]
          /\ clash' = (clash \/ (room /\ \E h \in DOMAIN groups :
                          groups[h].array = slice.array /\ groups[h].len > slice.len))
    /\ UNCHANGED <<nodes, routes, requestVars, at>>

\* RouterGroup.GET, and router.addRoute.  Texts with the same parts lead to one
\* node, where the handler of the last one counts.
GET(g, comp) ==
    /\ Setup("routes")
    /\ LET pattern == ParsePattern(groups[g].prefix \o comp)
       IN /\ nodes' = Insert(nodes, pattern)
          /\ routes' = Append(routes, [pattern |-> pattern, group |-> g])
    /\ UNCHANGED <<groups, arrays, clash, requestVars, at>>

\* RouterGroup.Static adds a route for the files below a path.  The items that
\* path.Join takes out of the text are empty, and no parts of the pattern.
Static(g, relative) == \E filepath \in Stars : GET(g, relative \o <<filepath>>)

-----------------------------------------------------------------------------
(* A request. *)

\* strings.HasPrefix, on texts: "/ab" has the prefix "/a", and "/a/b" has "/a/".
HasPrefix(p, prefix) ==
    /\ Len(prefix) <= Len(p)
    /\ \A i \in DOMAIN prefix :
          \/ p[i] = prefix[i]
          \/ i = Len(prefix) /\ (prefix[i] = Empty \/ <<prefix[i], p[i]>> \in Begins)

\* The middlewares of all groups whose prefix the path has, and, added by handle,
\* the handler of the route, or the 404.
HandlersFor(p, node) ==
    FlattenSeq([g \in DOMAIN groups |->
                  IF HasPrefix(p, groups[g].prefix) THEN Held(g) ELSE <<>>])
    \o <<IF node = 0 THEN "404" ELSE "route">>

\* Engine.ServeHTTP, up to the call of Next.
Serve(p) ==
    /\ at = "setup"
    /\ path' = p /\ found' = Search(nodes, ParsePattern(p))
    /\ params' = IF found' = 0 THEN <<>>
                 ELSE RouteParams(nodes[found'].pattern, ParsePattern(p))
    /\ handlers' = HandlersFor(p, found')
    /\ index' = 1 /\ at' = "loop"
    /\ UNCHANGED <<setupVars, left, active, started>>

\* The loop of the innermost Next starts a handler, or returns to the one that
\* has called Next.
Loop ==
    /\ at = "loop"
    /\ \/ /\ index <= Len(handlers)
          /\ active' = <<[handler |-> index, nexts |-> 0]>> \o active
          /\ started' = Append(started, index)
          /\ at' = "handler"
       \/ /\ index > Len(handlers)
          /\ at' = IF active = <<>> THEN "done" ELSE "handler"
          /\ UNCHANGED <<active, started>>
    /\ UNCHANGED <<setupVars, left, path, found, params, handlers, index>>

Can(what) == what \in May[handlers[active[1].handler]]

\* The handler calls Next.
CallNext ==
    /\ at = "handler" /\ (Can("next") \/ Can("recover"))
    /\ active[1].nexts < IF Can("recover") THEN 1 ELSE MaxNext
    /\ active' = [active EXCEPT ![1].nexts = @ + 1]
    /\ index' = index + 1 /\ at' = "loop"
    /\ UNCHANGED <<setupVars, left, path, found, params, handlers, started>>

\* Mutant: the loop of Next forgets index++.
ReturnsStays ==
    /\ at = "handler" /\ (Can("recover") => active[1].nexts = 1)
    /\ active' = Tail(active) /\ UNCHANGED index /\ at' = "loop"
    /\ UNCHANGED <<setupVars, left, path, found, params, handlers, started>>

\* It returns, and the loop that has started it goes on.
Returns ==
    /\ at = "handler" /\ (Can("recover") => active[1].nexts = 1)
    /\ active' = Tail(active) /\ index' = index + 1 /\ at' = "loop"
    /\ UNCHANGED <<setupVars, left, path, found, params, handlers, started>>

\* It panics.  The innermost Recover that is running returns normally, so that
\* the loop which has started that goes on; the deferred Recover() of handle
\* only makes a handler.
Panics ==
    /\ at = "handler" /\ Can("panic")
    /\ LET recovering == {i \in DOMAIN active : "recover" \in May[handlers[active[i].handler]]}
       IN IF recovering = {} THEN at' = "crashed" /\ UNCHANGED <<active, index>>
          ELSE /\ active' = SubSeq(active, First(recovering) + 1, Len(active))
               /\ index' = index + 1 /\ at' = "loop"
    /\ UNCHANGED <<setupVars, left, path, found, params, handlers, started>>

-----------------------------------------------------------------------------
Next ==
    \/ \E g \in DOMAIN groups :
          \/ Use(g)
          \/ \E prefix \in GroupPrefixes : Group(g, prefix)
          \/ \E comp \in Comps : GET(g, comp)
          \/ \E relative \in Statics : Static(g, relative)
    \/ \E p \in Paths : Serve(p)
    \/ Loop \/ CallNext \/ Returns \/ Panics

Spec == Init /\ [][Next]_vars

-----------------------------------------------------------------------------
(* Properties. *)

\* Every variable keeps to its type.
TypeOK ==
    /\ \A n \in DOMAIN nodes : nodes[n].parent \in 0 .. n - 1
    /\ \A g \in DOMAIN groups : groups[g].array \in DOMAIN arrays
                                /\ groups[g].len <= Len(arrays[groups[g].array])
    /\ found \in 0 .. Len(nodes) /\ index \in Nat
    /\ at \in {"setup", "loop", "handler", "done", "crashed"}

Requested == at # "setup"
Patterns == [i \in DOMAIN routes |-> routes[i].pattern]

\* A pattern with its parameters filled in, and whether they all differ in name.
Filled(pattern) ==
    FlattenSeq([i \in DOMAIN pattern |->
        IF Wild(pattern[i]) THEN params[NameOf[pattern[i]]] ELSE <<pattern[i]>>])
NamesDiffer(pattern) ==
    \A i, j \in DOMAIN pattern :
        Wild(pattern[i]) /\ Wild(pattern[j]) /\ NameOf[pattern[i]] = NameOf[pattern[j]] => i = j

\* Where no route has been led astray by a wildcard registered before it, a
\* request gets a route exactly if one matches the parts of its path, and one that
\* does, with parameters that, put into the pattern, give these parts.  In any case
\* it is a route with a handler, and getRoute does not look behind the path's end.
RoutedRight ==
    Requested =>
        LET pattern == nodes[found].pattern
            parts == ParsePattern(path)
        IN /\ found # 0 => /\ \E i \in DOMAIN routes : routes[i].pattern = pattern
                           /\ Len(pattern) <= Len(parts)
           /\ Orderly(Patterns) =>
                 /\ found # 0 => /\ Matches(pattern, parts)
                                 /\ NamesDiffer(pattern) => Filled(pattern) = parts
                 /\ found = 0 => \A i \in DOMAIN routes : ~Matches(routes[i].pattern, parts)

\* Whatever handlers return early, call Next, even twice, or panic under Recover,
\* each runs at most once and in order, none is left out, and what a middleware
\* does after Next comes when all the others have been started.
EachOnce ==
    /\ \A i \in DOMAIN started : started[i] = i
    /\ at = "done" => Len(started) = Len(handlers)
    /\ at = "handler" /\ active[1].nexts > 0 => Len(started) = Len(handlers)

\* A group and the groups it is in: what any set that holds it and, with a
\* group, its parent has to hold.
Ancestors(g) ==
    {h \in DOMAIN groups :
        \A line \in SUBSET DOMAIN groups :
            g \in line /\ (\A k \in line : groups[k].parent \in line) => h \in line}

\* A prefix means the same to the engine, which compares it with the text of the
\* path, and to the router, which matches parts: it has neither wildcards nor
\* slashes too many, and the path has none of these as far as the prefix goes.
Plain(prefix) == \A n \in DOMAIN prefix : prefix[n] # Empty /\ ~Wild(prefix[n])
PlainAlong(prefix, p) == \A n \in DOMAIN prefix \cap DOMAIN p : p[n] # Empty

\* A route runs with all the middlewares used on its group and on the groups
\* that is in, whether before or after the route was added, and a request with
\* none that was not used on a group whose prefix it has.  This takes that no two
\* groups have appended to one array, a route that matches the path, and a prefix
\* and a path that are plain: a request for "//v1/b" gets the route of "/v1/b" in
\* the group "/v1" without the group's middlewares.
GuardedRoutes ==
    Requested /\ ~clash =>
        LET run == {handlers[i] : i \in 1 .. Len(handlers) - 1}
        IN /\ \A m \in run : \E g \in DOMAIN groups :
                 m \in groups[g].own /\ HasPrefix(path, groups[g].prefix)
           /\ \A i \in DOMAIN routes :
                 LET prefix == groups[routes[i].group].prefix
                 IN /\ found # 0 /\ routes[i].pattern = nodes[found].pattern
                    /\ Matches(routes[i].pattern, ParsePattern(path))
                    /\ Plain(prefix) /\ PlainAlong(prefix, path)
                    => \A g \in Ancestors(routes[i].group) : groups[g].own \subseteq run
=============================================================================
