-------------------------------- MODULE Trie --------------------------------
(***************************************************************************)
(* geeweb/gee/trie.go: the trie of one HTTP method, as a sequence of       *)
(* nodes in the order they were made, the root first, so that the children *)
(* of a node are in the order of its slice.                                *)
(*                                                                         *)
(* A text, of a pattern or of a path, has one item for each of its         *)
(* slashes: what stands behind it, which is a part or nothing.  "/v1//b"   *)
(* is <<"v1", "", "b">>, "/v1/" is <<"v1", "">>.  The router works on the  *)
(* parts alone (ParsePattern).  A node keeps the parts of its pattern:     *)
(* getRoute takes the parts of the text that the code keeps there.         *)
(***************************************************************************)
EXTENDS Naturals, Sequences, FiniteSets, SequencesExt

CONSTANTS Parts,     \* parts of patterns and paths
          Params,    \* those that begin with a colon
          Stars,     \* those that begin with an asterisk and have a name
          NameOf,    \* the name of each of these, what follows its first character
          NoPattern  \* the pattern of a node where no route ends

ASSUME TrieAssumption ==
    /\ Params \subseteq Parts /\ Stars \subseteq Parts /\ Params \cap Stars = {}
    /\ "" \notin Parts /\ NoPattern \notin Seq(Parts)

Empty == ""
Items == Parts \cup {Empty}
Texts == Seq(Items)

Wild(part) == part \in Params \cup Stars

\* The loop of parsePattern breaks behind an asterisk.
Ended(parts) == parts # <<>> /\ Last(parts) \in Stars

\* parsePattern: the items that are not empty, up to the first asterisk.
ParsePattern(text) ==
    LET upTo[i \in 0 .. Len(text)] ==
            IF i = 0 THEN <<>>
            ELSE LET parts == upTo[i - 1]
                 IN IF text[i] = Empty \/ Ended(parts) THEN parts ELSE Append(parts, text[i])
    IN upTo[Len(text)]

Root == <<[parent |-> 0, part |-> "", pattern |-> NoPattern]>>

\* matchChildren: the children that a part is led to, in order.
MatchChildren(t, n, part) ==
    {c \in DOMAIN t : t[c].parent = n /\ (t[c].part = part \/ Wild(t[c].part))}

\* The first of some nodes, 0 for none.
First(nodes) == IF nodes = {} THEN 0 ELSE CHOOSE c \in nodes : \A d \in nodes : c <= d

\* matchChild: the child a part of a new pattern goes to.
MatchChild(t, n, part) == First(MatchChildren(t, n, part))

\* insert, one part further: down to a child, which is made if it is missing.
Down(at, part) ==
    LET c == MatchChild(at.t, at.n, part)
    IN IF c # 0 THEN [at EXCEPT !.n = c]
       ELSE [t |-> Append(at.t, [parent |-> at.n, part |-> part, pattern |-> NoPattern]),
             n |-> Len(at.t) + 1]

\* insert: down the tree part by part; the last node's pattern is replaced.
Insert(t, pattern) ==
    LET down[height \in 0 .. Len(pattern)] ==
            IF height = 0 THEN [t |-> t, n |-> 1]
            ELSE Down(down[height - 1], pattern[height])
        end == down[Len(pattern)]
    IN [end.t EXCEPT ![end.n].pattern = pattern]

\* Mutant: no going back, the first child that matches decides.
SearchOnce(t, path) ==
    LET found[height \in 0 .. Len(path)] == [n \in DOMAIN t |->
            IF height = Len(path) \/ t[n].part \in Stars
            THEN IF t[n].pattern = NoPattern THEN 0 ELSE n
            ELSE LET c == First(MatchChildren(t, n, path[height + 1]))
                 IN IF c = 0 THEN 0 ELSE found[height + 1][c]]
    IN found[0][1]

\* search: depth first, in the order of the children, going back where a branch
\* ends without a route.  A node with an asterisk takes the rest of the path.
\* The node found, or 0, by the height and the node the search has come to.
Search(t, path) ==
    LET found[height \in 0 .. Len(path)] == [n \in DOMAIN t |->
            IF height = Len(path) \/ t[n].part \in Stars
            THEN IF t[n].pattern = NoPattern THEN 0 ELSE n
            ELSE LET hits == {c \in MatchChildren(t, n, path[height + 1]) :
                                found[height + 1][c] # 0}
                 IN IF hits = {} THEN 0 ELSE found[height + 1][First(hits)]]
    IN found[0][1]

\* The i-th part of a pattern gives a parameter of this name its value.
Names(pattern, i, name) == Wild(pattern[i]) /\ NameOf[pattern[i]] = name

\* getRoute: what the parameters of a pattern are given by a path, one part or,
\* for an asterisk, all that is left.  Of a name used twice the last counts.
RouteParams(pattern, path) ==
    [name \in {NameOf[p] : p \in {q \in ToSet(pattern) : Wild(q)}} |->
        LET i == CHOOSE n \in DOMAIN pattern :
                    /\ Names(pattern, n, name)
                    /\ \A m \in n + 1 .. Len(pattern) : ~Names(pattern, m, name)
        IN SubSeq(path, i, IF pattern[i] \in Stars THEN Len(path) ELSE i)]

-----------------------------------------------------------------------------
(* What a pattern means, without a trie: here a pattern and a path are their parts. *)

Matches(pattern, path) ==
    /\ \A i \in DOMAIN pattern :
          i \in DOMAIN path /\ (pattern[i] = path[i] \/ Wild(pattern[i]))
    /\ Len(path) > Len(pattern) => pattern # <<>> /\ Last(pattern) \in Stars

\* Two parts are of one kind if they match the same parts of a path.
SameKind(p, q) ==
    p = q \/ {p, q} \subseteq Params \/ {p, q} \subseteq Stars

\* The j-th route is led astray: at its i-th part it comes to a wildcard of an
\* earlier route that is none of its own, before any node made for such a part.
SameWay(p, q, i) == \A n \in 1 .. i : n \in DOMAIN p \cap DOMAIN q /\ SameKind(p[n], q[n])
Astray(routes, j) ==
    \E i \in DOMAIN routes[j], k \in 1 .. j - 1 :
       /\ SameWay(routes[k], routes[j], i - 1) /\ i \in DOMAIN routes[k]
       /\ Wild(routes[k][i]) /\ ~SameKind(routes[k][i], routes[j][i])
       /\ \A l \in 1 .. k - 1 : ~SameWay(routes[l], routes[j], i)

Orderly(routes) == \A j \in DOMAIN routes : ~Astray(routes, j)
=============================================================================
