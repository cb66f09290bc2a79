----------------------------- MODULE MCGeeCache -----------------------------
(***************************************************************************)
(* A small instance of GeeCache: two nodes, two keys, two callers.          *)
(***************************************************************************)
EXTENDS GeeCache

CONSTANTS n1, n2, k1, k2, c1, c2   \* model values

MCNodes == {n1, n2}
MCKeys == {k1, k2}
MCChanging == {k1}
MCFailing == {k2}
MCCallers == {c1, c2}

\* k1 is small and grows, k2 is larger: with 5 bytes, k1 and k2 fit together
\* only while k1 is small.
MCSizeOf == (<<k1, 0>> :> 2 @@ <<k1, 1>> :> 3 @@ <<k2, 0>> :> 3 @@ <<k2, 1>> :> 4)

\* k2 belongs to n2; k1 falls on a position where both nodes are, so it goes to
\* the last node of a pool's list.
MCHash == (<<0, n1>> :> 5 @@ <<0, n2>> :> 5 @@ <<1, n1>> :> 12 @@ <<1, n2>> :> 9
              @@ k1 :> 3 @@ k2 :> 7)

MCInitLists == {<<n1, n2>>}
MCNextLists == {<<n2, n1>>}
=============================================================================
