------------------------------ MODULE MCGeeWeb ------------------------------
(***************************************************************************)
(* A small instance of GeeWeb.  A run sets up many routes, or groups with  *)
(* enough middlewares that two of them append to one array, or a bit of    *)
(* each.                                                                   *)
(***************************************************************************)
EXTENDS GeeWeb

MCParts == {"a", "b", "ab", ":x", "*f"}
MCParams == {":x"}
MCStars == {"*f"}
MCNameOf == ":x" :> "x" @@ "*f" :> "x"
MCBegins == {<<"a", "ab">>}

MCMiddlewares == <<"plain", "early", "recover", "logger", "auth">>
MCMay == [h \in {"plain", "early", "recover", "logger", "auth", "route", "404"} |->
             CASE h = "recover" -> {"recover"}
               [] h = "logger" -> {"next"}
               [] h = "auth" -> {"next", "panic"}
               [] h = "route" -> {"panic"}
               [] OTHER -> {}]

MCGroupPrefixes == {<<"a">>, <<":x">>, <<"a", "">>}
MCComps == {<<"">>, <<"b">>, <<":x">>, <<"a", "", "b">>, <<":x", "a">>}
MCStatics == {<<>>, <<"", "a", "">>}
MCPaths == {<<"">>, <<"a">>, <<"a", "b">>, <<"b", "a">>, <<"ab", "b">>, <<"a", "b", "b">>,
            <<"", "a", "b">>, <<"a", "", "b", "">>, <<"a", "*f", "b">>}
MCBudgets == {[groups |-> 0, uses |-> 0, routes |-> 4],
              [groups |-> 2, uses |-> 2, routes |-> 1],
              [groups |-> 1, uses |-> 3, routes |-> 1],
              [groups |-> 1, uses |-> 5, routes |-> 0]}
=============================================================================
