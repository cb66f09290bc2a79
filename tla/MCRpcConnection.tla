-------------------------- MODULE MCRpcConnection --------------------------
(***************************************************************************)
(* Small instances of RpcConnection: two synchronous calls on one          *)
(* connection.                                                             *)
(***************************************************************************)
EXTENDS RpcConnection

CONSTANTS a, b   \* model values

MCPair == {a, b}
MCOnlyA == {a}
MCOnlyB == {b}
MCNone == {}
MCOwnChannel == [c \in Calls |-> c]
MCCapOne == [ch \in Chans |-> 1]
MCUserCloses == {"userClose"}
=============================================================================
