---------------------------- MODULE MCRpcServer ----------------------------
(***************************************************************************)
(* Small instances of RpcServer: up to three requests on one connection.   *)
(***************************************************************************)
EXTENDS RpcServer

CONSTANTS a, b, g   \* model values

MCPair == {a, b}
MCThree == {a, b, g}
MCOnlyA == {a}
MCOnlyB == {b}
MCOnlyG == {g}
MCNone == {}
MCCloses == {"clientClose", "clientTruncate"}
MCAllFaults == {"badOption", "clientClose", "clientTruncate"}
=============================================================================
