---------------------------- MODULE MCRpcClient ----------------------------
(***************************************************************************)
(* Small instances of RpcClient: two or three calls, one or two Done       *)
(* channels shared by asynchronous calls.                                  *)
(***************************************************************************)
EXTENDS RpcClient

CONSTANTS a, b, g   \* model values: a, b synchronous, g asynchronous

MCPair == {a, b}
MCThree == {a, b, g}
MCMixed == {a, g}
MCOnlyA == {a}
MCOnlyG == {g}
MCAsync == {b, g}    \* two asynchronous calls
MCNone == {}

MCOwnChannel == [c \in Calls |-> c]
MCShared == [c \in Calls |-> IF c = a THEN a ELSE g]
MCChans == {MCShared[c] : c \in Calls}
MCCapOne == [ch \in Chans |-> 1]

MCAllFaults == {"userClose", "peerClose", "peerTruncate"}
=============================================================================
