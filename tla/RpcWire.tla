------------------------------ MODULE RpcWire ------------------------------
(***************************************************************************)
(* What geerpc puts on a connection (geerpc/codec).  Each direction is a   *)
(* log of gob values: every message is a header value followed by a body   *)
(* value, written by GobCodec.Write and read one value at a time by        *)
(* ReadHeader and ReadBody.  The method, the arguments and the result are  *)
(* abstracted to the call they belong to.                                  *)
(***************************************************************************)
EXTENDS Naturals

CONSTANTS Calls,    \* the calls of the client's user
          NoCall    \* Go's nil *Call; also "no reply value"

ASSUME WireAssumption == NoCall \notin Calls

\* One gob value of the stream.
Unit == [kind   : {"header", "body"},
         seq    : Nat,                    \* Header.Seq, 0 in a body
         call   : Calls \cup {NoCall},    \* whose method, arguments or result
         failed : BOOLEAN]                \* Header.Error # ""

\* codec.Header: service method, sequence number, error text.
HeaderUnit(seq, call, failed) ==
    [kind |-> "header", seq |-> seq, call |-> call, failed |-> failed]

\* A body: the arguments or the result of call; NoCall is the empty struct
\* the server sends as the body of an error (invalidRequestResponse).
BodyUnit(call) ==
    [kind |-> "body", seq |-> 0, call |-> call, failed |-> FALSE]

\* The next value of a log that has been read up to pos.
Ready(log, pos, kind) ==
    pos + 1 \in DOMAIN log /\ log[pos + 1].kind = kind

\* gob reports an error, and consumes the value, when the types do not match.
Mismatch(log, pos, kind) ==
    pos + 1 \in DOMAIN log /\ log[pos + 1].kind # kind
=============================================================================
