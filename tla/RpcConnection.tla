--------------------------- MODULE RpcConnection ---------------------------
(***************************************************************************)
(* A Client (RpcClient) and the Server's goroutines for its connection     *)
(* (RpcServer), joined by the two logs of the connection: every step is a  *)
(* step of one of them, or the network dropping the connection.            *)
(***************************************************************************)
EXTENDS RpcWire, Sequences, FiniteSets

CONSTANTS SyncCalls, Deadlined, BadArgs, OddReply, Chans, DoneOf, Cap, Faults,
          Unknown, Mistyped, Failing, BadResult, HandleTimeout, OverRead,
          MayDrop    \* may the network drop the connection ?

\* The assumptions of RpcClient and of RpcServer.
ASSUME ConnectionAssumption ==
    /\ SyncCalls \subseteq Calls
    /\ Deadlined \subseteq SyncCalls
    /\ DoneOf \in [Calls -> Chans]
    /\ Cap \in [Chans -> Nat \ {0}]
    /\ \A c \in SyncCalls, d \in Calls : DoneOf[c] = DoneOf[d] => c = d
    /\ \A c \in SyncCalls : Cap[DoneOf[c]] = 1
    /\ Faults \subseteq {"userClose", "peerClose", "peerTruncate"}
    /\ Unknown \cup Mistyped \cup Failing \cup BadResult \subseteq Calls
    /\ HandleTimeout \in BOOLEAN
    /\ OverRead \in Nat
    /\ MayDrop \in BOOLEAN

VARIABLES pc, headMutex, seq, pending, closing, shutdown, seqOf, err, reply,
          doneCh, result, wbuf, bufErr, rcv, rpos, rhead, rcall, rerr, todo,
          srv, spos, garbled, req, hst, inner, ran, starts, herr, outbox,
          sending, sbuf, sbufErr,
          c2s, s2c, cEnd, sEnd

C == INSTANCE RpcClient WITH Twice <- {}
S == INSTANCE RpcServer WITH ServerFaults <- {}

clientVars == <<pc, headMutex, seq, pending, closing, shutdown, seqOf, err, reply,
                doneCh, result, wbuf, bufErr, rcv, rpos, rhead, rcall, rerr, todo>>
serverVars == <<srv, spos, garbled, req, hst, inner, ran, starts, herr, outbox,
                sending, sbuf, sbufErr>>
vars == <<clientVars, serverVars, c2s, s2c, cEnd, sEnd>>

\* NewClient has sent the option before it starts receive; ServeConn reads it.
Init == C!Init /\ S!Init

ClientStep == rcv # "panicked" /\ C!Client /\ UNCHANGED serverVars
ServerStep == S!Server /\ UNCHANGED clientVars

\* Both ends notice that the connection is gone.
Drop ==
    /\ MayDrop /\ ~(cEnd /\ sEnd)
    /\ cEnd' = TRUE /\ sEnd' = TRUE
    /\ UNCHANGED <<clientVars, serverVars, c2s, s2c>>

Next == ClientStep \/ ServerStep \/ Drop

Spec == Init /\ [][Next]_vars

\* The fairness of both ends, each leaving the variables of the other alone.
Alone == rcv # "panicked" /\ UNCHANGED serverVars
Fairness ==
    /\ \A c \in Calls :
          /\ WF_vars(C!Send(c) /\ pc[c] # "idle" /\ Alone)
          /\ WF_vars((C!Take(c) \/ C!Cancel(c)) /\ Alone)
          /\ WF_vars((S!Called(c) \/ S!TimeOut(c)) /\ UNCHANGED clientVars)
          /\ SF_vars(S!LockSending(c) /\ UNCHANGED clientVars)
          /\ WF_vars((S!WriteHeader(c) \/ S!WriteBody(c)) /\ UNCHANGED clientVars)
    /\ WF_vars(C!Receive /\ Alone)
    /\ WF_vars(S!Serve /\ UNCHANGED clientVars)

FairSpec == Spec /\ Fairness

-----------------------------------------------------------------------------
(* Properties. *)

\* The service method of a call as RpcCalls sees it.  There "again" does not
\* exist: starting a method a second time is no step of RpcCalls.
Exec == [c \in Calls |-> IF starts[c] = 0 THEN "no"
                         ELSE IF starts[c] > 1 THEN "again"
                         ELSE IF ran[c] = "no" THEN "running" ELSE ran[c]]
Outcome == [c \in Calls |-> IF result[c] \in {"none", "ok"} THEN result[c]
                            ELSE "failed"]

Abstract == INSTANCE RpcCalls WITH exec <- Exec, outcome <- Outcome

\* Client and server together keep the promise of RpcCalls whatever happens to
\* the connection: a method is started at most once per call, and a call
\* succeeds only after its own method has returned without error.
CallsPromise == Abstract!Spec

\* As long as the connection is up every call that is made returns to its user:
\* with a HandleTimeout even if the service method never returns.
EveryCallReturns ==
    \A c \in Calls : pc[c] = "lock" ~> result[c] # "none" \/ cEnd \/ sEnd

\* A response that reports success carries the reply: both ends agree on which
\* call a sequence number stands for while calls overlap and time out.
SeqAgreement ==
    /\ \A s \in DOMAIN pending : \A i \in DOMAIN c2s :
          c2s[i].kind = "header" /\ c2s[i].seq = s => c2s[i].call = pending[s]
    /\ \A i \in DOMAIN s2c :
          s2c[i].kind = "header" => seqOf[s2c[i].call] = s2c[i].seq
=============================================================================
