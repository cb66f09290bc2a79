----------------------------- MODULE RpcServer -----------------------------
(***************************************************************************)
(* geerpc/server.go: Server.ServeConn on one connection.  The serving      *)
(* goroutine negotiates the codec and reads requests; every request gets a *)
(* handleRequest goroutine, which starts another one to run the service    *)
(* method and then answers under the mutex `sending'.                      *)
(*                                                                         *)
(* A request is identified with its call: the client sends each call once. *)
(* The client is the ClientXxx actions here; RpcClient takes their place   *)
(* in RpcConnection.                                                       *)
(***************************************************************************)
EXTENDS RpcWire, Sequences, FiniteSets

CONSTANTS Unknown,        \* calls of a method no service has
          Mistyped,       \* calls whose arguments do not decode as the method's
          Failing,        \* calls whose method may return an error
          BadResult,      \* calls whose result gob may fail to encode
          HandleTimeout,  \* is Option.HandleTimeout > 0 ?
          OverRead,       \* how many values json.Decoder may read too many
          ServerFaults    \* "badOption", "clientClose", "clientTruncate"

ASSUME ServerAssumption ==
    /\ Unknown \cup Mistyped \cup Failing \cup BadResult \subseteq Calls
    /\ HandleTimeout \in BOOLEAN
    /\ OverRead \in Nat
    /\ ServerFaults \subseteq {"badOption", "clientClose", "clientTruncate"}

VARIABLES
    srv,       \* where ServeConn and ServeCodec are
    spos,      \* how much of c2s has been consumed
    garbled,   \* the option decoder has swallowed part of the gob stream
    req,       \* the header readRequest has just read
    hst,       \* where the goroutine answering each request is
    inner,     \* the goroutine that runs the service method
    ran,       \* the outcome of the service method
    starts,    \* history: how often the service method has been started
    herr,      \* req.h.Error # "", per request
    outbox,    \* the bodies handleRequest has still to send
    sending,   \* the request whose sendResponse holds the mutex, or NoCall
    sbuf,      \* the server's GobCodec.buf
    sbufErr,   \* the sticky error of that buffer
    c2s, s2c,  \* the two directions of the connection
    cEnd, sEnd \* the client's, the server's end has been closed

loopVars == <<srv, spos, garbled, req>>
handVars == <<hst, inner, ran, starts, herr, outbox>>
sendVars == <<sending, sbuf, sbufErr>>
wireVars == <<c2s, s2c, cEnd, sEnd>>
vars == <<loopVars, handVars, sendVars, wireVars>>

Init ==
    /\ srv = "option" /\ spos = 0 /\ garbled = FALSE
    /\ req = HeaderUnit(0, NoCall, FALSE)
    /\ hst = [c \in Calls |-> "none"]
    /\ inner = [c \in Calls |-> "none"]
    /\ ran = [c \in Calls |-> "no"]
    /\ starts = [c \in Calls |-> 0]
    /\ herr = [c \in Calls |-> FALSE]
    /\ outbox = [c \in Calls |-> <<>>]
    /\ sending = NoCall /\ sbuf = <<>> /\ sbufErr = FALSE
    /\ c2s = <<>> /\ s2c = <<>> /\ cEnd = FALSE /\ sEnd = FALSE

-----------------------------------------------------------------------------
(* The serving goroutine. *)

\* ServeConn: json.Decoder reads the option, and whatever has arrived with it
\* into a buffer of its own that the gob decoder never sees.  The gob stream
\* then lacks the type definitions of its first values.
ReadOption ==
    /\ srv = "option"
    /\ \/ /\ srv' = "header"
          /\ spos' \in {n \in 0 .. OverRead : n <= Len(c2s)}
          /\ garbled' = (spos' > 0)
          /\ UNCHANGED sEnd
       \/ /\ "badOption" \in ServerFaults   \* undecodable, wrong magic or codec
          /\ srv' = "closed"
          /\ sEnd' = TRUE
          /\ UNCHANGED <<spos, garbled>>
    /\ UNCHANGED <<req, handVars, sendVars, c2s, s2c, cEnd>>

\* A read fails once an end is closed (values may be lost with the connection)
\* or when the next value has another type.
Broken(kind) == cEnd \/ sEnd \/ Mismatch(c2s, spos, kind)

\* readRequest: the header.  Any error ends the loop without an answer.
ReadRequestHeader ==
    /\ srv = "header"
    /\ \/ /\ ~garbled /\ Ready(c2s, spos, "header")
          /\ req' = c2s[spos + 1]
          /\ spos' = spos + 1
          /\ srv' = "args"
       \/ /\ Broken("header") \/ (garbled /\ spos < Len(c2s))
          /\ srv' = "wait"
          /\ UNCHANGED <<req, spos>>
    /\ UNCHANGED <<garbled, handVars, sendVars, wireVars>>

\* findServiceMethod finds no method, or the arguments have another type.
Refused == Unknown \cup Mistyped

\* readRequest fails after the header: findServiceMethod does not know the
\* method (the body is then skipped, an error doing so ignored), or the
\* arguments cannot be read.  ServeCodec answers with the error.
RejectRequest ==
    /\ srv = "args"
    /\ \/ /\ req.call \in Refused /\ Ready(c2s, spos, "body")
          /\ spos' = spos + 1
       \/ /\ Broken("body")
          /\ UNCHANGED spos
    /\ srv' = "rejecting"
    /\ hst' = [hst EXCEPT ![req.call] = "locking"]
    /\ herr' = [herr EXCEPT ![req.call] = TRUE]
    /\ outbox' = [outbox EXCEPT ![req.call] = <<NoCall>>]
    /\ UNCHANGED <<garbled, req, inner, ran, starts, sendVars, wireVars>>

\* Mutant: the decoder gives the same request once more.
AcceptRequestAgain ==
    /\ srv = "args"
    /\ req.call \notin Refused /\ Ready(c2s, spos, "body")
    /\ spos' = spos - 1
    /\ srv' = "header"
    /\ hst' = [hst EXCEPT ![req.call] = "calling"]
    /\ inner' = [inner EXCEPT ![req.call] = "running"]
    /\ starts' = [starts EXCEPT ![req.call] = @ + 1]
    /\ UNCHANGED <<garbled, req, ran, herr, outbox, sendVars, wireVars>>

\* A good request: wg.Add(1), go handleRequest, which starts the service.
AcceptRequest ==
    /\ srv = "args"
    /\ req.call \notin Refused /\ Ready(c2s, spos, "body")
    /\ spos' = spos + 1
    /\ srv' = "header"
    /\ hst' = [hst EXCEPT ![req.call] = "calling"]
    /\ inner' = [inner EXCEPT ![req.call] = "running"]
    /\ starts' = [starts EXCEPT ![req.call] = @ + 1]
    /\ UNCHANGED <<garbled, req, ran, herr, outbox, sendVars, wireVars>>

\* sendResponse has returned in ServeCodec: break.
LeaveLoop ==
    /\ srv = "rejecting" /\ hst[req.call] = "ended"
    /\ srv' = "wait"
    /\ UNCHANGED <<spos, garbled, req, handVars, sendVars, wireVars>>

\* Mutant: no wg.Wait().
CloseConnAtOnce ==
    /\ srv = "wait"
    /\ srv' = "closed"
    /\ sEnd' = TRUE
    /\ UNCHANGED <<spos, garbled, req, handVars, sendVars, c2s, s2c, cEnd>>

\* wg.Wait() returns, cc.Close(), and ServeConn's deferred conn.Close().
CloseConn ==
    /\ srv = "wait"
    /\ \A c \in Calls : hst[c] \in {"none", "ended"}
    /\ srv' = "closed"
    /\ sEnd' = TRUE
    /\ UNCHANGED <<spos, garbled, req, handVars, sendVars, c2s, s2c, cEnd>>

-----------------------------------------------------------------------------
(* handleRequest. *)

\* Mutant: the error of the method is not copied to the header.
ServiceErrorLost(c) ==
    /\ inner[c] = "running"
    /\ inner' = [inner EXCEPT ![c] = "returning"]
    /\ \/ ran' = [ran EXCEPT ![c] = "ok"]
       \/ c \in Failing /\ ran' = [ran EXCEPT ![c] = "error"]
    /\ UNCHANGED <<loopVars, hst, starts, herr, outbox, sendVars, wireVars>>

\* service.call returns in the inner goroutine, which then blocks sending on
\* the unbuffered channel `called'.
ServiceReturns(c) ==
    /\ inner[c] = "running"
    /\ inner' = [inner EXCEPT ![c] = "returning"]
    /\ \/ /\ ran' = [ran EXCEPT ![c] = "ok"]
          /\ UNCHANGED herr
       \/ /\ c \in Failing
          /\ ran' = [ran EXCEPT ![c] = "error"]
          /\ herr' = [herr EXCEPT ![c] = TRUE]
    /\ UNCHANGED <<loopVars, hst, starts, outbox, sendVars, wireVars>>

\* Mutant: the return after the error response is missing.
CalledFallsThrough(c) ==
    /\ hst[c] = "calling" /\ inner[c] = "returning"
    /\ inner' = [inner EXCEPT ![c] = "ended"]
    /\ hst' = [hst EXCEPT ![c] = "locking"]
    /\ outbox' = [outbox EXCEPT ![c] =
                     IF ~herr[c] THEN <<c>>
                     ELSE <<NoCall, c>>]
    /\ UNCHANGED <<loopVars, ran, starts, herr, sendVars, wireVars>>

\* <-called.  Without a timeout an error is answered, and then the reply value
\* is sent as well.
Called(c) ==
    /\ hst[c] = "calling" /\ inner[c] = "returning"
    /\ inner' = [inner EXCEPT ![c] = "ended"]
    /\ hst' = [hst EXCEPT ![c] = "locking"]
    /\ outbox' = [outbox EXCEPT ![c] =
                     IF ~herr[c] THEN <<c>>
                     ELSE IF HandleTimeout THEN <<NoCall>> ELSE <<NoCall, c>>]
    /\ UNCHANGED <<loopVars, ran, starts, herr, sendVars, wireVars>>

\* Mutant: Header.Error is not set on a timeout.
TimeOutForgets(c) ==
    /\ HandleTimeout /\ hst[c] = "calling"
    /\ hst' = [hst EXCEPT ![c] = "locking"]
    /\ outbox' = [outbox EXCEPT ![c] = <<NoCall>>]
    /\ UNCHANGED <<loopVars, herr, inner, ran, starts, sendVars, wireVars>>

\* Mutant: the timer is not part of the select.
TimeOutIgnored(c) ==
    /\ FALSE /\ hst[c] = "calling"
    /\ hst' = [hst EXCEPT ![c] = "locking"]
    /\ herr' = [herr EXCEPT ![c] = TRUE]
    /\ outbox' = [outbox EXCEPT ![c] = <<NoCall>>]
    /\ UNCHANGED <<loopVars, inner, ran, starts, sendVars, wireVars>>

\* <-time.After(timeout): nobody will receive from `called' any more.
TimeOut(c) ==
    /\ HandleTimeout /\ hst[c] = "calling"
    /\ hst' = [hst EXCEPT ![c] = "locking"]
    /\ herr' = [herr EXCEPT ![c] = TRUE]
    /\ outbox' = [outbox EXCEPT ![c] = <<NoCall>>]
    /\ UNCHANGED <<loopVars, inner, ran, starts, sendVars, wireVars>>

\* Mutant: sendResponse does not take the mutex.
LockSendingFree(c) ==
    /\ hst[c] = "locking"
    /\ sending' = c
    /\ hst' = [hst EXCEPT ![c] = "header"]
    /\ UNCHANGED <<loopVars, inner, ran, starts, herr, outbox, sbuf, sbufErr, wireVars>>

\* sendResponse: sending.Lock().
LockSending(c) ==
    /\ hst[c] = "locking" /\ sending = NoCall
    /\ sending' = c
    /\ hst' = [hst EXCEPT ![c] = "header"]
    /\ UNCHANGED <<loopVars, inner, ran, starts, herr, outbox, sbuf, sbufErr, wireVars>>

\* sendResponse returns: the next response of this request, or the end.
Answered(c) ==
    /\ outbox' = [outbox EXCEPT ![c] = Tail(@)]
    /\ hst' = [hst EXCEPT ![c] = IF Len(outbox[c]) > 1 THEN "locking" ELSE "ended"]
    /\ sending' = NoCall

\* The header of the request, encoded as it is now.
HeaderNow(c) ==
    HeaderUnit(CHOOSE s \in {c2s[i].seq : i \in {j \in DOMAIN c2s :
                   c2s[j].kind = "header" /\ c2s[j].call = c}} : TRUE, c, herr[c])

\* GobCodec.Write, first half.
WriteHeader(c) ==
    /\ hst[c] = "header"
    /\ \/ /\ sbufErr
          /\ Answered(c)
          /\ UNCHANGED sbuf
       \/ /\ ~sbufErr
          /\ sbuf' = Append(sbuf, HeaderNow(c))
          /\ hst' = [hst EXCEPT ![c] = "body"]
          /\ UNCHANGED <<outbox, sending>>
    /\ UNCHANGED <<loopVars, inner, ran, starts, herr, sbufErr, wireVars>>

\* What is written to a connection the client has closed is lost.
FlushOK(units) ==
    /\ ~sEnd
    /\ sbuf' = <<>>
    /\ s2c' = IF cEnd THEN s2c ELSE s2c \o units
    /\ UNCHANGED sbufErr
FlushFails ==
    /\ cEnd \/ sEnd
    /\ sbuf' = <<>>
    /\ sbufErr' = TRUE
    /\ UNCHANGED s2c

\* Mutant: sendResponse returns on a write error without unlocking.
WriteBodyKeepsLock(c) ==
    /\ hst[c] = "body"
    /\ LET body == Head(outbox[c]) IN
       \/ /\ FlushOK(Append(sbuf, BodyUnit(body)))
          /\ UNCHANGED sEnd
       \/ /\ body \in BadResult
          /\ FlushOK(sbuf)
          /\ sEnd' = TRUE
       \/ /\ FlushFails
          /\ UNCHANGED sEnd
    /\ IF sbufErr' THEN /\ hst' = [hst EXCEPT ![c] = "ended"]
                        /\ UNCHANGED <<outbox, sending>>
       ELSE Answered(c)
    /\ UNCHANGED <<loopVars, inner, ran, starts, herr, c2s, cEnd>>

\* GobCodec.Write, second half; an error is logged, and a result that cannot
\* be encoded closes the connection.
WriteBody(c) ==
    /\ hst[c] = "body"
    /\ LET body == Head(outbox[c]) IN
       \/ /\ FlushOK(Append(sbuf, BodyUnit(body)))
          /\ UNCHANGED sEnd
       \/ /\ body \in BadResult
          /\ FlushOK(sbuf)
          /\ sEnd' = TRUE
       \/ /\ FlushFails
          /\ UNCHANGED sEnd
    /\ Answered(c)
    /\ UNCHANGED <<loopVars, inner, ran, starts, herr, c2s, cEnd>>

-----------------------------------------------------------------------------
(* The client: it sends each call once, whole, with increasing numbers. *)

Sent == {c2s[i].call : i \in DOMAIN c2s}

ClientSends(c) ==
    /\ ~cEnd /\ c \notin Sent
    /\ c2s' = IF sEnd THEN c2s
              ELSE c2s \o <<HeaderUnit(Cardinality(Sent) + 1, c, FALSE), BodyUnit(c)>>
    /\ UNCHANGED <<loopVars, handVars, sendVars, s2c, cEnd, sEnd>>

\* Arguments that cannot be encoded: a header alone, and the codec closes.
ClientTruncates(c) ==
    /\ "clientTruncate" \in ServerFaults
    /\ ~cEnd /\ ~sEnd /\ c \notin Sent
    /\ c2s' = Append(c2s, HeaderUnit(Cardinality(Sent) + 1, c, FALSE))
    /\ cEnd' = TRUE
    /\ UNCHANGED <<loopVars, handVars, sendVars, s2c, sEnd>>

ClientCloses ==
    /\ "clientClose" \in ServerFaults /\ ~cEnd
    /\ cEnd' = TRUE
    /\ UNCHANGED <<loopVars, handVars, sendVars, c2s, s2c, sEnd>>

-----------------------------------------------------------------------------
Serve ==
    \/ ReadOption \/ ReadRequestHeader \/ RejectRequest \/ AcceptRequest
    \/ LeaveLoop \/ CloseConn

Respond(c) == LockSending(c) \/ WriteHeader(c) \/ WriteBody(c)

Handle(c) == ServiceReturns(c) \/ Called(c) \/ TimeOut(c) \/ Respond(c)

Server == Serve \/ \E c \in Calls : Handle(c)

Environment ==
    \/ \E c \in Calls : ClientSends(c) \/ ClientTruncates(c)
    \/ ClientCloses

Next == Server \/ Environment

Spec == Init /\ [][Next]_vars

\* The scheduler runs every goroutine that can run and the timer fires.
\* The service method itself need not return: ServiceReturns has no fairness.
\* sending is a Go mutex: a goroutine that keeps asking for it gets it.
Fairness ==
    /\ WF_vars(Serve)
    /\ \A c \in Calls :
          /\ WF_vars(Called(c) \/ TimeOut(c))
          /\ SF_vars(LockSending(c))
          /\ WF_vars(WriteHeader(c) \/ WriteBody(c))

FairSpec == Spec /\ Fairness

-----------------------------------------------------------------------------
(* Properties. *)

\* Every variable keeps to its type.
TypeOK ==
    /\ srv \in {"option", "header", "args", "rejecting", "wait", "closed"}
    /\ spos \in 0 .. Len(c2s) /\ garbled \in BOOLEAN /\ req \in Unit
    /\ hst \in [Calls -> {"none", "calling", "locking", "header", "body", "ended"}]
    /\ inner \in [Calls -> {"none", "running", "returning", "ended"}]
    /\ ran \in [Calls -> {"no", "ok", "error"}]
    /\ starts \in [Calls -> Nat]
    /\ herr \in [Calls -> BOOLEAN]
    /\ outbox \in [Calls -> Seq(Calls \cup {NoCall})]
    /\ sending \in Calls \cup {NoCall}
    /\ sbuf \in Seq(Unit) /\ sbufErr \in BOOLEAN
    /\ c2s \in Seq(Unit) /\ s2c \in Seq(Unit)
    /\ cEnd \in BOOLEAN /\ sEnd \in BOOLEAN

Responses(c) == {i \in DOMAIN s2c : s2c[i].kind = "header" /\ s2c[i].call = c}

\* Handlers finish in any order, but the two values of a response stay
\* together: a header is followed by its own body, except for the last one on
\* a connection the codec has closed.
ResponseFrames ==
    \A i \in DOMAIN s2c :
        IF s2c[i].kind = "header"
        THEN IF i = Len(s2c) THEN sEnd
             ELSE s2c[i + 1].kind = "body" /\ s2c[i + 1].call \in {s2c[i].call, NoCall}
        ELSE i > 1 /\ s2c[i - 1].kind = "header"

\* A response without error carries the result of a service method that has
\* returned without error, and one with an error carries no result, even when
\* the timeout and the method's return race for the same header.
HonestResponse ==
    \A i \in DOMAIN s2c :
        s2c[i].kind = "header" /\ i < Len(s2c) =>
            IF s2c[i].failed THEN s2c[i + 1].call = NoCall
            ELSE ran[s2c[i].call] = "ok" /\ s2c[i + 1].call = s2c[i].call

\* "The header identifies a request or a response uniquely" (codec.Header):
\* a request is answered at most once.
OneResponse == \A c \in Calls : Cardinality(Responses(c)) <= 1

\* However the loop ends, the connection is closed only when every request
\* that was accepted has been answered (unless the client is gone, or a result
\* that could not be encoded has closed the connection after its header).
Truncated == s2c # <<>> /\ s2c[Len(s2c)].kind = "header"
AnsweredBeforeClose ==
    srv = "closed" /\ ~cEnd /\ ~Truncated =>
        \A c \in Calls : inner[c] # "none" => Responses(c) # {}

\* With a HandleTimeout every accepted request is answered, or the attempt
\* to answer has failed, even if its service method never returns.
EveryRequestEnds ==
    \A c \in Calls : hst[c] # "none" ~> hst[c] = "ended"

\* A connection the client has closed is closed by the server as well, and
\* none of the goroutines wg counts stays behind.
ClosesInTheEnd == cEnd ~> srv = "closed"
=============================================================================
