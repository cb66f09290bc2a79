-------------------------- MODULE RpcServerProofs --------------------------
(***************************************************************************)
(* Theorems about RpcServer, for any requests, faults and failures: what   *)
(* it writes is a sequence of whole responses, at most one for a request   *)
(* and an honest one, and none is missing when it closes the connection.   *)
(***************************************************************************)
EXTENDS RpcServer, SequenceTheorems, FiniteSetTheorems, TLAPS

-----------------------------------------------------------------------------
(* The inductive invariant. *)

IsHeader(log, i, c) == log[i].kind = "header" /\ log[i].call = c

\* A call is sent once, by the client.
Requests ==
    /\ \A i \in DOMAIN c2s : c2s[i].call \in Calls
    /\ \A i, j \in DOMAIN c2s :
          c2s[i].kind = "header" /\ c2s[j].kind = "header" /\ c2s[i].call = c2s[j].call
              => i = j

\* The header in req is the last value read; the requests of which there is a
\* handler came before it.
Current ==
    /\ srv = "option" => \A c \in Calls : hst[c] = "none"
    /\ srv = "args" => spos \in DOMAIN c2s /\ req = c2s[spos] /\ req.kind = "header"
    /\ srv = "rejecting" => req.call \in Calls /\ hst[req.call] # "none"
    /\ \A c \in Calls : hst[c] # "none" =>
          \E i \in DOMAIN c2s : i <= spos /\ (srv = "args" => i # spos) /\ IsHeader(c2s, i, c)

Responding == {"locking", "header", "body"}

\* handleRequest and its inner goroutine.
Handlers ==
    \A c \in Calls :
        /\ hst[c] = "none" => inner[c] = "none"
        /\ hst[c] = "calling" => inner[c] \in {"running", "returning"}
        /\ inner[c] = "ended" => hst[c] \in Responding \cup {"ended"}
        /\ inner[c] \in {"none", "running"} => ran[c] = "no"
        /\ inner[c] \in {"returning", "ended"} => ran[c] = "ok" \/ herr[c]
        /\ hst[c] \in Responding =>
              /\ outbox[c] # <<>>
              /\ outbox[c] \in Seq({c, NoCall})
              /\ inner[c] = "running" => herr[c]

\* The service method of a request has been started once, or not at all.
StartedOnce == \A c \in Calls : starts[c] = IF inner[c] = "none" THEN 0 ELSE 1

\* sending is held by the handler that writes a response, of which the header
\* alone is ever in the buffer between two steps.
Mutex ==
    /\ \A c \in Calls : hst[c] \in {"header", "body"} <=> sending = c
    /\ sbuf = <<>> \/ (sending # NoCall /\ hst[sending] = "body")
    /\ \A c \in Calls : hst[c] = "body" =>
          Len(sbuf) = 1 /\ IsHeader(sbuf, 1, c) /\ sbuf[1].failed = herr[c]

\* An end is closed before a response is lost.
Endings ==
    /\ srv = "closed" => sEnd /\ \A c \in Calls : hst[c] \in {"none", "ended"}
    /\ sEnd /\ srv # "closed" => cEnd \/ Truncated
    /\ sbufErr => cEnd \/ sEnd
    /\ \A c \in Calls : hst[c] = "ended" /\ inner[c] # "none" =>
          Responses(c) # {} \/ cEnd \/ Truncated

IInv ==
    /\ TypeOK /\ Requests /\ Current /\ Handlers /\ StartedOnce /\ Mutex
    /\ ResponseFrames /\ Endings

\* With a timeout there is one body to send, decided once and for all, and a
\* response in the log or in the buffer is the only one of its request.
Decided ==
    \A c \in Calls : hst[c] \in Responding =>
        \/ outbox[c] = <<NoCall>> /\ herr[c]
        \/ outbox[c] = <<c>> /\ ~herr[c] /\ ran[c] = "ok" /\ inner[c] = "ended"

Single ==
    \A i \in DOMAIN s2c : s2c[i].kind = "header" =>
        /\ s2c[i].call \in Calls /\ hst[s2c[i].call] = "ended"
        /\ \A j \in DOMAIN s2c : IsHeader(s2c, j, s2c[i].call) => i = j

TInv == Decided /\ Single /\ HonestResponse

-----------------------------------------------------------------------------
(* Logs that grow. *)

LEMMA OneMore ==
    ASSUME NEW T, NEW s \in Seq(T), NEW x \in T
    PROVE  /\ Append(s, x) \in Seq(T) /\ s \o <<x>> = Append(s, x)
           /\ Len(Append(s, x)) = Len(s) + 1 /\ DOMAIN Append(s, x) = 1 .. Len(s) + 1
           /\ \A i \in DOMAIN s : Append(s, x)[i] = s[i]
           /\ Append(s, x)[Len(s) + 1] = x
    OBVIOUS

LEMMA TailOfMore ==
    ASSUME NEW T, NEW s \in Seq(T), Len(s) > 1
    PROVE  Tail(s) # <<>>
<1> DEFINE t == Tail(s)
<1>1. Len(t) = Len(s) - 1 /\ Len(s) \in Nat /\ t \in Seq(T)
      OBVIOUS
<1> HIDE DEF t
<1>2. Len(t) # 0
      BY <1>1
<1>3. \A u : u = <<>> => Len(u) = 0
      OBVIOUS
<1> QED BY <1>2, <1>3, Zenon DEF t

LEMMA TruthValue ==
    ASSUME NEW n \in Nat, NEW b, b = (n > 0)
    PROVE  b \in BOOLEAN
    OBVIOUS

LEMMA TwoMore ==
    ASSUME NEW T, NEW s \in Seq(T), NEW x \in T, NEW y \in T
    PROVE  /\ s \o <<x, y>> \in Seq(T)
           /\ Len(s \o <<x, y>>) = Len(s) + 2 /\ DOMAIN (s \o <<x, y>>) = 1 .. Len(s) + 2
           /\ \A i \in DOMAIN s : (s \o <<x, y>>)[i] = s[i]
           /\ (s \o <<x, y>>)[Len(s) + 1] = x
           /\ (s \o <<x, y>>)[Len(s) + 2] = y
    OBVIOUS

LEMMA OneElement ==
    ASSUME NEW T, NEW s \in Seq(T), Len(s) = 1
    PROVE  s = <<s[1]>> /\ s[1] \in T
    BY SeqEqual

LEMMA AppendToOne ==
    ASSUME NEW T, NEW x \in T, NEW y \in T
    PROVE  Append(<<x>>, y) = <<x, y>>
<1>1. <<x, y>> \in Seq(T) /\ Append(<<x>>, y) \in Seq(T) /\ Len(<<x, y>>) = Len(Append(<<x>>, y))
      OBVIOUS
<1>2. \A i \in 1 .. 2 : <<x, y>>[i] = Append(<<x>>, y)[i]
      OBVIOUS
<1> QED BY <1>1, <1>2, SeqEqual

LEMMA UnitTypes ==
    ASSUME NEW n \in Nat, NEW c \in Calls \cup {NoCall}, NEW f \in BOOLEAN
    PROVE  HeaderUnit(n, c, f) \in Unit /\ BodyUnit(c) \in Unit
    BY DEF HeaderUnit, BodyUnit, Unit

LEMMA LogUnits ==
    ASSUME NEW log \in Seq(Unit), NEW i \in DOMAIN log
    PROVE  log[i] \in Unit /\ log[i].seq \in Nat /\ log[i].call \in Calls \cup {NoCall}
<1>1. log[i] \in Unit
      OBVIOUS
<1> QED BY <1>1 DEF Unit

\* What the client has sent is finite, so it can be numbered.
LEMMA SentFinite ==
    ASSUME TypeOK
    PROVE  Cardinality(Sent) \in Nat
<1>1. c2s \in Seq(Unit) /\ Len(c2s) \in Nat /\ DOMAIN c2s = 1 .. Len(c2s)
      BY DEF TypeOK
<1>2. IsFiniteSet(DOMAIN c2s)
      BY <1>1, FS_Interval
<1>3. [i \in DOMAIN c2s |-> c2s[i].call] \in Surjection(DOMAIN c2s, Sent)
      BY DEF Surjection, Sent
<1>4. IsFiniteSet(Sent)
      BY <1>2, <1>3, FS_Surjection
<1> QED BY <1>4, FS_CardinalityType

-----------------------------------------------------------------------------
(* What the client, or the network, may do to the connection. *)

ClientMoves ==
    /\ \/ UNCHANGED c2s
       \/ \E c \in Calls, x \in Unit :
             /\ c \notin Sent /\ x.call = c
             /\ c2s' = c2s \o <<x, BodyUnit(c)>> \/ c2s' = Append(c2s, x)
    /\ cEnd' \in BOOLEAN /\ (cEnd => cEnd')
    /\ sEnd' \in BOOLEAN /\ (sEnd => sEnd') /\ (sEnd' => sEnd \/ cEnd')
    /\ UNCHANGED <<loopVars, handVars, sendVars, s2c>>

LEMMA EnvironmentMoves == TypeOK /\ Environment => ClientMoves
<1> SUFFICES ASSUME TypeOK, Environment PROVE ClientMoves
    OBVIOUS
<1>1. Cardinality(Sent) + 1 \in Nat
      BY SentFinite
<1>2. cEnd \in BOOLEAN /\ sEnd \in BOOLEAN
      BY DEF TypeOK
<1>3. ASSUME NEW c \in Calls
      PROVE  \E x \in Unit : x.call = c /\ x = HeaderUnit(Cardinality(Sent) + 1, c, FALSE)
      BY <1>1, UnitTypes DEF HeaderUnit
<1>4. ASSUME NEW c \in Calls, ClientSends(c) \/ ClientTruncates(c) PROVE ClientMoves
  <2>1. PICK x \in Unit : x.call = c /\ x = HeaderUnit(Cardinality(Sent) + 1, c, FALSE)
        BY <1>3
  <2>2. /\ c \notin Sent
        /\ UNCHANGED c2s \/ c2s' = c2s \o <<x, BodyUnit(c)>> \/ c2s' = Append(c2s, x)
        BY <1>4, <2>1 DEF ClientSends, ClientTruncates
  <2>3. /\ UNCHANGED <<loopVars, handVars, sendVars, s2c>>
        /\ cEnd' \in BOOLEAN /\ (cEnd => cEnd')
        /\ sEnd' \in BOOLEAN /\ (sEnd => sEnd') /\ (sEnd' => sEnd \/ cEnd')
    <3>1. CASE ClientSends(c)
          BY <1>2, <3>1 DEF ClientSends
    <3>2. CASE ClientTruncates(c)
          BY <1>2, <3>2 DEF ClientTruncates
    <3> QED BY <1>4, <3>1, <3>2
  <2> QED BY <2>1, <2>2, <2>3, Zenon DEF ClientMoves
<1>5. CASE ClientCloses
      BY <1>2, <1>5 DEF ClientCloses, ClientMoves
<1> QED BY <1>4, <1>5 DEF Environment

\* How the log of requests may have grown.
LEMMA RequestsGrow ==
    ASSUME TypeOK, ClientMoves
    PROVE  /\ c2s' \in Seq(Unit) /\ Len(c2s) <= Len(c2s')
           /\ \A i \in DOMAIN c2s : i \in DOMAIN c2s' /\ c2s'[i] = c2s[i]
           /\ \A i \in DOMAIN c2s' \ DOMAIN c2s : c2s'[i].call \in Calls \ Sent
           /\ \A i, j \in DOMAIN c2s' \ DOMAIN c2s :
                 c2s'[i].kind = "header" /\ c2s'[j].kind = "header" => i = j
<1>1. c2s \in Seq(Unit)
      BY DEF TypeOK
<1>2. CASE UNCHANGED c2s
      BY <1>1, <1>2
<1>3. ASSUME NEW c \in Calls \ Sent, NEW x \in Unit, NEW y \in Unit,
             x.call = c, y.call = c, y.kind = "body",
             c2s' = c2s \o <<x, y>> \/ c2s' = Append(c2s, x)
      PROVE  /\ c2s' \in Seq(Unit) /\ Len(c2s) <= Len(c2s')
             /\ \A i \in DOMAIN c2s : i \in DOMAIN c2s' /\ c2s'[i] = c2s[i]
             /\ \A i \in DOMAIN c2s' \ DOMAIN c2s : c2s'[i].call \in Calls \ Sent
             /\ \A i, j \in DOMAIN c2s' \ DOMAIN c2s :
                   c2s'[i].kind = "header" /\ c2s'[j].kind = "header" => i = j
  <2>1. DOMAIN c2s = 1 .. Len(c2s) /\ Len(c2s) \in Nat
        BY <1>1
  <2>2. CASE c2s' = c2s \o <<x, y>>
    <3>1. /\ c2s' \in Seq(Unit) /\ Len(c2s') = Len(c2s) + 2 /\ DOMAIN c2s' = 1 .. Len(c2s) + 2
          /\ \A i \in DOMAIN c2s : c2s'[i] = c2s[i]
          /\ c2s'[Len(c2s) + 1] = x /\ c2s'[Len(c2s) + 2] = y
          BY <1>1, <2>2, TwoMore
    <3> QED BY <1>3, <2>1, <3>1
  <2>3. CASE c2s' = Append(c2s, x)
    <3>1. /\ c2s' \in Seq(Unit) /\ Len(c2s') = Len(c2s) + 1 /\ DOMAIN c2s' = 1 .. Len(c2s) + 1
          /\ \A i \in DOMAIN c2s : c2s'[i] = c2s[i]
          /\ c2s'[Len(c2s) + 1] = x
          BY <1>1, <2>3, OneMore
    <3> QED BY <1>3, <2>1, <3>1
  <2> QED BY <1>3, <2>2, <2>3
<1>4. ASSUME NEW c \in Calls
      PROVE  BodyUnit(c) \in Unit /\ BodyUnit(c).call = c /\ BodyUnit(c).kind = "body"
      BY UnitTypes DEF BodyUnit
<1>5. CASE ~UNCHANGED c2s
  <2>1. PICK c \in Calls, z \in Unit :
           /\ c \notin Sent /\ z.call = c
           /\ c2s' = c2s \o <<z, BodyUnit(c)>> \/ c2s' = Append(c2s, z)
        BY <1>5 DEF ClientMoves
  <2>2. \E x \in Unit, y \in Unit :
           /\ x.call = c /\ y.call = c /\ y.kind = "body"
           /\ c2s' = c2s \o <<x, y>> \/ c2s' = Append(c2s, x)
        BY <1>4, <2>1, Zenon
  <2>3. c \in Calls \ Sent
        BY <2>1
  <2> QED BY <1>3, <2>2, <2>3
<1> QED BY <1>2, <1>5

\* sendResponse writes the header in the buffer with its body, or alone when
\* the body cannot be encoded.
LEMMA Written ==
    ASSUME IInv, NEW c \in Calls, WriteBody(c)
    PROVE  /\ sbuf[1] \in Unit /\ IsHeader(sbuf, 1, c) /\ sbuf[1].failed = herr[c]
           /\ outbox[c][1] \in {c, NoCall}
           /\ \/ UNCHANGED s2c /\ (cEnd \/ sEnd)
              \/ /\ ~sEnd /\ ~cEnd
                 /\ \/ s2c' = s2c \o <<sbuf[1], BodyUnit(outbox[c][1])>> /\ ~sEnd'
                    \/ s2c' = Append(s2c, sbuf[1]) /\ sEnd'
<1>1. /\ s2c \in Seq(Unit) /\ sbuf \in Seq(Unit) /\ Len(sbuf) = 1
      /\ IsHeader(sbuf, 1, c) /\ sbuf[1].failed = herr[c]
      BY DEF IInv, TypeOK, Mutex, WriteBody
<1>2. sbuf = <<sbuf[1]>> /\ sbuf[1] \in Unit
      BY <1>1, OneElement
<1>3. /\ Head(outbox[c]) = outbox[c][1] /\ outbox[c][1] \in {c, NoCall}
      /\ BodyUnit(Head(outbox[c])) \in Unit
  <2>1. /\ outbox[c] \in Seq({c, NoCall}) /\ outbox[c] # <<>>
        BY DEF IInv, Handlers, WriteBody, Responding
  <2>2. outbox[c][1] \in {c, NoCall} /\ Head(outbox[c]) = outbox[c][1]
        BY <2>1
  <2> QED BY <2>2, UnitTypes
<1>4. ASSUME NEW x \in Unit, NEW y \in Unit, sbuf = <<x>>
      PROVE  Append(sbuf, y) = <<x, y>> /\ s2c \o sbuf = Append(s2c, x)
      BY <1>1, <1>4, AppendToOne, OneMore
<1> QED BY <1>1, <1>2, <1>3, <1>4 DEF WriteBody, FlushOK, FlushFails

\* How the log of responses may grow.
LEMMA ResponsesGrow ==
    ASSUME IInv, NEW c \in Calls, WriteBody(c)
    PROVE  /\ s2c' \in Seq(Unit)
           /\ \/ UNCHANGED s2c /\ (cEnd \/ sEnd)
              \/ /\ ~sEnd /\ ~cEnd
                 /\ \A i \in DOMAIN s2c : s2c'[i] = s2c[i]
                 /\ IsHeader(s2c', Len(s2c) + 1, c)
                 /\ s2c'[Len(s2c) + 1].failed = herr[c]
                 /\ \/ Len(s2c') = Len(s2c) + 1 /\ sEnd'
                    \/ /\ Len(s2c') = Len(s2c) + 2 /\ ~sEnd'
                       /\ s2c'[Len(s2c) + 2] = BodyUnit(outbox[c][1])
<1>1. s2c \in Seq(Unit) /\ BodyUnit(outbox[c][1]) \in Unit
      BY Written, UnitTypes DEF IInv, TypeOK
<1>4. CASE UNCHANGED s2c /\ (cEnd \/ sEnd)
      BY <1>1, <1>4
<1>5. ASSUME NEW x \in Unit, NEW y \in Unit, ~sEnd, ~cEnd,
             x.kind = "header", x.call = c, x.failed = herr[c], y = BodyUnit(outbox[c][1]),
             (s2c' = s2c \o <<x, y>> /\ ~sEnd') \/ (s2c' = Append(s2c, x) /\ sEnd')
      PROVE  /\ s2c' \in Seq(Unit)
             /\ \A i \in DOMAIN s2c : s2c'[i] = s2c[i]
             /\ IsHeader(s2c', Len(s2c) + 1, c)
             /\ s2c'[Len(s2c) + 1].failed = herr[c]
             /\ \/ Len(s2c') = Len(s2c) + 1 /\ sEnd'
                \/ /\ Len(s2c') = Len(s2c) + 2 /\ ~sEnd'
                   /\ s2c'[Len(s2c) + 2] = BodyUnit(outbox[c][1])
  <2>1. CASE s2c' = s2c \o <<x, y>> /\ ~sEnd'
    <3>1. /\ s2c' \in Seq(Unit) /\ Len(s2c') = Len(s2c) + 2
          /\ \A i \in DOMAIN s2c : s2c'[i] = s2c[i]
          /\ s2c'[Len(s2c) + 1] = x /\ s2c'[Len(s2c) + 2] = y
          BY <1>1, <2>1, TwoMore
    <3> QED BY <1>5, <2>1, <3>1 DEF IsHeader
  <2>2. CASE s2c' = Append(s2c, x) /\ sEnd'
    <3>1. /\ s2c' \in Seq(Unit) /\ Len(s2c') = Len(s2c) + 1
          /\ \A i \in DOMAIN s2c : s2c'[i] = s2c[i]
          /\ s2c'[Len(s2c) + 1] = x
          BY <1>1, <2>2, OneMore
    <3> QED BY <1>5, <2>2, <3>1 DEF IsHeader
  <2> QED BY <1>5, <2>1, <2>2
<1> QED BY <1>1, <1>4, <1>5, Written DEF IsHeader

-----------------------------------------------------------------------------
(* The header of a response. *)

LEMMA HeaderNowIs ==
    ASSUME IInv, NEW c \in Calls, hst[c] # "none"
    PROVE  /\ HeaderNow(c) \in Unit
           /\ HeaderNow(c).kind = "header" /\ HeaderNow(c).call = c
           /\ HeaderNow(c).failed = herr[c]
<1> DEFINE Seqs == {c2s[i].seq : i \in {j \in DOMAIN c2s : c2s[j].kind = "header" /\ c2s[j].call = c}}
<1>1. c2s \in Seq(Unit) /\ herr[c] \in BOOLEAN
      BY DEF IInv, TypeOK
<1>2. Seqs # {}
      BY DEF IInv, Current, IsHeader
<1>3. Seqs \subseteq Nat
      BY <1>1, LogUnits
<1>4. (CHOOSE s \in Seqs : TRUE) \in Nat
      BY <1>2, <1>3
<1>5. HeaderNow(c) = HeaderUnit(CHOOSE s \in Seqs : TRUE, c, herr[c])
      BY DEF HeaderNow
<1> HIDE DEF Seqs
<1>6. PICK n \in Nat : HeaderNow(c) = HeaderUnit(n, c, herr[c])
      BY <1>4, <1>5, Zenon
<1>7. HeaderUnit(n, c, herr[c]) \in Unit
      BY <1>1, UnitTypes
<1> QED BY <1>6, <1>7 DEF HeaderUnit

\* A request that is being read has been sent.
LEMMA ReqIsCall ==
    ASSUME IInv, srv = "args"
    PROVE  req.call \in Calls /\ IsHeader(c2s, spos, req.call) /\ spos \in DOMAIN c2s
    BY DEF IInv, Current, Requests, IsHeader

-----------------------------------------------------------------------------
(* The steps of the server. *)

\* What the server never touches, and what it never takes back.
LEMMA ServerLeaves ==
    ASSUME Server
    PROVE  UNCHANGED <<c2s, cEnd>> /\ (sEnd => sEnd')
<1>1. ASSUME NEW c \in Calls, WriteBody(c) PROVE UNCHANGED <<c2s, cEnd>> /\ (sEnd => sEnd')
      BY <1>1 DEF WriteBody
<1> QED BY <1>1 DEF Server, Serve, Handle, Respond, ReadOption, ReadRequestHeader, RejectRequest,
        AcceptRequest, LeaveLoop, CloseConn, ServiceReturns, Called, TimeOut, LockSending,
        WriteHeader, loopVars, handVars, sendVars, wireVars

\* The handler that answers goes on to its next response or ends.
LEMMA Answering ==
    ASSUME IInv, NEW c \in Calls, hst[c] \in Responding, Answered(c)
    PROVE  /\ outbox' \in [Calls -> Seq(Calls \cup {NoCall})]
           /\ hst' \in [Calls -> {"none", "calling", "locking", "header", "body", "ended"}]
           /\ sending' = NoCall
           /\ \A d \in Calls \ {c} : hst'[d] = hst[d] /\ outbox'[d] = outbox[d]
           /\ \/ /\ Len(outbox[c]) # 1 /\ hst'[c] = "locking"
                 /\ outbox'[c] # <<>> /\ outbox'[c] \in Seq({c, NoCall})
              \/ Len(outbox[c]) = 1 /\ hst'[c] = "ended"
<1>1. /\ outbox \in [Calls -> Seq(Calls \cup {NoCall})]
      /\ hst \in [Calls -> {"none", "calling", "locking", "header", "body", "ended"}]
      /\ outbox[c] \in Seq({c, NoCall}) /\ outbox[c] # <<>>
      BY DEF IInv, TypeOK, Handlers
<1>2. /\ Tail(outbox[c]) \in Seq({c, NoCall}) /\ Tail(outbox[c]) \in Seq(Calls \cup {NoCall})
      /\ Len(outbox[c]) \in Nat \ {0}
      /\ Len(Tail(outbox[c])) = Len(outbox[c]) - 1
      BY <1>1
<1>3. Len(outbox[c]) > 1 => Tail(outbox[c]) # <<>>
      BY <1>1, TailOfMore
<1>4. outbox'[c] = Tail(outbox[c]) /\ sending' = NoCall
      BY <1>1 DEF Answered
<1>5. hst'[c] = IF Len(outbox[c]) > 1 THEN "locking" ELSE "ended"
      BY <1>1 DEF Answered
<1>6. \A d \in Calls \ {c} : hst'[d] = hst[d] /\ outbox'[d] = outbox[d]
      BY <1>1 DEF Answered
<1>7. outbox' \in [Calls -> Seq(Calls \cup {NoCall})]
      BY <1>1, <1>2 DEF Answered
<1>8. hst' \in [Calls -> {"none", "calling", "locking", "header", "body", "ended"}]
      BY <1>1 DEF Answered
<1>9. Len(outbox[c]) > 1 \/ Len(outbox[c]) = 1
      BY <1>1, <1>2
<1> QED BY <1>2, <1>3, <1>4, <1>5, <1>6, <1>7, <1>8, <1>9

LEMMA ServerTypes ==
    ASSUME IInv, Server
    PROVE  TypeOK'
<1> USE DEF loopVars, handVars, sendVars, wireVars
<1>t. TypeOK /\ Len(c2s) \in Nat
      BY DEF IInv, TypeOK
<1>1. CASE ReadOption
  <2>1. spos' \in 0 .. Len(c2s)
        BY <1>t, <1>1, ServerAssumption DEF ReadOption, TypeOK
  <2>2. garbled' \in BOOLEAN
    <3>1. CASE garbled' = (spos' > 0)
      <4>1. spos' \in Nat
            BY <1>t, <2>1
      <4> QED BY <3>1, <4>1, TruthValue
    <3>2. CASE UNCHANGED garbled
          BY <1>t, <3>2 DEF TypeOK
    <3> QED BY <1>1, <3>1, <3>2 DEF ReadOption
  <2> QED BY <1>t, <1>1, <2>1, <2>2 DEF ReadOption, TypeOK
<1>2. CASE ReadRequestHeader
      BY <1>t, <1>2, LogUnits DEF ReadRequestHeader, Ready, TypeOK
<1>3. CASE RejectRequest
  <2>1. req.call \in Calls /\ spos' \in 0 .. Len(c2s) /\ UNCHANGED c2s
        BY <1>t, <1>3, ReqIsCall DEF RejectRequest, Ready, TypeOK
  <2>2. <<NoCall>> \in Seq(Calls \cup {NoCall})
        OBVIOUS
  <2>3. hst' \in [Calls -> {"none", "calling", "locking", "header", "body", "ended"}]
        BY <1>t, <1>3 DEF RejectRequest, TypeOK
  <2> QED BY <1>t, <1>3, <2>1, <2>2, <2>3 DEF RejectRequest, TypeOK
<1>4. CASE AcceptRequest
  <2>1. req.call \in Calls /\ spos' \in 0 .. Len(c2s) /\ UNCHANGED c2s
        BY <1>t, <1>4, ReqIsCall DEF AcceptRequest, Ready, TypeOK
  <2>2. starts' \in [Calls -> Nat]
    <3>1. starts \in [Calls -> Nat] /\ starts[req.call] + 1 \in Nat
          BY <1>t, <2>1 DEF TypeOK
    <3> QED BY <1>4, <2>1, <3>1 DEF AcceptRequest
  <2>3. /\ hst' \in [Calls -> {"none", "calling", "locking", "header", "body", "ended"}]
        /\ inner' \in [Calls -> {"none", "running", "returning", "ended"}]
        /\ srv' = "header"
        BY <1>t, <1>4, <2>1 DEF AcceptRequest, TypeOK
  <2> QED BY <1>t, <1>4, <2>1, <2>2, <2>3 DEF AcceptRequest, TypeOK
<1>5. CASE LeaveLoop
      BY <1>t, <1>5 DEF LeaveLoop, TypeOK
<1>6. CASE CloseConn
      BY <1>t, <1>6 DEF CloseConn, TypeOK
<1>7. ASSUME NEW c \in Calls, ServiceReturns(c) PROVE TypeOK'
      BY <1>t, <1>7 DEF ServiceReturns, TypeOK
<1>8. ASSUME NEW c \in Calls, Called(c) PROVE TypeOK'
  <2>1. /\ <<c>> \in Seq(Calls \cup {NoCall}) /\ <<NoCall>> \in Seq(Calls \cup {NoCall})
        /\ <<NoCall, c>> \in Seq(Calls \cup {NoCall})
        OBVIOUS
  <2>2. PICK o \in {<<c>>, <<NoCall>>, <<NoCall, c>>} : outbox' = [outbox EXCEPT ![c] = o]
        BY <1>8 DEF Called
  <2>3. outbox' \in [Calls -> Seq(Calls \cup {NoCall})]
        BY <1>t, <2>1, <2>2 DEF TypeOK
  <2> QED BY <1>t, <1>8, <2>3 DEF Called, TypeOK
<1>9. ASSUME NEW c \in Calls, TimeOut(c) PROVE TypeOK'
      BY <1>t, <1>9 DEF TimeOut, TypeOK
<1>10. ASSUME NEW c \in Calls, LockSending(c) PROVE TypeOK'
      BY <1>t, <1>10 DEF LockSending, TypeOK
<1>11. ASSUME NEW c \in Calls, WriteHeader(c) PROVE TypeOK'
  <2>1. /\ outbox' \in [Calls -> Seq(Calls \cup {NoCall})]
        /\ hst' \in [Calls -> {"none", "calling", "locking", "header", "body", "ended"}]
        /\ sending' \in Calls \cup {NoCall}
    <3>1. CASE sbufErr
          BY <1>11, <3>1, Answering DEF WriteHeader, Responding
    <3>2. CASE ~sbufErr
          BY <1>t, <1>11, <3>2 DEF WriteHeader, TypeOK
    <3> QED BY <3>1, <3>2
  <2>2. sbuf' \in Seq(Unit)
    <3>1. HeaderNow(c) \in Unit /\ sbuf \in Seq(Unit)
          BY <1>t, <1>11, HeaderNowIs DEF WriteHeader, TypeOK
    <3>2. UNCHANGED sbuf \/ \E x \in Unit : sbuf' = Append(sbuf, x)
          BY <1>11, <3>1, Zenon DEF WriteHeader
    <3> QED BY <3>1, <3>2
  <2> QED BY <1>t, <1>11, <2>1, <2>2 DEF WriteHeader, TypeOK
<1>12. ASSUME NEW c \in Calls, WriteBody(c) PROVE TypeOK'
  <2>1. s2c' \in Seq(Unit)
        BY <1>12, ResponsesGrow
  <2>2. /\ outbox' \in [Calls -> Seq(Calls \cup {NoCall})]
        /\ hst' \in [Calls -> {"none", "calling", "locking", "header", "body", "ended"}]
        /\ sending' \in Calls \cup {NoCall}
        BY <1>12, Answering DEF WriteBody, Responding
  <2>3. sbufErr' \in BOOLEAN /\ sEnd' \in BOOLEAN
        BY <1>t, <1>12 DEF WriteBody, FlushOK, FlushFails, TypeOK
  <2>4. sbuf' \in Seq(Unit)
    <3>1. sbuf' = <<>>
          BY <1>12 DEF WriteBody, FlushOK, FlushFails
    <3>2. <<>> \in Seq(Unit)
          OBVIOUS
    <3> QED BY <3>1, <3>2
  <2>5. UNCHANGED <<srv, spos, garbled, req, inner, ran, starts, herr, c2s, cEnd>>
        BY <1>12 DEF WriteBody
  <2> QED BY <1>t, <2>1, <2>2, <2>3, <2>4, <2>5, Zenon DEF TypeOK
<1> QED BY <1>1, <1>2, <1>3, <1>4, <1>5, <1>6, <1>7, <1>8, <1>9, <1>10, <1>11, <1>12
        DEF Server, Serve, Handle, Respond

LEMMA ServerRequests ==
    ASSUME IInv, Server
    PROVE  Requests'
    BY ServerLeaves DEF IInv, Requests

LEMMA ServerCurrent ==
    ASSUME IInv, Server
    PROVE  Current'
<1> USE DEF loopVars, handVars, sendVars, wireVars, IsHeader
<1>t. /\ Current /\ spos \in Nat /\ UNCHANGED c2s /\ DOMAIN c2s \subseteq Nat
      /\ hst \in [Calls -> {"none", "calling", "locking", "header", "body", "ended"}]
      BY ServerLeaves DEF IInv, TypeOK
<1>1. CASE ReadOption
      BY <1>t, <1>1 DEF ReadOption, Current
<1>2. CASE ReadRequestHeader
  <2>1. c2s \in Seq(Unit) /\ spos \in 0 .. Len(c2s)
        BY DEF IInv, TypeOK
  <2> QED BY <1>t, <1>2, <2>1 DEF ReadRequestHeader, Ready, Current
<1>3. CASE RejectRequest
  <2>1. /\ req.call \in Calls /\ IsHeader(c2s, spos, req.call) /\ spos \in DOMAIN c2s
        /\ spos' \in Nat /\ spos' >= spos
        BY <1>t, <1>3, ReqIsCall DEF RejectRequest
  <2>2. /\ \A d \in Calls : hst'[d] # "none" => hst[d] # "none" \/ d = req.call
        /\ hst'[req.call] # "none" /\ srv' = "rejecting" /\ UNCHANGED req
        BY <1>t, <1>3, <2>1 DEF RejectRequest
  <2>3. ASSUME NEW d \in Calls, hst'[d] # "none"
        PROVE  \E i \in DOMAIN c2s : i <= spos' /\ IsHeader(c2s, i, d)
    <3>1. CASE d = req.call
          BY <1>t, <2>1, <3>1
    <3>2. CASE hst[d] # "none"
      <4>1. PICK i \in DOMAIN c2s : i <= spos /\ IsHeader(c2s, i, d)
            BY <1>t, <3>2 DEF Current
      <4> QED BY <1>t, <2>1, <4>1
    <3> QED BY <2>2, <2>3, <3>1, <3>2
  <2> QED BY <1>t, <2>1, <2>2, <2>3 DEF Current
<1>4. CASE AcceptRequest
  <2>1. req.call \in Calls /\ IsHeader(c2s, spos, req.call) /\ spos \in DOMAIN c2s
        BY <1>4, ReqIsCall DEF AcceptRequest
  <2>2. /\ \A d \in Calls : hst'[d] # "none" => hst[d] # "none" \/ d = req.call
        /\ srv' = "header" /\ spos' = spos + 1
        BY <1>t, <1>4, <2>1 DEF AcceptRequest
  <2>3. ASSUME NEW d \in Calls, hst'[d] # "none"
        PROVE  \E i \in DOMAIN c2s : i <= spos' /\ IsHeader(c2s, i, d)
    <3>1. CASE d = req.call
          BY <1>t, <2>1, <2>2, <3>1
    <3>2. CASE hst[d] # "none"
      <4>1. PICK i \in DOMAIN c2s : i <= spos /\ IsHeader(c2s, i, d)
            BY <1>t, <3>2 DEF Current
      <4> QED BY <1>t, <2>2, <4>1
    <3> QED BY <2>2, <2>3, <3>1, <3>2
  <2> QED BY <1>t, <2>2, <2>3 DEF Current
<1>5. CASE LeaveLoop
      BY <1>t, <1>5 DEF LeaveLoop, Current
<1>6. CASE CloseConn
      BY <1>t, <1>6 DEF CloseConn, Current
<1>7. ASSUME NEW c \in Calls, UNCHANGED <<srv, spos, req, c2s>>, hst[c] # "none",
             \A d \in Calls : hst'[d] # hst[d] => d = c /\ hst'[d] # "none"
      PROVE  Current'
      BY <1>t, <1>7 DEF Current
<1>8. ASSUME NEW c \in Calls, Handle(c)
      PROVE  /\ UNCHANGED <<srv, spos, req, c2s>> /\ hst[c] # "none"
             /\ \A d \in Calls : hst'[d] # hst[d] => d = c /\ hst'[d] # "none"
  <2>1. CASE ServiceReturns(c)
    <3>1. hst[c] # "none"
          BY <2>1 DEF ServiceReturns, IInv, Handlers
    <3> QED BY <2>1, <3>1 DEF ServiceReturns
  <2>2. CASE Called(c)
        BY <1>t, <2>2 DEF Called
  <2>3. CASE TimeOut(c)
        BY <1>t, <2>3 DEF TimeOut
  <2>4. CASE LockSending(c)
        BY <1>t, <2>4 DEF LockSending
  <2>5. CASE WriteHeader(c)
        BY <1>t, <2>5, Answering DEF WriteHeader, Responding
  <2>6. CASE WriteBody(c)
        BY <1>t, <2>6, Answering DEF WriteBody, Responding
  <2> QED BY <1>8, <2>1, <2>2, <2>3, <2>4, <2>5, <2>6 DEF Handle, Respond
<1> QED BY <1>1, <1>2, <1>3, <1>4, <1>5, <1>6, <1>7, <1>8 DEF Server, Serve

\* A request that is being read has no handler yet.
LEMMA Fresh ==
    ASSUME IInv, srv = "args"
    PROVE  hst[req.call] = "none" /\ inner[req.call] = "none" /\ ran[req.call] = "no"
<1>1. req.call \in Calls /\ IsHeader(c2s, spos, req.call) /\ spos \in DOMAIN c2s
      BY ReqIsCall
<1>2. hst[req.call] = "none"
      BY <1>1 DEF IInv, Current, Requests, IsHeader
<1> QED BY <1>1, <1>2 DEF IInv, Handlers

LEMMA ServerHandlers ==
    ASSUME IInv, Server
    PROVE  Handlers'
<1> USE DEF loopVars, handVars, sendVars, wireVars, Responding
<1>t. TypeOK /\ Handlers
      BY DEF IInv
<1>0. ASSUME UNCHANGED <<hst, inner, ran, herr, outbox>> PROVE Handlers'
      BY <1>t, <1>0 DEF Handlers
<1>1. CASE ReadOption \/ ReadRequestHeader \/ LeaveLoop \/ CloseConn
      BY <1>0, <1>1 DEF ReadOption, ReadRequestHeader, LeaveLoop, CloseConn
<1>2. CASE RejectRequest
  <2>1. req.call \in Calls /\ inner[req.call] = "none" /\ ran[req.call] = "no"
        BY <1>2, ReqIsCall, Fresh DEF RejectRequest
  <2>2. <<NoCall>> # <<>> /\ <<NoCall>> \in Seq({req.call, NoCall})
        OBVIOUS
  <2> QED BY <1>t, <1>2, <2>1, <2>2 DEF RejectRequest, Handlers, TypeOK
<1>3. CASE AcceptRequest
  <2>1. req.call \in Calls /\ inner[req.call] = "none" /\ ran[req.call] = "no"
        BY <1>3, ReqIsCall, Fresh DEF AcceptRequest
  <2> QED BY <1>t, <1>3, <2>1 DEF AcceptRequest, Handlers, TypeOK
<1>4. ASSUME NEW c \in Calls, ServiceReturns(c) PROVE Handlers'
  <2>1. /\ UNCHANGED <<hst, outbox>> /\ inner[c] = "running" /\ inner'[c] = "returning"
        /\ ran'[c] = "ok" \/ herr'[c]
        /\ herr[c] => herr'[c]
        BY <1>t, <1>4 DEF ServiceReturns, TypeOK
  <2>2. \A d \in Calls \ {c} : UNCHANGED <<inner[d], ran[d], herr[d]>>
        BY <1>t, <1>4 DEF ServiceReturns, TypeOK
  <2> QED BY <1>t, <2>1, <2>2 DEF Handlers
<1>5. ASSUME NEW c \in Calls, Called(c) PROVE Handlers'
  <2>1. /\ <<c>> \in Seq({c, NoCall}) /\ <<NoCall>> \in Seq({c, NoCall})
        /\ <<NoCall, c>> \in Seq({c, NoCall})
        /\ <<c>> # <<>> /\ <<NoCall>> # <<>> /\ <<NoCall, c>> # <<>>
        OBVIOUS
  <2>2. outbox'[c] \in {<<c>>, <<NoCall>>, <<NoCall, c>>}
        BY <1>t, <1>5 DEF Called, TypeOK
  <2>3. \A d \in Calls \ {c} : UNCHANGED <<hst[d], inner[d], outbox[d]>>
        BY <1>t, <1>5 DEF Called, TypeOK
  <2>4. hst'[c] = "locking" /\ inner'[c] = "ended" /\ UNCHANGED <<ran, herr>>
        BY <1>t, <1>5 DEF Called, TypeOK
  <2>5. inner[c] = "returning"
        BY <1>5 DEF Called
  <2> QED BY <1>t, <2>1, <2>2, <2>3, <2>4, <2>5 DEF Handlers
<1>6. ASSUME NEW c \in Calls, TimeOut(c) PROVE Handlers'
  <2>1. <<NoCall>> # <<>> /\ <<NoCall>> \in Seq({c, NoCall})
        OBVIOUS
  <2> QED BY <1>t, <1>6, <2>1 DEF TimeOut, Handlers, TypeOK
<1>7. ASSUME NEW c \in Calls, LockSending(c) PROVE Handlers'
      BY <1>t, <1>7 DEF LockSending, Handlers, TypeOK
<1>8. ASSUME NEW c \in Calls, hst[c] \in Responding, Answered(c), UNCHANGED <<inner, ran, herr>>
      PROVE  Handlers'
      BY <1>t, <1>8, Answering DEF Handlers
<1>9. ASSUME NEW c \in Calls, WriteHeader(c) PROVE Handlers'
  <2>1. CASE sbufErr
        BY <1>8, <1>9, <2>1 DEF WriteHeader
  <2>2. CASE ~sbufErr
        BY <1>t, <1>9, <2>2 DEF WriteHeader, Handlers, TypeOK
  <2> QED BY <2>1, <2>2
<1>10. ASSUME NEW c \in Calls, WriteBody(c) PROVE Handlers'
      BY <1>8, <1>10 DEF WriteBody
<1> QED BY <1>1, <1>2, <1>3, <1>4, <1>5, <1>6, <1>7, <1>9, <1>10
        DEF Server, Serve, Handle, Respond

LEMMA ServerStarts ==
    ASSUME IInv, Server
    PROVE  StartedOnce'
<1> USE DEF loopVars, handVars
<1>t. TypeOK /\ StartedOnce
      BY DEF IInv
<1>1. CASE UNCHANGED <<inner, starts>>
      BY <1>t, <1>1 DEF StartedOnce
<1>2. CASE AcceptRequest
  <2>1. req.call \in Calls /\ inner[req.call] = "none"
        BY <1>2, ReqIsCall, Fresh DEF AcceptRequest
  <2> QED BY <1>t, <1>2, <2>1 DEF AcceptRequest, StartedOnce, TypeOK
<1>3. ASSUME NEW c \in Calls, ServiceReturns(c) \/ Called(c) PROVE StartedOnce'
      BY <1>t, <1>3 DEF ServiceReturns, Called, StartedOnce, TypeOK
<1> QED BY <1>1, <1>2, <1>3 DEF Server, Serve, Handle, Respond, ReadOption, ReadRequestHeader,
        RejectRequest, LeaveLoop, CloseConn, TimeOut, LockSending, WriteHeader, WriteBody

LEMMA ServerMutex ==
    ASSUME IInv, Server
    PROVE  Mutex'
<1> USE DEF loopVars, handVars, sendVars, wireVars, IsHeader
<1>t. TypeOK /\ Mutex /\ NoCall \notin Calls
      BY WireAssumption DEF IInv
<1>1. CASE ReadOption \/ ReadRequestHeader \/ LeaveLoop \/ CloseConn
      BY <1>t, <1>1 DEF ReadOption, ReadRequestHeader, LeaveLoop, CloseConn, Mutex
<1>2. CASE RejectRequest \/ AcceptRequest
  <2>1. req.call \in Calls /\ hst[req.call] = "none"
        BY <1>2, ReqIsCall, Fresh DEF RejectRequest, AcceptRequest
  <2>2. hst'[req.call] \in {"calling", "locking"} /\ UNCHANGED sendVars
        /\ sending \in Calls \cup {NoCall}
        BY <1>t, <1>2, <2>1 DEF RejectRequest, AcceptRequest, TypeOK
  <2>3. \A d \in Calls \ {req.call} : UNCHANGED <<hst[d], herr[d]>>
        BY <1>t, <1>2 DEF RejectRequest, AcceptRequest, TypeOK
  <2> QED BY <1>t, <2>1, <2>2, <2>3 DEF Mutex
<1>3. ASSUME NEW c \in Calls, ServiceReturns(c) PROVE Mutex'
  <2>1. hst[c] = "body" => herr'[c] = herr[c]
        BY <1>t, <1>3 DEF ServiceReturns, IInv, Handlers, Responding, TypeOK
  <2>2. UNCHANGED <<hst, sending, sbuf>> /\ \A d \in Calls \ {c} : UNCHANGED herr[d]
        BY <1>t, <1>3 DEF ServiceReturns, TypeOK
  <2> QED BY <1>t, <2>1, <2>2 DEF Mutex
<1>4. ASSUME NEW c \in Calls, Called(c) PROVE Mutex'
      BY <1>t, <1>4 DEF Called, Mutex, TypeOK
<1>5. ASSUME NEW c \in Calls, TimeOut(c) PROVE Mutex'
      BY <1>t, <1>5 DEF TimeOut, Mutex, TypeOK
<1>6. ASSUME NEW c \in Calls, LockSending(c) PROVE Mutex'
      BY <1>t, <1>6 DEF LockSending, Mutex, TypeOK
<1>7. ASSUME NEW c \in Calls, hst[c] \in {"header", "body"}, Answered(c), sbuf' = <<>>
      PROVE  Mutex'
  <2>1. sending = c /\ sending' = NoCall
        BY <1>t, <1>7 DEF Mutex, Answered
  <2>2. \A d \in Calls : hst'[d] \notin {"header", "body"}
        BY <1>t, <1>7, <2>1, Answering DEF Mutex, Responding
  <2> QED BY <1>t, <1>7, <2>1, <2>2 DEF Mutex
<1>8. ASSUME NEW c \in Calls, WriteHeader(c) PROVE Mutex'
  <2>1. sbuf = <<>> /\ sending = c
        BY <1>t, <1>8 DEF WriteHeader, Mutex
  <2>2. CASE sbufErr
        BY <1>7, <1>8, <2>1, <2>2 DEF WriteHeader
  <2>3. CASE ~sbufErr
    <3>1. /\ sbuf' = Append(sbuf, HeaderNow(c)) /\ UNCHANGED <<sending, herr>>
          /\ hst' = [hst EXCEPT ![c] = "body"]
          BY <1>8, <2>3 DEF WriteHeader
    <3>2. PICK x \in Unit : x = HeaderNow(c) /\ x.kind = "header" /\ x.call = c /\ x.failed = herr[c]
          BY <1>8, HeaderNowIs DEF WriteHeader
    <3>3. sbuf' = <<x>>
          BY <2>1, <3>1, <3>2
    <3>4. Len(sbuf') = 1 /\ sbuf'[1] = x
          BY <3>3
    <3> QED BY <1>t, <2>1, <3>1, <3>2, <3>4 DEF Mutex, TypeOK
  <2> QED BY <2>2, <2>3
<1>9. ASSUME NEW c \in Calls, WriteBody(c) PROVE Mutex'
      BY <1>7, <1>9 DEF WriteBody, FlushOK, FlushFails
<1> QED BY <1>1, <1>2, <1>3, <1>4, <1>5, <1>6, <1>8, <1>9
        DEF Server, Serve, Handle, Respond

LEMMA ServerFrames ==
    ASSUME IInv, Server
    PROVE  ResponseFrames'
<1>t. ResponseFrames /\ s2c \in Seq(Unit) /\ DOMAIN s2c = 1 .. Len(s2c) /\ Len(s2c) \in Nat
      BY DEF IInv, TypeOK
<1>1. CASE UNCHANGED s2c
      BY <1>t, <1>1, ServerLeaves DEF ResponseFrames
<1>2. ASSUME NEW c \in Calls, WriteBody(c), ~UNCHANGED s2c PROVE ResponseFrames'
  <2>1. /\ s2c' \in Seq(Unit) /\ ~sEnd
        /\ \A i \in DOMAIN s2c : s2c'[i] = s2c[i]
        /\ IsHeader(s2c', Len(s2c) + 1, c)
        /\ \/ Len(s2c') = Len(s2c) + 1 /\ sEnd'
           \/ /\ Len(s2c') = Len(s2c) + 2
              /\ s2c'[Len(s2c) + 2] = BodyUnit(outbox[c][1])
        BY <1>2, ResponsesGrow
  <2>2. \A i \in DOMAIN s2c : s2c[i].kind = "header" => i # Len(s2c)
        BY <1>t, <2>1 DEF ResponseFrames
  <2>3. BodyUnit(outbox[c][1]).kind = "body" /\ BodyUnit(outbox[c][1]).call \in {c, NoCall}
    <3>1. outbox[c] \in Seq({c, NoCall}) /\ outbox[c] # <<>>
          BY <1>2 DEF WriteBody, IInv, Handlers, Responding
    <3>2. outbox[c][1] \in {c, NoCall}
          BY <3>1
    <3> QED BY <3>2 DEF BodyUnit
  <2>4. Len(s2c') \in Nat /\ DOMAIN s2c' = 1 .. Len(s2c')
        BY <2>1
  <2>5. CASE Len(s2c') = Len(s2c) + 1 /\ sEnd'
    <3> QED BY <1>t, <2>1, <2>2, <2>4, <2>5 DEF ResponseFrames, IsHeader
  <2>6. CASE /\ Len(s2c') = Len(s2c) + 2
             /\ s2c'[Len(s2c) + 2] = BodyUnit(outbox[c][1])
    <3> QED BY <1>t, <2>1, <2>2, <2>3, <2>4, <2>6 DEF ResponseFrames, IsHeader
  <2> QED BY <2>1, <2>5, <2>6
<1> QED BY <1>1, <1>2 DEF Server, Serve, Handle, Respond, ReadOption, ReadRequestHeader,
        RejectRequest, AcceptRequest, LeaveLoop, CloseConn, ServiceReturns, Called, TimeOut,
        LockSending, WriteHeader, loopVars, handVars, sendVars, wireVars

LEMMA ServerEndings ==
    ASSUME IInv, Server
    PROVE  Endings'
<1> USE DEF loopVars, handVars, sendVars, wireVars, Truncated, Responses
<1>t. TypeOK /\ Endings /\ UNCHANGED cEnd
      BY ServerLeaves DEF IInv
<1>1. CASE ReadOption
  <2>1. \A c \in Calls : hst[c] = "none"
        BY <1>1 DEF ReadOption, IInv, Current
  <2> QED BY <1>t, <1>1, <2>1 DEF ReadOption, Endings
<1>2. CASE ReadRequestHeader
      BY <1>t, <1>2 DEF ReadRequestHeader, Endings
<1>3. CASE RejectRequest \/ AcceptRequest
  <2>1. req.call \in Calls
        BY <1>3, ReqIsCall DEF RejectRequest, AcceptRequest
  <2>2. hst'[req.call] \in {"calling", "locking"} /\ srv = "args" /\ srv' # "closed"
        /\ UNCHANGED <<s2c, sbufErr, sEnd>>
        BY <1>t, <1>3, <2>1 DEF RejectRequest, AcceptRequest, TypeOK
  <2>3. \A d \in Calls \ {req.call} : UNCHANGED <<hst[d], inner[d]>>
        BY <1>t, <1>3 DEF RejectRequest, AcceptRequest, TypeOK
  <2> QED BY <1>t, <2>1, <2>2, <2>3 DEF Endings
<1>5. CASE LeaveLoop
      BY <1>t, <1>5 DEF LeaveLoop, Endings
<1>6. CASE CloseConn
      BY <1>t, <1>6 DEF CloseConn, Endings
<1>7. ASSUME NEW c \in Calls, ServiceReturns(c) PROVE Endings'
      BY <1>t, <1>7 DEF ServiceReturns, Endings, TypeOK
<1>8. ASSUME NEW c \in Calls, Called(c) \/ TimeOut(c) PROVE Endings'
  <2>1. /\ hst[c] = "calling" /\ hst'[c] = "locking" /\ UNCHANGED <<srv, s2c, sbufErr, sEnd>>
        /\ \A d \in Calls \ {c} : UNCHANGED <<hst[d], inner[d]>>
        BY <1>t, <1>8 DEF Called, TimeOut, TypeOK
  <2> QED BY <1>t, <2>1 DEF Endings
<1>9. ASSUME NEW c \in Calls, LockSending(c) PROVE Endings'
      BY <1>t, <1>9 DEF LockSending, Endings, TypeOK
<1>10. ASSUME NEW c \in Calls, WriteHeader(c) PROVE Endings'
  <2>1. CASE sbufErr
    <3>1. /\ hst[c] = "header" /\ Answered(c) /\ UNCHANGED <<srv, s2c, sbufErr, sEnd, inner>>
          BY <1>10, <2>1 DEF WriteHeader
    <3>2. hst'[c] \in {"locking", "ended"} /\ \A d \in Calls \ {c} : UNCHANGED hst[d]
          BY <3>1, Answering DEF Responding
    <3>3. cEnd \/ Truncated
          BY <1>t, <2>1, <3>1 DEF Endings
    <3> QED BY <1>t, <3>1, <3>2, <3>3 DEF Endings
  <2>2. CASE ~sbufErr
    <3>1. hst[c] = "header" /\ hst' = [hst EXCEPT ![c] = "body"]
          /\ UNCHANGED <<srv, s2c, sbufErr, sEnd, inner>>
          BY <1>10, <2>2 DEF WriteHeader
    <3> QED BY <1>t, <3>1 DEF Endings, TypeOK
  <2> QED BY <2>1, <2>2
<1>11. ASSUME NEW c \in Calls, WriteBody(c) PROVE Endings'
  <2>1. /\ hst[c] = "body" /\ UNCHANGED <<srv, inner>> /\ srv # "closed"
        /\ (sbufErr' => sbufErr \/ cEnd \/ sEnd) /\ (sEnd => sEnd')
        BY <1>t, <1>11 DEF WriteBody, FlushOK, FlushFails, Endings
  <2>2. hst'[c] \in {"locking", "ended"} /\ \A d \in Calls \ {c} : UNCHANGED hst[d]
        BY <1>11, Answering DEF WriteBody, Responding
  <2>3. CASE UNCHANGED s2c /\ (cEnd \/ sEnd)
    <3>1. cEnd \/ Truncated
          BY <1>t, <2>1, <2>3 DEF Endings
    <3> QED BY <1>t, <2>1, <2>2, <2>3, <3>1 DEF Endings
  <2>4. CASE ~(UNCHANGED s2c /\ (cEnd \/ sEnd))
    <3>1. /\ s2c' \in Seq(Unit) /\ ~sEnd /\ ~cEnd
          /\ \A i \in DOMAIN s2c : s2c'[i] = s2c[i]
          /\ IsHeader(s2c', Len(s2c) + 1, c)
          /\ \/ Len(s2c') = Len(s2c) + 1 /\ sEnd'
             \/ Len(s2c') = Len(s2c) + 2 /\ ~sEnd'
          BY <1>11, <2>4, ResponsesGrow
    <3>2. DOMAIN s2c = 1 .. Len(s2c) /\ Len(s2c) \in Nat
          BY <1>t DEF TypeOK
    <3>3. ~Truncated
          BY <3>1, <3>2 DEF IInv, ResponseFrames
    <3>4. Len(s2c) + 1 \in Responses(c)'
          BY <3>1, <3>2 DEF IsHeader
    <3>5. \A d \in Calls : Responses(d) \subseteq Responses(d)'
          BY <3>1, <3>2
    <3>6. sEnd' => Truncated'
      <4>1. CASE Len(s2c') = Len(s2c) + 1
            BY <3>1, <3>2, <4>1 DEF IsHeader
      <4> QED BY <3>1, <4>1
    <3> QED BY <1>t, <2>1, <2>2, <3>1, <3>3, <3>4, <3>5, <3>6 DEF Endings
  <2> QED BY <2>3, <2>4
<1> QED BY <1>1, <1>2, <1>3, <1>5, <1>6, <1>7, <1>8, <1>9, <1>10, <1>11
        DEF Server, Serve, Handle, Respond

LEMMA ServerStep ==
    ASSUME IInv, Server
    PROVE  IInv'
    BY ServerTypes, ServerRequests, ServerCurrent, ServerHandlers, ServerStarts, ServerMutex,
       ServerFrames, ServerEndings DEF IInv

-----------------------------------------------------------------------------
(* The steps of the client and the network. *)

LEMMA ClientStep ==
    ASSUME IInv, ClientMoves
    PROVE  IInv'
<1> USE DEF loopVars, handVars, sendVars
<1>t. /\ TypeOK /\ Requests /\ Current /\ Handlers /\ StartedOnce /\ Mutex
      /\ ResponseFrames /\ Endings
      BY DEF IInv
<1>u. /\ UNCHANGED <<loopVars, handVars, sendVars, s2c>>
      /\ cEnd' \in BOOLEAN /\ (cEnd => cEnd')
      /\ sEnd' \in BOOLEAN /\ (sEnd => sEnd') /\ (sEnd' => sEnd \/ cEnd')
      BY DEF ClientMoves
<1>g. /\ c2s' \in Seq(Unit) /\ Len(c2s) <= Len(c2s')
      /\ \A i \in DOMAIN c2s : i \in DOMAIN c2s' /\ c2s'[i] = c2s[i]
      /\ \A i \in DOMAIN c2s' \ DOMAIN c2s : c2s'[i].call \in Calls \ Sent
      /\ \A i, j \in DOMAIN c2s' \ DOMAIN c2s :
            c2s'[i].kind = "header" /\ c2s'[j].kind = "header" => i = j
      BY <1>t, RequestsGrow
<1>1. TypeOK'
  <2>1. spos \in 0 .. Len(c2s) /\ Len(c2s) \in Nat /\ Len(c2s') \in Nat
        BY <1>t, <1>g DEF TypeOK
  <2>2. spos \in 0 .. Len(c2s')
        BY <1>g, <2>1
  <2> QED BY <1>t, <1>u, <1>g, <2>2 DEF TypeOK
<1>2. Requests'
  <2>1. \A i \in DOMAIN c2s' : c2s'[i].call \in Calls
        BY <1>t, <1>g DEF Requests
  <2>2. ASSUME NEW i \in DOMAIN c2s', NEW j \in DOMAIN c2s',
               c2s'[i].kind = "header", c2s'[j].kind = "header", c2s'[i].call = c2s'[j].call
        PROVE  i = j
    <3>1. \A k \in DOMAIN c2s : c2s'[k].call \in Sent
          BY <1>g DEF Sent
    <3>2. i \in DOMAIN c2s <=> j \in DOMAIN c2s
          BY <1>g, <2>2, <3>1
    <3>3. CASE i \in DOMAIN c2s
          BY <1>t, <1>g, <2>2, <3>2, <3>3 DEF Requests
    <3>4. CASE i \notin DOMAIN c2s
          BY <1>g, <2>2, <3>2, <3>4
    <3> QED BY <3>3, <3>4
  <2> QED BY <2>1, <2>2 DEF Requests
<1>3. Current'
  <2>1. ASSUME NEW c \in Calls, hst[c] # "none"
        PROVE  \E i \in DOMAIN c2s' : i <= spos /\ (srv = "args" => i # spos) /\ IsHeader(c2s', i, c)
    <3>1. PICK i \in DOMAIN c2s : i <= spos /\ (srv = "args" => i # spos) /\ IsHeader(c2s, i, c)
          BY <1>t, <2>1 DEF Current
    <3> QED BY <1>g, <3>1 DEF IsHeader
  <2> QED BY <1>t, <1>u, <1>g, <2>1 DEF Current
<1>4. Handlers' /\ StartedOnce' /\ Mutex'
      BY <1>t, <1>u DEF Handlers, StartedOnce, Mutex, IsHeader
<1>5. ResponseFrames'
      BY <1>t, <1>u DEF ResponseFrames
<1>6. Endings'
      BY <1>t, <1>u DEF Endings, Truncated, Responses
<1> QED BY <1>1, <1>2, <1>3, <1>4, <1>5, <1>6 DEF IInv

-----------------------------------------------------------------------------
(* The invariant holds. *)

LEMMA InvInit == Init => IInv
<1> SUFFICES ASSUME Init PROVE IInv
    OBVIOUS
<1> USE WireAssumption DEF Init
<1>1. HeaderUnit(0, NoCall, FALSE) \in Unit
      BY UnitTypes
<1>2. DOMAIN c2s = {} /\ DOMAIN s2c = {} /\ Len(c2s) = 0
      OBVIOUS
<1>3. TypeOK
  <2>1. <<>> \in Seq(Unit) /\ <<>> \in Seq(Calls \cup {NoCall})
        OBVIOUS
  <2>2. outbox \in [Calls -> Seq(Calls \cup {NoCall})]
        BY <2>1
  <2>3. spos \in 0 .. Len(c2s) /\ garbled \in BOOLEAN /\ req \in Unit
    <3>1. spos = 0 /\ 0 \in 0 .. 0
          OBVIOUS
    <3>2. spos \in 0 .. Len(c2s)
          BY <1>2, <3>1, Zenon
    <3> QED BY <1>1, <3>2
  <2>4. /\ hst \in [Calls -> {"none", "calling", "locking", "header", "body", "ended"}]
        /\ inner \in [Calls -> {"none", "running", "returning", "ended"}]
        /\ ran \in [Calls -> {"no", "ok", "error"}] /\ herr \in [Calls -> BOOLEAN]
        /\ starts \in [Calls -> Nat]
        OBVIOUS
  <2> QED BY <2>1, <2>2, <2>3, <2>4 DEF TypeOK
<1>4. Requests /\ Current
      BY <1>2 DEF Requests, Current
<1>5. Handlers /\ StartedOnce /\ Mutex
      BY DEF Handlers, StartedOnce, Mutex, Responding
<1>6. ResponseFrames /\ Endings
      BY <1>2 DEF ResponseFrames, Endings
<1> QED BY <1>3, <1>4, <1>5, <1>6 DEF IInv

LEMMA InvStep == IInv /\ [Next]_vars => IInv'
<1> SUFFICES ASSUME IInv, [Next]_vars PROVE IInv'
    OBVIOUS
<1>1. CASE Server
      BY <1>1, ServerStep
<1>2. CASE Environment
      BY <1>2, EnvironmentMoves, ClientStep DEF IInv
<1>3. CASE UNCHANGED vars
  <2>1. ClientMoves
        BY <1>3 DEF vars, wireVars, ClientMoves, IInv, TypeOK
  <2> QED BY <2>1, ClientStep
<1> QED BY <1>1, <1>2, <1>3 DEF Next

LEMMA Invariance == Spec => []IInv
      BY InvInit, InvStep, PTL DEF Spec

\* Every variable of the server keeps to its type.
THEOREM TypeCorrect == Spec => []TypeOK
<1>1. IInv => TypeOK
      BY DEF IInv
<1> QED BY <1>1, Invariance, PTL

\* The mutex `sending' keeps the two values of every response together, however
\* many handlers there are.
THEOREM WholeResponses == Spec => []ResponseFrames
<1>1. IInv => ResponseFrames
      BY DEF IInv
<1> QED BY <1>1, Invariance, PTL

\* wg.Wait makes ServeCodec wait for the answer of every request it accepted.
THEOREM NoneMissing == Spec => []AnsweredBeforeClose
<1>1. IInv => AnsweredBeforeClose
  <2> SUFFICES ASSUME IInv, srv = "closed", ~cEnd, ~Truncated, NEW c \in Calls, inner[c] # "none"
               PROVE  Responses(c) # {}
      BY DEF AnsweredBeforeClose
  <2>1. hst[c] = "ended"
        BY DEF IInv, Endings, Handlers
  <2> QED BY <2>1 DEF IInv, Endings
<1> QED BY <1>1, Invariance, PTL

-----------------------------------------------------------------------------
(* Success has to be earned: a response without error has the result of a    *)
(* service method that has returned without one.                             *)

Earned ==
    \A c \in Calls : hst[c] \in Responding /\ ~herr[c] =>
        outbox[c] = <<c>> /\ ran[c] = "ok" /\ inner[c] = "ended"

LEMMA ServerEarned ==
    ASSUME IInv, Earned, Server
    PROVE  Earned'
<1> USE DEF loopVars, handVars, sendVars, wireVars, Responding
<1>t. TypeOK /\ Earned
      BY DEF IInv
<1>1. CASE ReadOption \/ ReadRequestHeader \/ LeaveLoop \/ CloseConn
      BY <1>t, <1>1 DEF ReadOption, ReadRequestHeader, LeaveLoop, CloseConn, Earned
<1>2. CASE RejectRequest \/ AcceptRequest
  <2>1. req.call \in Calls
        BY <1>2, ReqIsCall DEF RejectRequest, AcceptRequest
  <2>2. hst'[req.call] = "calling" \/ herr'[req.call]
        BY <1>t, <1>2, <2>1 DEF RejectRequest, AcceptRequest, TypeOK
  <2>3. \A d \in Calls \ {req.call} : UNCHANGED <<hst[d], outbox[d], herr[d], ran[d], inner[d]>>
        BY <1>t, <1>2 DEF RejectRequest, AcceptRequest, TypeOK
  <2> QED BY <1>t, <2>2, <2>3 DEF Earned
<1>3. ASSUME NEW c \in Calls, ServiceReturns(c) PROVE Earned'
  <2>1. inner[c] = "running" /\ UNCHANGED <<hst, outbox>>
        BY <1>3 DEF ServiceReturns
  <2>2. hst[c] \in Responding => herr'[c]
        BY <1>t, <1>3, <2>1 DEF Earned, ServiceReturns, TypeOK
  <2>3. \A d \in Calls \ {c} : UNCHANGED <<herr[d], ran[d], inner[d]>>
        BY <1>t, <1>3 DEF ServiceReturns, TypeOK
  <2> QED BY <1>t, <2>1, <2>2, <2>3 DEF Earned
<1>4. ASSUME NEW c \in Calls, Called(c) PROVE Earned'
  <2>1. /\ UNCHANGED <<ran, herr>> /\ inner[c] = "returning" /\ inner'[c] = "ended"
        /\ ~herr[c] => outbox'[c] = <<c>>
        BY <1>t, <1>4 DEF Called, TypeOK
  <2>2. ran[c] = "ok" \/ herr[c]
        BY <2>1 DEF IInv, Handlers
  <2>3. \A d \in Calls \ {c} : UNCHANGED <<hst[d], outbox[d], inner[d]>>
        BY <1>t, <1>4 DEF Called, TypeOK
  <2> QED BY <1>t, <2>1, <2>2, <2>3 DEF Earned
<1>5. ASSUME NEW c \in Calls, TimeOut(c) PROVE Earned'
      BY <1>t, <1>5 DEF TimeOut, Earned, TypeOK
<1>6. ASSUME NEW c \in Calls, LockSending(c) PROVE Earned'
      BY <1>t, <1>6 DEF LockSending, Earned, TypeOK
<1>7. ASSUME NEW c \in Calls, hst[c] \in Responding, Answered(c), UNCHANGED <<ran, herr, inner>>
      PROVE  Earned'
  <2>1. herr[c] \/ hst'[c] = "ended"
    <3>1. herr[c] \/ outbox[c] = <<c>>
          BY <1>t, <1>7 DEF Earned
    <3>2. Len(<<c>>) = 1
          OBVIOUS
    <3>3. herr[c] \/ Len(outbox[c]) = 1
          BY <3>1, <3>2, Zenon
    <3> QED BY <1>7, <3>3, Answering
  <2>2. \A d \in Calls \ {c} : UNCHANGED <<hst[d], outbox[d]>>
        BY <1>7, Answering
  <2> QED BY <1>t, <1>7, <2>1, <2>2 DEF Earned
<1>8. ASSUME NEW c \in Calls, WriteHeader(c) PROVE Earned'
  <2>1. CASE sbufErr
        BY <1>7, <1>8, <2>1 DEF WriteHeader
  <2>2. CASE ~sbufErr
        BY <1>t, <1>8, <2>2 DEF WriteHeader, Earned, TypeOK
  <2> QED BY <2>1, <2>2
<1>9. ASSUME NEW c \in Calls, WriteBody(c) PROVE Earned'
      BY <1>7, <1>9 DEF WriteBody
<1> QED BY <1>1, <1>2, <1>3, <1>4, <1>5, <1>6, <1>8, <1>9
        DEF Server, Serve, Handle, Respond

\* What a step of the server does to a response already written: nothing.
LEMMA Settled ==
    ASSUME IInv, Server
    PROVE  \A d \in Calls : /\ hst[d] = "ended" => hst'[d] = "ended"
                            /\ ran[d] = "ok" => ran'[d] = "ok"
<1> USE DEF loopVars, handVars, sendVars, wireVars, Responding
<1>t. TypeOK
      BY DEF IInv
<1>1. CASE ReadOption \/ ReadRequestHeader \/ LeaveLoop \/ CloseConn
      BY <1>1 DEF ReadOption, ReadRequestHeader, LeaveLoop, CloseConn
<1>2. CASE RejectRequest \/ AcceptRequest
  <2>1. hst[req.call] = "none" /\ UNCHANGED ran
        BY <1>2, Fresh DEF RejectRequest, AcceptRequest
  <2>2. \A d \in Calls \ {req.call} : UNCHANGED hst[d]
        BY <1>t, <1>2 DEF RejectRequest, AcceptRequest, TypeOK
  <2> QED BY <2>1, <2>2
<1>3. ASSUME NEW c \in Calls, ServiceReturns(c), NEW d \in Calls
      PROVE  UNCHANGED hst[d] /\ (ran[d] = "ok" => ran'[d] = "ok")
      BY <1>t, <1>3 DEF ServiceReturns, TypeOK, IInv, Handlers
<1>4. ASSUME NEW c \in Calls, Handle(c), ~ServiceReturns(c)
      PROVE  /\ UNCHANGED ran /\ hst[c] # "ended"
             /\ \A d \in Calls \ {c} : UNCHANGED hst[d]
  <2>1. CASE Called(c) \/ TimeOut(c) \/ LockSending(c)
        BY <1>t, <2>1 DEF Called, TimeOut, LockSending, TypeOK
  <2>2. CASE WriteHeader(c)
        BY <1>t, <2>2, Answering DEF WriteHeader, TypeOK
  <2>3. CASE WriteBody(c)
        BY <2>3, Answering DEF WriteBody
  <2> QED BY <1>4, <2>1, <2>2, <2>3 DEF Handle, Respond
<1> QED BY <1>1, <1>2, <1>3, <1>4 DEF Server, Serve

-----------------------------------------------------------------------------
(* With a HandleTimeout an error response is the only one. *)

LEMMA DecidedStep ==
    ASSUME HandleTimeout, IInv, Decided, Server
    PROVE  Decided'
<1> USE DEF loopVars, handVars, sendVars, wireVars, Responding
<1>t. TypeOK /\ Decided
      BY DEF IInv
<1>1. CASE ReadOption \/ ReadRequestHeader \/ LeaveLoop \/ CloseConn
      BY <1>t, <1>1 DEF ReadOption, ReadRequestHeader, LeaveLoop, CloseConn, Decided
<1>2. CASE RejectRequest \/ AcceptRequest
  <2>1. req.call \in Calls
        BY <1>2, ReqIsCall DEF RejectRequest, AcceptRequest
  <2>2. \/ hst'[req.call] = "locking" /\ outbox'[req.call] = <<NoCall>> /\ herr'[req.call]
        \/ hst'[req.call] = "calling"
        BY <1>t, <1>2, <2>1 DEF RejectRequest, AcceptRequest, TypeOK
  <2>3. \A d \in Calls \ {req.call} : UNCHANGED <<hst[d], outbox[d], herr[d], ran[d], inner[d]>>
        BY <1>t, <1>2 DEF RejectRequest, AcceptRequest, TypeOK
  <2> QED BY <1>t, <2>2, <2>3 DEF Decided
<1>3. ASSUME NEW c \in Calls, ServiceReturns(c) PROVE Decided'
  <2>1. inner[c] = "running" /\ UNCHANGED <<hst, outbox>>
        BY <1>3 DEF ServiceReturns
  <2>2. hst[c] \in Responding => outbox[c] = <<NoCall>> /\ herr[c]
        BY <1>t, <2>1 DEF Decided
  <2>3. /\ herr[c] => herr'[c]
        /\ \A d \in Calls \ {c} : UNCHANGED <<herr[d], ran[d], inner[d]>>
        BY <1>t, <1>3 DEF ServiceReturns, TypeOK
  <2> QED BY <1>t, <2>1, <2>2, <2>3 DEF Decided
<1>4. ASSUME NEW c \in Calls, Called(c) PROVE Decided'
  <2>1. /\ UNCHANGED <<ran, herr>> /\ inner[c] = "returning" /\ inner'[c] = "ended"
        /\ outbox'[c] = IF ~herr[c] THEN <<c>> ELSE <<NoCall>>
        BY <1>t, <1>4 DEF Called, TypeOK
  <2>2. ran[c] = "ok" \/ herr[c]
        BY <2>1 DEF IInv, Handlers
  <2>3. \A d \in Calls \ {c} : UNCHANGED <<hst[d], outbox[d], inner[d]>>
        BY <1>t, <1>4 DEF Called, TypeOK
  <2> QED BY <1>t, <2>1, <2>2, <2>3 DEF Decided
<1>5. ASSUME NEW c \in Calls, TimeOut(c) PROVE Decided'
      BY <1>t, <1>5 DEF TimeOut, Decided, TypeOK
<1>6. ASSUME NEW c \in Calls, LockSending(c) PROVE Decided'
      BY <1>t, <1>6 DEF LockSending, Decided, TypeOK
<1>7. ASSUME NEW c \in Calls, hst[c] \in Responding, Answered(c), UNCHANGED <<ran, herr, inner>>
      PROVE  hst'[c] = "ended" /\ Decided'
  <2>1. outbox[c] = <<NoCall>> \/ outbox[c] = <<c>>
        BY <1>t, <1>7 DEF Decided
  <2>2. Len(<<NoCall>>) = 1 /\ Len(<<c>>) = 1
        OBVIOUS
  <2>3. Len(outbox[c]) = 1
        BY <2>1, <2>2, Zenon
  <2>4. hst'[c] = "ended" /\ \A d \in Calls \ {c} : UNCHANGED <<hst[d], outbox[d]>>
        BY <1>7, <2>3, Answering
  <2> QED BY <1>t, <1>7, <2>4 DEF Decided
<1>8. ASSUME NEW c \in Calls, WriteHeader(c) PROVE Decided'
  <2>1. CASE sbufErr
        BY <1>7, <1>8, <2>1 DEF WriteHeader
  <2>2. CASE ~sbufErr
        BY <1>t, <1>8, <2>2 DEF WriteHeader, Decided, TypeOK
  <2> QED BY <2>1, <2>2
<1>9. ASSUME NEW c \in Calls, WriteBody(c) PROVE Decided'
      BY <1>7, <1>9 DEF WriteBody
<1> QED BY <1>1, <1>2, <1>3, <1>4, <1>5, <1>6, <1>8, <1>9
        DEF Server, Serve, Handle, Respond

LEMMA TServerStep ==
    ASSUME HandleTimeout, IInv, TInv, Server
    PROVE  TInv'
<1>t. /\ Decided /\ Single /\ HonestResponse /\ ResponseFrames
      /\ s2c \in Seq(Unit) /\ DOMAIN s2c = 1 .. Len(s2c) /\ Len(s2c) \in Nat
      BY DEF IInv, TInv, TypeOK
<1>s. \A d \in Calls : /\ hst[d] = "ended" => hst'[d] = "ended"
                       /\ ran[d] = "ok" => ran'[d] = "ok"
      BY <1>t, Settled
<1>1. Decided'
      BY <1>t, DecidedStep
<1>2. CASE UNCHANGED s2c
  <2>1. Single'
        BY <1>t, <1>s, <1>2 DEF Single, IsHeader
  <2>2. HonestResponse'
        BY <1>t, <1>s, <1>2 DEF HonestResponse, Single
  <2> QED BY <1>1, <2>1, <2>2 DEF TInv
<1>3. ASSUME NEW c \in Calls, WriteBody(c), ~UNCHANGED s2c PROVE TInv'
  <2>1. /\ s2c' \in Seq(Unit) /\ ~sEnd
        /\ \A i \in DOMAIN s2c : s2c'[i] = s2c[i]
        /\ IsHeader(s2c', Len(s2c) + 1, c) /\ s2c'[Len(s2c) + 1].failed = herr[c]
        /\ \/ Len(s2c') = Len(s2c) + 1
           \/ /\ Len(s2c') = Len(s2c) + 2
              /\ s2c'[Len(s2c) + 2] = BodyUnit(outbox[c][1])
        BY <1>3, ResponsesGrow
  <2>2. hst[c] = "body" /\ UNCHANGED ran
        BY <1>3 DEF WriteBody
  <2>3. /\ Len(outbox[c]) = 1
        /\ \/ outbox[c][1] = NoCall /\ herr[c]
           \/ outbox[c][1] = c /\ ~herr[c] /\ ran[c] = "ok"
    <3>1. \/ outbox[c] = <<NoCall>> /\ herr[c]
          \/ outbox[c] = <<c>> /\ ~herr[c] /\ ran[c] = "ok"
          BY <1>t, <2>2 DEF Decided, Responding
    <3>2. /\ Len(<<NoCall>>) = 1 /\ <<NoCall>>[1] = NoCall
          /\ Len(<<c>>) = 1 /\ <<c>>[1] = c
          OBVIOUS
    <3> QED BY <3>1, <3>2, Zenon
  <2>4. hst'[c] = "ended"
        BY <1>3, <2>2, <2>3, Answering DEF WriteBody, Responding
  <2>5. /\ \A i \in DOMAIN s2c : i \in DOMAIN s2c' /\ i < Len(s2c')
        /\ Len(s2c) + 1 \in DOMAIN s2c'
        /\ \A i \in DOMAIN s2c' :
              i \in DOMAIN s2c \/ i = Len(s2c) + 1 \/ (i = Len(s2c) + 2 /\ i = Len(s2c'))
        BY <1>t, <2>1
  <2>6. Len(s2c') = Len(s2c) + 2 =>
            s2c'[Len(s2c) + 2].kind = "body" /\ s2c'[Len(s2c) + 2].call = outbox[c][1]
        BY <1>t, <2>1 DEF BodyUnit
  <2>7. \A i \in DOMAIN s2c : s2c[i].kind = "header" => s2c[i].call # c /\ i < Len(s2c)
        BY <1>t, <2>1, <2>2 DEF Single, ResponseFrames
  <2>8. Single'
    <3>1. ASSUME NEW i \in DOMAIN s2c', s2c'[i].kind = "header"
          PROVE  /\ s2c'[i].call \in Calls /\ hst'[s2c'[i].call] = "ended"
                 /\ \A j \in DOMAIN s2c' : IsHeader(s2c', j, s2c'[i].call) => i = j
      <4>1. CASE i \in DOMAIN s2c
            BY <1>t, <1>s, <2>1, <2>5, <2>6, <2>7, <3>1, <4>1 DEF Single, IsHeader
      <4>2. CASE i = Len(s2c) + 1
            BY <1>t, <2>1, <2>4, <2>5, <2>6, <2>7, <4>2 DEF IsHeader
      <4> QED BY <2>1, <2>5, <2>6, <3>1, <4>1, <4>2
    <3> QED BY <3>1 DEF Single
  <2>9. HonestResponse'
    <3>1. ASSUME NEW i \in DOMAIN s2c', s2c'[i].kind = "header", i < Len(s2c')
          PROVE  IF s2c'[i].failed THEN s2c'[i + 1].call = NoCall
                 ELSE ran'[s2c'[i].call] = "ok" /\ s2c'[i + 1].call = s2c'[i].call
      <4>1. CASE i \in DOMAIN s2c
        <5>1. i < Len(s2c) /\ i + 1 \in DOMAIN s2c
              BY <1>t, <2>1, <2>7, <3>1, <4>1
        <5> QED BY <1>t, <2>1, <2>2, <3>1, <4>1, <5>1 DEF HonestResponse
      <4>2. CASE i = Len(s2c) + 1
        <5>1. Len(s2c') = Len(s2c) + 2 /\ i + 1 = Len(s2c) + 2
              BY <1>t, <2>1, <3>1, <4>2
        <5> QED BY <2>1, <2>2, <2>3, <2>6, <4>2, <5>1 DEF IsHeader
      <4> QED BY <2>1, <2>5, <2>6, <3>1, <4>1, <4>2
    <3> QED BY <3>1 DEF HonestResponse
  <2> QED BY <1>1, <2>8, <2>9 DEF TInv
<1> QED BY <1>2, <1>3 DEF Server, Serve, Handle, Respond, ReadOption, ReadRequestHeader,
        RejectRequest, AcceptRequest, LeaveLoop, CloseConn, ServiceReturns, Called, TimeOut,
        LockSending, WriteHeader, loopVars, handVars, sendVars, wireVars

LEMMA TClientStep ==
    ASSUME TInv, ClientMoves
    PROVE  TInv'
    BY DEF TInv, Decided, Single, HonestResponse, IsHeader, ClientMoves, handVars

LEMMA TInvariance ==
    ASSUME HandleTimeout
    PROVE  Spec => [](IInv /\ TInv)
<1>1. Init => TInv
      BY DEF Init, TInv, Decided, Single, HonestResponse, Responding
<1>2. IInv /\ TInv /\ [Next]_vars => TInv'
  <2> SUFFICES ASSUME IInv, TInv, [Next]_vars PROVE TInv'
      OBVIOUS
  <2>1. CASE Server
        BY <2>1, TServerStep
  <2>2. CASE Environment
        BY <2>2, EnvironmentMoves, TClientStep DEF IInv
  <2>3. CASE UNCHANGED vars
    <3>1. ClientMoves
          BY <2>3 DEF vars, wireVars, ClientMoves, IInv, TypeOK
    <3> QED BY <3>1, TClientStep
  <2> QED BY <2>1, <2>2, <2>3 DEF Next
<1> QED BY <1>1, <1>2, InvInit, InvStep, PTL DEF Spec

\* With a timeout a response says truly whether the service method has
\* succeeded, although the timeout and the method race for the header.
THEOREM Honest ==
    ASSUME HandleTimeout
    PROVE  Spec => []HonestResponse
<1>1. IInv /\ TInv => HonestResponse
      BY DEF TInv
<1> QED BY <1>1, TInvariance, PTL

\* With a timeout no request is answered twice.  Without one it is: the error
\* response of handleRequest is followed by the reply.
THEOREM AnsweredOnce ==
    ASSUME HandleTimeout
    PROVE  Spec => []OneResponse
<1>1. IInv /\ TInv => OneResponse
  <2> SUFFICES ASSUME TInv, NEW c \in Calls PROVE Cardinality(Responses(c)) <= 1
      BY DEF OneResponse
  <2>1. CASE Responses(c) = {}
        BY <2>1, FS_EmptySet
  <2>2. CASE Responses(c) # {}
    <3>1. PICK i : i \in Responses(c)
          BY <2>2
    <3>2. Responses(c) = {i}
          BY <3>1 DEF Responses, TInv, Single, IsHeader
    <3>3. Cardinality({i}) = 1
          BY FS_Singleton
    <3> QED BY <3>2, <3>3
  <2> QED BY <2>1, <2>2
<1> QED BY <1>1, TInvariance, PTL
=============================================================================
