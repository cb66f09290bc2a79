------------------------ MODULE RpcConnectionProofs ------------------------
(***************************************************************************)
(* Client and server joined: each is all that the invariant of the other   *)
(* asks of its environment, and together they keep the promise of RpcCalls *)
(* for any set of calls, faults, timeouts and values read too far.         *)
(***************************************************************************)
EXTENDS RpcConnection, TLAPS

CP == INSTANCE RpcClientProofs WITH Twice <- {}
SP == INSTANCE RpcServerProofs WITH ServerFaults <- {}

-----------------------------------------------------------------------------
(* The inductive invariant: those of both ends, and what relates them.     *)

\* A response leaves under the number its call has at the client.
SameNumber == \A c \in Calls : hst[c] = "body" => sbuf[1].seq = seqOf[c]

\* A response without error, on its way or received, is one of a service
\* method that has returned without error.
Truthful ==
    /\ \A i \in DOMAIN s2c :
          s2c[i].kind = "header" /\ ~s2c[i].failed => ran[s2c[i].call] = "ok"
    /\ \A c \in Calls : reply[c] = c => ran[c] = "ok"

\* A call of Go that has failed never succeeds afterwards.
FailedForGood ==
    \A c \in Calls \ SyncCalls : result[c] \notin {"none", "ok"} => err[c] # "none"

IInv ==
    /\ CP!IInv /\ SP!IInv /\ SP!Earned
    /\ SameNumber /\ Truthful /\ FailedForGood

-----------------------------------------------------------------------------
(* The steps of the connection are steps of the two ends.                  *)

LEMMA ClientSteps == C!Client => CP!Client
    BY
        DEF C!Client, CP!Client, C!Send, CP!Send, C!User, CP!User, C!Receive, CP!Receive,
            C!Invoke, CP!Invoke, C!LockHead, CP!LockHead, C!Register, CP!Register,
            C!WriteHeader, CP!WriteHeader, C!WriteBody, CP!WriteBody, C!Remove, CP!Remove,
            C!Finish, CP!Finish, C!Take, CP!Take, C!Expire, CP!Expire, C!Cancel, CP!Cancel,
            C!Close, CP!Close, C!ReadHeader, CP!ReadHeader, C!LookUp, CP!LookUp,
            C!DiscardBody, CP!DiscardBody, C!ReadErrorBody, CP!ReadErrorBody,
            C!ReadReply, CP!ReadReply, C!CompleteCall, CP!CompleteCall,
            C!TerminateBegin, CP!TerminateBegin, C!Notify, CP!Notify,
            C!TerminateEnd, CP!TerminateEnd, C!MuFree, CP!MuFree, C!Put, CP!Put,
            C!Delete, CP!Delete, C!PendingCalls, CP!PendingCalls, C!LookedUp, CP!LookedUp,
            C!SendDone, CP!SendDone, C!FlushOK, CP!FlushOK, C!FlushFails, CP!FlushFails,
            C!ReadFails, CP!ReadFails, C!callVars, CP!callVars, C!tableVars, CP!tableVars,
            C!doneVars, CP!doneVars, C!bufVars, CP!bufVars, C!rcvVars, CP!rcvVars,
            C!wireVars, CP!wireVars, C!HeaderUnit, CP!HeaderUnit, C!BodyUnit, CP!BodyUnit,
            C!Ready, CP!Ready, C!Mismatch, CP!Mismatch

LEMMA ServerSteps == S!Server => SP!Server
    BY
        DEF S!Server, SP!Server, S!Serve, SP!Serve, S!Handle, SP!Handle, S!Respond, SP!Respond,
            S!ReadOption, SP!ReadOption, S!ReadRequestHeader, SP!ReadRequestHeader,
            S!RejectRequest, SP!RejectRequest, S!AcceptRequest, SP!AcceptRequest,
            S!LeaveLoop, SP!LeaveLoop, S!CloseConn, SP!CloseConn,
            S!ServiceReturns, SP!ServiceReturns, S!Called, SP!Called, S!TimeOut, SP!TimeOut,
            S!LockSending, SP!LockSending, S!WriteHeader, SP!WriteHeader,
            S!WriteBody, SP!WriteBody, S!Answered, SP!Answered, S!HeaderNow, SP!HeaderNow,
            S!FlushOK, SP!FlushOK, S!FlushFails, SP!FlushFails, S!Broken, SP!Broken,
            S!Refused, SP!Refused, S!loopVars, SP!loopVars, S!handVars, SP!handVars,
            S!sendVars, SP!sendVars, S!wireVars, SP!wireVars, S!HeaderUnit, SP!HeaderUnit,
            S!BodyUnit, SP!BodyUnit, S!Ready, SP!Ready, S!Mismatch, SP!Mismatch

\* The constants satisfy what both ends assume of theirs.
LEMMA Assumed ==
    CP!WireAssumption /\ CP!ClientAssumption /\ SP!WireAssumption /\ SP!ServerAssumption
    BY ConnectionAssumption, WireAssumption
    DEF CP!WireAssumption, CP!ClientAssumption, SP!WireAssumption, SP!ServerAssumption

LEMMA SameWire ==
    /\ CP!Unit = SP!Unit
    /\ \A b : CP!BodyUnit(b) = SP!BodyUnit(b)
    BY DEF CP!Unit, SP!Unit, CP!BodyUnit, SP!BodyUnit

\* What the client does to the connection is what the server expects of one:
\* a call that is being sent has not been sent before.
LEMMA ClientSendsOnce ==
    ASSUME CP!IInv, CP!Client, UNCHANGED serverVars
    PROVE  SP!ClientMoves
<1>1. UNCHANGED <<s2c, sEnd>> /\ (cEnd => cEnd')
      BY Assumed, CP!WhoSends
<1>2. cEnd' \in BOOLEAN /\ sEnd \in BOOLEAN
      BY Assumed, CP!ClientStep DEF CP!IInv, CP!Accounted, CP!TypeOK
<1>3. UNCHANGED <<SP!loopVars, SP!handVars, SP!sendVars>>
      BY DEF serverVars, SP!loopVars, SP!handVars, SP!sendVars
<1>4. CASE UNCHANGED c2s
      BY <1>1, <1>2, <1>3, <1>4 DEF SP!ClientMoves
<1>5. ASSUME NEW c \in Calls, CP!WriteBody(c), ~UNCHANGED c2s PROVE SP!ClientMoves
  <2>1. c \notin SP!Sent
    <3> SUFFICES ASSUME NEW i \in DOMAIN c2s, c2s[i].call = c PROVE FALSE
        BY DEF SP!Sent
    <3>1. /\ c2s \in Seq(CP!Unit) /\ seqOf[c] \in Nat /\ pc[c] = "body"
          BY <1>5 DEF CP!IInv, CP!Accounted, CP!TypeOK, CP!WriteBody
    <3>2. ASSUME NEW j \in DOMAIN c2s, c2s[j].kind = "header", c2s[j].call = c PROVE FALSE
          BY <3>1, <3>2 DEF CP!IInv, CP!Labels
    <3>3. CASE c2s[i].kind # "body"
      <4>1. c2s[i] \in CP!Unit
            BY <3>1
      <4>2. c2s[i].kind = "header"
            BY <3>3, <4>1 DEF CP!Unit
      <4> QED BY <3>2, <4>2
    <3>4. CASE c2s[i].kind = "body"
      <4>1. i > 1 /\ c2s[i - 1].kind = "header" /\ c2s[i - 1].call = c
            BY <3>4 DEF CP!IInv, CP!RequestFrames
      <4>2. i - 1 \in DOMAIN c2s
            BY <3>1, <4>1
      <4> QED BY <3>2, <4>1, <4>2
    <3> QED BY <3>3, <3>4
  <2>2. /\ wbuf[1] \in SP!Unit /\ wbuf[1].call = c
        /\ c2s' = c2s \o <<wbuf[1], SP!BodyUnit(c)>> \/ c2s' = Append(c2s, wbuf[1])
        BY <1>5, SameWire, Assumed, CP!Written
  <2> QED BY <1>1, <1>2, <1>3, <2>1, <2>2, Zenon DEF SP!ClientMoves
<1> QED BY <1>4, <1>5, Assumed, CP!WhoSends

\* What the server does to the connection is what the client expects of a peer:
\* whole responses, under the numbers of their calls, and with the call's own
\* result when there is no error.
LEMMA ServerAnswersOwn ==
    ASSUME CP!IInv, SP!IInv, SP!Earned, SameNumber, SP!Server, UNCHANGED clientVars
    PROVE  CP!PeerMoves
<1>1. UNCHANGED <<c2s, cEnd>> /\ (sEnd => sEnd')
      BY Assumed, SP!ServerLeaves
<1>2. cEnd \in BOOLEAN /\ sEnd' \in BOOLEAN
      BY Assumed, SP!ServerStep DEF SP!IInv, SP!TypeOK
<1>3. UNCHANGED <<CP!callVars, CP!tableVars, CP!doneVars, CP!bufVars, CP!rcvVars>>
      BY DEF clientVars, CP!callVars, CP!tableVars, CP!doneVars, CP!bufVars, CP!rcvVars
<1>4. CASE UNCHANGED s2c
      BY <1>1, <1>2, <1>3, <1>4 DEF CP!PeerMoves
<1>5. ASSUME NEW c \in Calls, SP!WriteBody(c), ~UNCHANGED s2c PROVE CP!PeerMoves
  <2>1. hst[c] = "body"
        BY <1>5 DEF SP!WriteBody
  <2>2. /\ sbuf[1] \in CP!Unit /\ sbuf[1].kind = "header" /\ sbuf[1].call = c
        /\ sbuf[1].failed = herr[c] /\ sbuf[1].seq = seqOf[c]
        /\ outbox[c][1] \in {c, NoCall} /\ ~sEnd
        /\ \/ s2c' = s2c \o <<sbuf[1], CP!BodyUnit(outbox[c][1])>>
           \/ s2c' = Append(s2c, sbuf[1]) /\ sEnd'
        BY <1>5, <2>1, SameWire, Assumed, SP!Written DEF SameNumber, SP!IsHeader
  <2>3. seqOf[c] # 0
    <3>1. \E i \in DOMAIN c2s : SP!IsHeader(c2s, i, c)
          BY <2>1 DEF SP!IInv, SP!Current
    <3> QED BY <3>1 DEF CP!IInv, CP!Labels, SP!IsHeader
  <2>4. sbuf[1].failed \/ outbox[c][1] = c
    <3>1. ~herr[c] => outbox[c] = <<c>>
          BY <2>1 DEF SP!Earned, SP!Responding
    <3>2. <<c>>[1] = c
          OBVIOUS
    <3> QED BY <2>2, <3>1, <3>2, Zenon
  <2>5. outbox[c][1] \in Calls \cup {NoCall}
        BY <2>2
  <2> QED BY <1>1, <1>2, <1>3, <2>2, <2>3, <2>4, <2>5, Zenon DEF CP!PeerMoves
<1> QED BY <1>4, <1>5 DEF SP!Server, SP!Serve, SP!Handle, SP!Respond, SP!ReadOption,
        SP!ReadRequestHeader, SP!RejectRequest, SP!AcceptRequest, SP!LeaveLoop, SP!CloseConn,
        SP!ServiceReturns, SP!Called, SP!TimeOut, SP!LockSending, SP!WriteHeader, SP!wireVars,
        SP!loopVars, SP!handVars, SP!sendVars

-----------------------------------------------------------------------------
(* The steps of the client.                                                *)

LEMMA ClientStepInv ==
    ASSUME IInv, CP!Client, UNCHANGED serverVars
    PROVE  IInv'
<1>t. /\ CP!IInv /\ SP!IInv /\ CP!IInv' /\ CP!Accounted /\ CP!Progress
      /\ UNCHANGED <<hst, inner, ran, herr, outbox, sbuf>>
      BY Assumed, CP!ClientStep DEF IInv, CP!IInv, serverVars
<1>1. SP!IInv'
      BY <1>t, Assumed, ClientSendsOnce, SP!ClientStep
<1>2. SP!Earned'
      BY <1>t DEF IInv, SP!Earned
<1>3. SameNumber'
  <2> SUFFICES ASSUME NEW c \in Calls, hst[c] = "body" PROVE sbuf[1].seq = seqOf'[c]
      BY <1>t DEF SameNumber
  <2>1. \E i \in DOMAIN c2s : SP!IsHeader(c2s, i, c)
        BY <1>t DEF SP!IInv, SP!Current
  <2>2. ~CP!Register(c)
    <3>1. pc[c] # "register"
          BY <1>t, <2>1, Assumed, CP!Unregistered DEF SP!IsHeader
    <3> QED BY <3>1 DEF CP!Register
  <2>3. seqOf'[c] = seqOf[c]
        BY <1>t, <2>2, Assumed, CP!OwnStep
  <2> QED BY <2>3 DEF IInv, SameNumber
<1>4. Truthful'
  <2>1. UNCHANGED s2c
        BY Assumed, CP!WhoSends
  <2>2. ASSUME NEW c \in Calls, reply'[c] = c PROVE ran[c] = "ok"
        BY <1>t, <2>2, Assumed, CP!WhoReplies DEF IInv, Truthful
  <2> QED BY <1>t, <2>1, <2>2 DEF IInv, Truthful
<1>5. FailedForGood'
  <2> SUFFICES ASSUME NEW c \in Calls \ SyncCalls, result'[c] \notin {"none", "ok"}
               PROVE  err'[c] # "none"
      BY DEF FailedForGood
  <2>1. CASE UNCHANGED result[c]
    <3>1. err[c] # "none"
          BY <2>1 DEF IInv, FailedForGood
    <3> QED BY <1>t, <3>1, Assumed, CP!WhoErrs
  <2>2. CASE CP!Take(c)
        BY <1>t, <2>2 DEF CP!Take, CP!Accounted, CP!TypeOK
  <2>3. CASE CP!Cancel(c)
        BY <1>t, <2>3 DEF CP!Cancel, CP!Progress
  <2> QED BY <1>t, <2>1, <2>2, <2>3, Assumed, CP!OwnStep
<1> QED BY <1>t, <1>1, <1>2, <1>3, <1>4, <1>5 DEF IInv

-----------------------------------------------------------------------------
(* The steps of the server.                                                *)

\* The header of a response is made from the header of the request.
LEMMA HeaderSeq ==
    ASSUME IInv, NEW c \in Calls, hst[c] # "none"
    PROVE  SP!HeaderNow(c).seq = seqOf[c]
<1> DEFINE Seqs == {c2s[i].seq : i \in {j \in DOMAIN c2s : c2s[j].kind = "header" /\ c2s[j].call = c}}
<1>1. \A i \in DOMAIN c2s : SP!IsHeader(c2s, i, c) => c2s[i].seq = seqOf[c]
      BY DEF IInv, CP!IInv, CP!Labels, SP!IsHeader
<1>2. \E i \in DOMAIN c2s : SP!IsHeader(c2s, i, c)
      BY DEF IInv, SP!IInv, SP!Current
<1>3. Seqs = {seqOf[c]}
      BY <1>1, <1>2 DEF SP!IsHeader
<1>4. (CHOOSE s \in Seqs : TRUE) = seqOf[c]
      BY <1>3
<1>5. SP!HeaderNow(c) = SP!HeaderUnit(CHOOSE s \in Seqs : TRUE, c, herr[c])
      BY DEF SP!HeaderNow
<1> QED BY <1>4, <1>5 DEF SP!HeaderUnit

LEMMA ServerStepInv ==
    ASSUME IInv, SP!Server, UNCHANGED clientVars
    PROVE  IInv'
<1>t. /\ CP!IInv /\ SP!IInv /\ SP!IInv' /\ SP!TypeOK /\ SP!Mutex
      /\ UNCHANGED <<seqOf, reply, result, err>>
      BY Assumed, SP!ServerStep DEF IInv, SP!IInv, clientVars
<1>1. CP!IInv'
      BY Assumed, ServerAnswersOwn, CP!PeerStep DEF IInv
<1>2. SP!Earned'
      BY Assumed, SP!ServerEarned DEF IInv
<1>3. SameNumber'
  <2> SUFFICES ASSUME NEW c \in Calls, hst'[c] = "body" PROVE sbuf'[1].seq = seqOf[c]
      BY <1>t DEF SameNumber
  <2>1. CASE SP!WriteHeader(c)
    <3>1. hst[c] = "header" /\ sending = c
          BY <1>t, <2>1 DEF SP!WriteHeader, SP!Mutex
    <3>2. sbuf = <<>>
          BY <1>t, <3>1 DEF SP!Mutex
    <3>3. sbuf' = Append(sbuf, SP!HeaderNow(c))
      <4>1. ~(SP!Answered(c) /\ hst'[c] = "body")
            BY <1>t DEF SP!Answered, SP!TypeOK
      <4> QED BY <2>1, <4>1 DEF SP!WriteHeader
    <3>4. sbuf'[1] = SP!HeaderNow(c)
          BY <3>2, <3>3
    <3> QED BY <3>1, <3>4, HeaderSeq
  <2>2. CASE ~SP!WriteHeader(c)
    <3>1. hst[c] = "body" /\ UNCHANGED sbuf
      <4>1. CASE UNCHANGED <<hst, sbuf>>
            BY <4>1
      <4>2. CASE SP!RejectRequest \/ SP!AcceptRequest
            BY <1>t, <4>2 DEF SP!RejectRequest, SP!AcceptRequest, SP!TypeOK, SP!sendVars
      <4>3. ASSUME NEW d \in Calls, SP!Called(d) \/ SP!TimeOut(d) \/ SP!LockSending(d)
            PROVE  hst[c] = "body" /\ UNCHANGED sbuf
            BY <1>t, <4>3 DEF SP!Called, SP!TimeOut, SP!LockSending, SP!TypeOK, SP!sendVars
      <4>4. ASSUME NEW d \in Calls, SP!Answered(d), hst[d] \in {"header", "body"} PROVE FALSE
        <5>1. (sending = d /\ hst'[c] = hst[c]) \/ d = c
              BY <1>t, <4>4 DEF SP!Answered, SP!TypeOK, SP!Mutex
        <5>2. hst'[d] # "body"
              BY <1>t, <4>4 DEF SP!Answered, SP!TypeOK
        <5>3. c # d /\ hst[c] = "body"
              BY <5>1, <5>2
        <5> QED BY <1>t, <4>4, <5>3 DEF SP!Mutex
      <4>5. ASSUME NEW d \in Calls, SP!WriteHeader(d) PROVE FALSE
        <5>1. c # d /\ hst[d] = "header" /\ sending = d
              BY <1>t, <2>2, <4>5 DEF SP!WriteHeader, SP!Mutex
        <5>2. hst[c] = "body"
              BY <1>t, <4>4, <4>5, <5>1 DEF SP!WriteHeader, SP!TypeOK
        <5> QED BY <1>t, <5>1, <5>2 DEF SP!Mutex
      <4>6. ASSUME NEW d \in Calls, SP!WriteBody(d) PROVE FALSE
            BY <4>4, <4>6 DEF SP!WriteBody
      <4> QED BY <4>1, <4>2, <4>3, <4>5, <4>6 DEF SP!Server, SP!Serve, SP!Handle, SP!Respond,
              SP!ReadOption, SP!ReadRequestHeader, SP!LeaveLoop, SP!CloseConn, SP!ServiceReturns,
              SP!loopVars, SP!handVars, SP!sendVars
    <3> QED BY <3>1 DEF IInv, SameNumber
  <2> QED BY <2>1, <2>2
<1>4. Truthful'
  <2>1. \A d \in Calls : ran[d] = "ok" => ran'[d] = "ok"
        BY <1>t, Assumed, SP!Settled
  <2>2. \A c \in Calls : reply'[c] = c => ran'[c] = "ok"
        BY <1>t, <2>1 DEF IInv, Truthful
  <2>3. CASE UNCHANGED s2c
        BY <1>t, <2>1, <2>2, <2>3 DEF IInv, CP!IInv, CP!Pairs, Truthful
  <2>4. ASSUME NEW c \in Calls, SP!WriteBody(c), ~UNCHANGED s2c PROVE Truthful'
    <3>1. /\ s2c' \in Seq(SP!Unit) /\ s2c \in Seq(SP!Unit)
          /\ \A i \in DOMAIN s2c : s2c'[i] = s2c[i]
          /\ SP!IsHeader(s2c', Len(s2c) + 1, c)
          /\ s2c'[Len(s2c) + 1].failed = herr[c]
          /\ \/ Len(s2c') = Len(s2c) + 1
             \/ /\ Len(s2c') = Len(s2c) + 2
                /\ s2c'[Len(s2c) + 2] = SP!BodyUnit(outbox[c][1])
          BY <1>t, <2>4, Assumed, SP!ResponsesGrow DEF SP!TypeOK
    <3>2. ~herr[c] => ran[c] = "ok"
          BY <2>4 DEF IInv, SP!Earned, SP!Responding, SP!WriteBody
    <3>3. SP!BodyUnit(outbox[c][1]).kind = "body"
          BY DEF SP!BodyUnit
    <3>4. ASSUME NEW i \in DOMAIN s2c', s2c'[i].kind = "header", ~s2c'[i].failed
          PROVE  ran'[s2c'[i].call] = "ok"
      <4>1. CASE i \in DOMAIN s2c
        <5>1. s2c'[i] = s2c[i] /\ s2c[i].call \in Calls
              BY <1>t, <3>1, <3>4, <4>1 DEF CP!IInv, CP!Pairs
        <5> QED BY <2>1, <3>4, <4>1, <5>1 DEF IInv, Truthful
      <4>2. CASE i = Len(s2c) + 1
            BY <2>1, <3>1, <3>2, <3>4, <4>2 DEF SP!IsHeader
      <4>3. i \in DOMAIN s2c \/ i = Len(s2c) + 1 \/ (i = Len(s2c) + 2 /\ Len(s2c') = Len(s2c) + 2)
            BY <3>1
      <4> QED BY <3>1, <3>3, <3>4, <4>1, <4>2, <4>3
    <3> QED BY <2>2, <3>4 DEF Truthful
  <2> QED BY <2>3, <2>4 DEF SP!Server, SP!Serve, SP!Handle, SP!Respond, SP!ReadOption,
          SP!ReadRequestHeader, SP!RejectRequest, SP!AcceptRequest, SP!LeaveLoop, SP!CloseConn,
          SP!ServiceReturns, SP!Called, SP!TimeOut, SP!LockSending, SP!WriteHeader, SP!wireVars,
          SP!loopVars, SP!handVars, SP!sendVars
<1>5. FailedForGood'
      BY <1>t DEF IInv, FailedForGood
<1> QED BY <1>t, <1>1, <1>2, <1>3, <1>4, <1>5 DEF IInv

-----------------------------------------------------------------------------
(* The invariant holds.                                                    *)

LEMMA InvInit == Init => IInv
<1> SUFFICES ASSUME Init PROVE IInv
    OBVIOUS
<1>1. CP!Init /\ SP!Init
  <2>1. C!Init => CP!Init
        BY DEF C!Init, CP!Init, C!HeaderUnit, CP!HeaderUnit
  <2>2. S!Init => SP!Init
        BY DEF S!Init, SP!Init, S!HeaderUnit, SP!HeaderUnit
  <2> QED BY <2>1, <2>2 DEF Init
<1>2. CP!IInv /\ SP!IInv
      BY <1>1, Assumed, CP!InvInit, SP!InvInit
<1>3. SP!Earned /\ SameNumber
      BY <1>1 DEF SP!Init, SP!Earned, SP!Responding, SameNumber
<1>4. Truthful /\ FailedForGood
  <2>1. DOMAIN s2c = {} /\ \A c \in Calls : reply[c] = NoCall /\ result[c] = "none"
        BY <1>1 DEF CP!Init
  <2> QED BY <2>1, WireAssumption DEF Truthful, FailedForGood
<1> QED BY <1>2, <1>3, <1>4 DEF IInv

\* Closing an end changes nothing else.
LEMMA DropInv ==
    ASSUME IInv, UNCHANGED <<clientVars, serverVars, c2s, s2c>>,
           cEnd' \in BOOLEAN, sEnd' \in BOOLEAN, cEnd => cEnd', sEnd => sEnd',
           sEnd' => sEnd \/ cEnd'
    PROVE  IInv'
<1>1. CP!PeerMoves
      BY DEF clientVars, CP!PeerMoves, CP!callVars, CP!tableVars, CP!doneVars, CP!bufVars, CP!rcvVars
<1>2. SP!ClientMoves
      BY DEF serverVars, SP!ClientMoves, SP!loopVars, SP!handVars, SP!sendVars
<1>3. CP!IInv' /\ SP!IInv'
      BY <1>1, <1>2, Assumed, CP!PeerStep, SP!ClientStep DEF IInv
<1>4. UNCHANGED <<seqOf, err, reply, result, hst, inner, ran, herr, outbox, sbuf, s2c>>
      BY DEF clientVars, serverVars
<1> QED BY <1>3, <1>4 DEF IInv, SP!Earned, SameNumber, Truthful, FailedForGood

LEMMA InvStep == IInv /\ [Next]_vars => IInv'
<1> SUFFICES ASSUME IInv, [Next]_vars PROVE IInv'
    OBVIOUS
<1>1. cEnd \in BOOLEAN /\ sEnd \in BOOLEAN
      BY DEF IInv, SP!IInv, SP!TypeOK
<1>2. CASE ClientStep
      BY <1>2, ClientSteps, ClientStepInv DEF ClientStep
<1>3. CASE ServerStep
      BY <1>3, ServerSteps, ServerStepInv DEF ServerStep
<1>4. CASE Drop
  <2>1. cEnd' = TRUE /\ sEnd' = TRUE /\ UNCHANGED <<clientVars, serverVars, c2s, s2c>>
        BY <1>4 DEF Drop
  <2> QED BY <2>1, DropInv
<1>5. CASE UNCHANGED vars
  <2>1. UNCHANGED <<clientVars, serverVars, c2s, s2c>> /\ cEnd' = cEnd /\ sEnd' = sEnd
        BY <1>5 DEF vars
  <2> QED BY <1>1, <2>1, DropInv
<1> QED BY <1>2, <1>3, <1>4, <1>5 DEF Next

LEMMA Invariance == Spec => []IInv
    BY InvInit, InvStep, PTL DEF Spec

-----------------------------------------------------------------------------
(* What follows.                                                           *)

\* Both ends keep their types when each is the other's environment.
THEOREM TypeCorrect == Spec => [](C!TypeOK /\ S!TypeOK)
<1>1. CP!TypeOK => C!TypeOK
      BY DEF C!TypeOK, CP!TypeOK, C!PcStates, CP!PcStates, C!Sending, CP!Sending,
         C!RcvStates, CP!RcvStates, C!ErrStates, CP!ErrStates, C!Unit, CP!Unit
<1>2. SP!TypeOK => S!TypeOK
      BY DEF S!TypeOK, SP!TypeOK, S!Unit, SP!Unit
<1>3. IInv => C!TypeOK /\ S!TypeOK
      BY <1>1, <1>2 DEF IInv, CP!IInv, CP!Accounted, SP!IInv
<1> QED BY <1>3, Invariance, PTL

\* Both ends always agree on the call a sequence number stands for.
THEOREM Agreement == Spec => []SeqAgreement
<1>1. IInv => SeqAgreement
  <2> SUFFICES ASSUME IInv PROVE SeqAgreement
      OBVIOUS
  <2>t. /\ CP!Numbered /\ CP!PendingByNumber /\ CP!Labels /\ CP!Pairs
        /\ DOMAIN pending \subseteq 1 .. (seq - 1) /\ seq \in Nat
        /\ \A s \in DOMAIN pending : pending[s] \in Calls
        BY DEF IInv, CP!IInv, CP!Accounted, CP!TypeOK
  <2>1. ASSUME NEW s \in DOMAIN pending, NEW i \in DOMAIN c2s,
               c2s[i].kind = "header", c2s[i].seq = s
        PROVE  c2s[i].call = pending[s]
    <3>1. /\ c2s[i].call \in Calls /\ seqOf[c2s[i].call] = s /\ seqOf[c2s[i].call] # 0
          BY <2>t, <2>1 DEF CP!Labels
    <3>2. pending[s] \in Calls /\ seqOf[pending[s]] = s
          BY <2>t DEF CP!PendingByNumber
    <3> QED BY <2>t, <3>1, <3>2 DEF CP!Numbered
  <2>2. ASSUME NEW i \in DOMAIN s2c, s2c[i].kind = "header"
        PROVE  seqOf[s2c[i].call] = s2c[i].seq
        BY <2>t, <2>2 DEF CP!Pairs
  <2> QED BY <2>1, <2>2 DEF SeqAgreement
<1> QED BY <1>1, Invariance, PTL

-----------------------------------------------------------------------------
(* The connection implements RpcCalls.                                     *)

LEMMA PromiseInit == Init => Abstract!Init
    BY DEF Init, C!Init, S!Init, Abstract!Init, Exec, Outcome

\* What the client does, its user sees as nothing, a success or a failure.
LEMMA ClientPromise ==
    ASSUME IInv, IInv', CP!Client, UNCHANGED serverVars
    PROVE  Abstract!Next \/ UNCHANGED Abstract!vars
<1>t. /\ CP!IInv /\ CP!IInv' /\ CP!Accounted /\ CP!Progress /\ CP!Replies /\ CP!Replies'
      /\ Truthful /\ FailedForGood /\ SP!Handlers
      /\ result \in [Calls -> CP!ErrStates \cup {"ok", "timeout"}]
      /\ SP!StartedOnce /\ UNCHANGED <<inner, ran, starts>>
      BY DEF IInv, CP!IInv, CP!Accounted, CP!TypeOK, SP!IInv, serverVars
<1>1. UNCHANGED Exec
      BY <1>t DEF Exec
<1>2. CASE UNCHANGED result
      BY <1>1, <1>2 DEF Outcome, Abstract!vars
<1>3. ASSUME NEW c \in Calls, result' = [result EXCEPT ![c] = result'[c]], result[c] = "none"
      PROVE  Outcome' = [Outcome EXCEPT ![c] = IF result'[c] \in {"none", "ok"} THEN result'[c]
                                               ELSE "failed"]
             /\ Outcome[c] = "none"
      BY <1>t, <1>3 DEF Outcome
<1>4. ASSUME NEW c \in Calls, CP!Take(c) PROVE Abstract!Next \/ UNCHANGED Abstract!vars
  <2>1. /\ result' = [result EXCEPT ![c] = result'[c]]
        /\ result'[c] = IF err[c] = "none" THEN "ok" ELSE err[c]
        /\ UNCHANGED <<err, reply>>
        BY <1>t, <1>4 DEF CP!Take
  <2>2. result'[c] # "none"
        BY <2>1
  <2>3. CASE result[c] = "none" /\ err[c] = "none"
    <3>1. reply'[c] = c
          BY <1>t, <2>1, <2>3 DEF CP!Replies
    <3>2. ran[c] = "ok" /\ inner[c] # "none"
          BY <1>t, <2>1, <3>1 DEF Truthful, SP!Handlers
    <3>3. Exec[c] = "ok"
          BY <1>t, <3>2 DEF Exec, SP!StartedOnce
    <3>4. Outcome' = [Outcome EXCEPT ![c] = "ok"] /\ Outcome[c] = "none"
          BY <1>3, <2>1, <2>3
    <3> QED BY <1>1, <3>3, <3>4 DEF Abstract!Next, Abstract!Succeed
  <2>4. CASE result[c] = "none" /\ err[c] # "none"
    <3>1. result'[c] \notin {"none", "ok"}
      <4>1. err[c] \in CP!ErrStates
            BY <1>t DEF CP!Accounted, CP!TypeOK
      <4> QED BY <2>1, <2>4, <4>1 DEF CP!ErrStates
    <3>2. Outcome' = [Outcome EXCEPT ![c] = "failed"] /\ Outcome[c] = "none"
          BY <1>3, <2>1, <2>4, <3>1
    <3> QED BY <1>1, <3>2 DEF Abstract!Next, Abstract!Fail
  <2>5. CASE result[c] = "ok"
    <3>1. result'[c] = "ok"
          BY <1>t, <2>1, <2>5 DEF CP!Replies
    <3>2. UNCHANGED result
          BY <1>t, <2>1, <2>5, <3>1
    <3> QED BY <1>2, <3>2
  <2>6. CASE result[c] \notin {"none", "ok"}
    <3>1. c \notin SyncCalls
          BY <1>t, <1>4, <2>6 DEF CP!Take, CP!Progress
    <3>2. err[c] # "none"
          BY <1>t, <2>6, <3>1 DEF FailedForGood
    <3>3. result'[c] \notin {"none", "ok"}
      <4>1. err[c] \in CP!ErrStates
            BY <1>t DEF CP!Accounted, CP!TypeOK
      <4> QED BY <2>1, <3>2, <4>1 DEF CP!ErrStates
    <3>4. UNCHANGED Outcome
          BY <1>t, <2>1, <2>6, <3>3 DEF Outcome
    <3> QED BY <1>1, <3>4 DEF Abstract!vars
  <2> QED BY <2>3, <2>4, <2>5, <2>6
<1>5. ASSUME NEW c \in Calls, CP!Cancel(c) PROVE Abstract!Next \/ UNCHANGED Abstract!vars
  <2>1. result' = [result EXCEPT ![c] = "timeout"] /\ pc[c] = "cancel"
        BY <1>5 DEF CP!Cancel
  <2>2. result[c] = "none" /\ result'[c] = "timeout"
        BY <1>t, <2>1 DEF CP!Progress
  <2>3. Outcome' = [Outcome EXCEPT ![c] = "failed"] /\ Outcome[c] = "none"
        BY <1>t, <1>3, <2>1, <2>2
  <2> QED BY <1>1, <2>3 DEF Abstract!Next, Abstract!Fail
<1>6. UNCHANGED result \/ \E c \in Calls : CP!Take(c) \/ CP!Cancel(c)
      BY DEF CP!Client, CP!Send, CP!User, CP!Receive, CP!Invoke, CP!LockHead, CP!Register,
         CP!WriteHeader, CP!WriteBody, CP!Remove, CP!Finish, CP!Expire, CP!Close, CP!ReadHeader,
         CP!LookUp, CP!DiscardBody, CP!ReadErrorBody, CP!ReadReply, CP!CompleteCall,
         CP!TerminateBegin, CP!Notify, CP!TerminateEnd, CP!callVars
<1> QED BY <1>2, <1>4, <1>5, <1>6

\* What the server does is nothing, the start of a service method or its return.
LEMMA ServerPromise ==
    ASSUME IInv, SP!Server, UNCHANGED clientVars
    PROVE  Abstract!Next \/ UNCHANGED Abstract!vars
<1>t. SP!IInv /\ SP!TypeOK /\ SP!Handlers /\ SP!StartedOnce
      BY DEF IInv, SP!IInv
<1>1. UNCHANGED Outcome
      BY DEF Outcome, clientVars
<1>2. CASE UNCHANGED <<ran, starts>>
  <2>1. UNCHANGED Exec
        BY <1>2 DEF Exec
  <2> QED BY <1>1, <2>1 DEF Abstract!vars
<1>3. CASE SP!AcceptRequest
  <2>1. req.call \in Calls /\ inner[req.call] = "none" /\ ran[req.call] = "no"
        BY <1>t, <1>3, Assumed, SP!ReqIsCall, SP!Fresh DEF SP!AcceptRequest
  <2>2. /\ starts[req.call] = 0 /\ starts'[req.call] = 1 /\ UNCHANGED ran
        /\ \A d \in Calls \ {req.call} : starts'[d] = starts[d]
        BY <1>t, <1>3, <2>1 DEF SP!AcceptRequest, SP!StartedOnce, SP!TypeOK
  <2>3. Exec[req.call] = "no" /\ Exec' = [Exec EXCEPT ![req.call] = "running"]
    <3>1. Exec[req.call] = "no" /\ Exec'[req.call] = "running"
          BY <2>1, <2>2 DEF Exec
    <3>2. \A d \in Calls \ {req.call} : Exec'[d] = Exec[d]
          BY <2>2 DEF Exec
    <3>3. Exec' = [d \in Calls |-> Exec'[d]] /\ DOMAIN Exec = Calls
          BY DEF Exec
    <3> HIDE DEF Exec
    <3> QED BY <3>1, <3>2, <3>3
  <2> QED BY <1>1, <2>1, <2>3 DEF Abstract!Next, Abstract!Start
<1>4. ASSUME NEW c \in Calls, SP!ServiceReturns(c) PROVE Abstract!Next
  <2>1. PICK how \in {"ok", "error"} : ran' = [ran EXCEPT ![c] = how]
        BY <1>4 DEF SP!ServiceReturns
  <2>2. starts[c] = 1 /\ ran[c] = "no" /\ UNCHANGED starts
        BY <1>t, <1>4 DEF SP!ServiceReturns, SP!Handlers, SP!StartedOnce
  <2>3. Exec[c] = "running" /\ Exec' = [Exec EXCEPT ![c] = how]
    <3>1. ran'[c] = how /\ \A d \in Calls \ {c} : ran'[d] = ran[d]
          BY <1>t, <2>1 DEF SP!TypeOK
    <3>2. Exec[c] = "running" /\ Exec'[c] = how
          BY <2>2, <3>1 DEF Exec
    <3>3. \A d \in Calls \ {c} : Exec'[d] = Exec[d]
          BY <2>2, <3>1 DEF Exec
    <3>4. Exec' = [d \in Calls |-> Exec'[d]] /\ DOMAIN Exec = Calls
          BY DEF Exec
    <3> HIDE DEF Exec
    <3> QED BY <3>2, <3>3, <3>4
  <2> QED BY <1>1, <2>3 DEF Abstract!Next, Abstract!Return
<1>6. ASSUME NEW c \in Calls, SP!Called(c) \/ SP!TimeOut(c) \/ SP!Respond(c)
      PROVE  UNCHANGED <<ran, starts>>
      BY <1>6 DEF SP!Called, SP!TimeOut, SP!Respond, SP!LockSending, SP!WriteHeader, SP!WriteBody
<1>7. CASE SP!ReadOption \/ SP!ReadRequestHeader \/ SP!RejectRequest \/ SP!LeaveLoop \/ SP!CloseConn
  <2>1. UNCHANGED <<ran, starts>>
        BY <1>7 DEF SP!ReadOption, SP!ReadRequestHeader, SP!RejectRequest, SP!LeaveLoop,
           SP!CloseConn, SP!handVars
  <2> QED BY <1>2, <2>1
<1> QED BY <1>1, <1>2, <1>3, <1>4, <1>6, <1>7
        DEF SP!Server, SP!Serve, SP!Handle, Abstract!vars

LEMMA PromiseStep == IInv /\ IInv' /\ [Next]_vars => [Abstract!Next]_(Abstract!vars)
<1> SUFFICES ASSUME IInv, IInv', [Next]_vars PROVE Abstract!Next \/ UNCHANGED Abstract!vars
    OBVIOUS
<1>1. CASE ClientStep
      BY <1>1, ClientSteps, ClientPromise DEF ClientStep
<1>2. CASE ServerStep
      BY <1>2, ServerSteps, ServerPromise DEF ServerStep
<1>3. CASE Drop \/ UNCHANGED vars
  <2>1. UNCHANGED <<ran, starts, result>>
        BY <1>3 DEF Drop, vars, clientVars, serverVars
  <2> QED BY <2>1 DEF Exec, Outcome, Abstract!vars
<1> QED BY <1>1, <1>2, <1>3 DEF Next

\* A service method is started at most once per call, and a call succeeds only
\* when its own method has returned without error: whatever is read too far,
\* closed, cut off, dropped or timed out on the way.
THEOREM KeepsPromise == Spec => CallsPromise
<1>1. Spec => Abstract!Spec
      BY PromiseInit, PromiseStep, Invariance, PTL DEF Spec, Abstract!Spec
<1> QED BY <1>1 DEF CallsPromise
=============================================================================
