-------------------------- MODULE RpcClientProofs --------------------------
(***************************************************************************)
(* Theorems about RpcClient, for any calls, channels, capacities and       *)
(* faults.  A first invariant, Accounted, keeps track of where every call  *)
(* is, so that none is orphaned.  A second one, IInv, adds who holds       *)
(* headMutex, what the two logs contain and what receive has read, so that *)
(* requests stay framed, receive in step, and replies with their calls.    *)
(***************************************************************************)
EXTENDS RpcClient, SequenceTheorems, TLAPS

-----------------------------------------------------------------------------
(* Sequences used as channels and logs. *)

Contains(s, x) == \E i \in DOMAIN s : s[i] = x

\* Sending to a channel keeps what is in it and adds one element.
LEMMA AppendContains ==
    ASSUME NEW T, NEW s \in Seq(T), NEW x \in T, NEW y
    PROVE  /\ Append(s, x) \in Seq(T)
           /\ Len(Append(s, x)) = Len(s) + 1
           /\ Contains(Append(s, x), y) <=> (Contains(s, y) \/ y = x)
<1>1. /\ Append(s, x) \in Seq(T) /\ Len(Append(s, x)) = Len(s) + 1
      /\ \A i \in 1 .. Len(s) : Append(s, x)[i] = s[i]
      /\ Append(s, x)[Len(s) + 1] = x
      OBVIOUS
<1>2. DOMAIN s = 1 .. Len(s) /\ DOMAIN Append(s, x) = 1 .. (Len(s) + 1)
      BY <1>1
<1>3. Len(s) \in Nat
      OBVIOUS
<1>4. ASSUME Contains(s, y) PROVE Contains(Append(s, x), y)
      BY <1>1, <1>2, <1>3, <1>4 DEF Contains
<1>5. Contains(Append(s, x), x)
      BY <1>1, <1>2, <1>3 DEF Contains
<1>6. ASSUME Contains(Append(s, x), y), y # x PROVE Contains(s, y)
      BY <1>1, <1>2, <1>3, <1>6 DEF Contains
<1> QED BY <1>1, <1>4, <1>5, <1>6

\* Receiving from a channel only takes its first element out.
LEMMA TailContains ==
    ASSUME NEW T, NEW s \in Seq(T), s # <<>>, NEW y
    PROVE  /\ Tail(s) \in Seq(T)
           /\ Contains(s, y) /\ y # Head(s) => Contains(Tail(s), y)
<1>1. Tail(s) \in Seq(T) /\ Len(s) \in Nat \ {0} /\ Head(s) = s[1]
      /\ Len(Tail(s)) = Len(s) - 1
      /\ \A i \in 1 .. (Len(s) - 1) : Tail(s)[i] = s[i + 1]
      BY EmptySeq, HeadTailProperties
<1>2. ASSUME Contains(s, y), y # Head(s) PROVE Contains(Tail(s), y)
  <2>1. PICK i \in 1 .. Len(s) : s[i] = y
        BY <1>2 DEF Contains
  <2>2. i # 1 /\ i - 1 \in 1 .. (Len(s) - 1)
        BY <1>1, <1>2, <2>1
  <2>3. Tail(s)[i - 1] = y
        BY <1>1, <2>1, <2>2
  <2>4. DOMAIN Tail(s) = 1 .. (Len(s) - 1)
        BY <1>1
  <2> QED BY <2>2, <2>3, <2>4 DEF Contains
<1> QED BY <1>1, <1>2

\* What is flushed is appended to the log of its direction.
LEMMA AppendLog ==
    ASSUME NEW T, NEW s \in Seq(T), NEW x \in T
    PROVE  Append(s, x) \in Seq(T) /\ Len(Append(s, x)) = Len(s) + 1
    OBVIOUS

LEMMA ConcatLog ==
    ASSUME NEW T, NEW s \in Seq(T), NEW t \in Seq(T)
    PROVE  s \o t \in Seq(T) /\ Len(s \o t) = Len(s) + Len(t)
    BY ConcatProperties

LEMMA OneMore ==
    ASSUME NEW T, NEW s \in Seq(T), NEW x \in T
    PROVE  /\ Append(s, x) \in Seq(T) /\ s \o <<x>> = Append(s, x)
           /\ Len(Append(s, x)) = Len(s) + 1
           /\ \A i \in DOMAIN s : Append(s, x)[i] = s[i]
           /\ Append(s, x)[Len(s) + 1] = x
    OBVIOUS

LEMMA TwoMore ==
    ASSUME NEW T, NEW s \in Seq(T), NEW x \in T, NEW y \in T
    PROVE  /\ s \o <<x, y>> \in Seq(T)
           /\ Len(s \o <<x, y>>) = Len(s) + 2
           /\ \A i \in DOMAIN s : (s \o <<x, y>>)[i] = s[i]
           /\ (s \o <<x, y>>)[Len(s) + 1] = x
           /\ (s \o <<x, y>>)[Len(s) + 2] = y
    OBVIOUS

LEMMA OneElement ==
    ASSUME NEW T, NEW s \in Seq(T), Len(s) = 1
    PROVE  s = <<s[1]>> /\ s[1] \in T
    BY SeqEqual

LEMMA AppendToOne ==
    ASSUME NEW T, NEW x \in T, NEW y \in T
    PROVE  Append(<<x>>, y) = <<x, y>>
<1>1. <<x, y>> \in Seq(T) /\ Append(<<x>>, y) \in Seq(T) /\ Len(<<x, y>>) = Len(Append(<<x>>, y))
      OBVIOUS
<1>2. \A i \in 1 .. 2 : <<x, y>>[i] = Append(<<x>>, y)[i]
      OBVIOUS
<1> QED BY <1>1, <1>2, SeqEqual

LEMMA UnitTypes ==
    ASSUME NEW n \in Nat, NEW c \in Calls \cup {NoCall}, NEW f \in BOOLEAN
    PROVE  HeaderUnit(n, c, f) \in Unit /\ BodyUnit(c) \in Unit
    BY DEF HeaderUnit, BodyUnit, Unit

LEMMA LogUnits ==
    ASSUME NEW log \in Seq(Unit), NEW i \in DOMAIN log
    PROVE  log[i] \in Unit /\ log[i].seq \in Nat /\ log[i].call \in Calls \cup {NoCall}
<1>1. log[i] \in Unit
      OBVIOUS
<1> QED BY <1>1 DEF Unit

-----------------------------------------------------------------------------
(* Types. *)

LEMMA TypeInit == Init => TypeOK
<1> SUFFICES ASSUME Init PROVE TypeOK
    OBVIOUS
<1>1. HeaderUnit(0, NoCall, FALSE) \in Unit
      BY UnitTypes
<1>2. \A T : <<>> \in Seq(T) /\ Len(<<>>) = 0
      OBVIOUS
<1>3. DOMAIN pending = {}
      BY DEF Init
<1>4. doneCh \in [Chans -> Seq(Calls)]
      BY <1>2 DEF Init
<1>5. s2c \in Seq(Unit) /\ c2s \in Seq(Unit) /\ wbuf \in Seq(Unit) /\ rpos \in 0 .. Len(s2c)
      BY <1>2 DEF Init
<1>6. /\ pc \in [Calls -> PcStates] /\ err \in [Calls -> ErrStates]
      /\ seqOf \in [Calls -> Nat] /\ reply \in [Calls -> Calls \cup {NoCall}]
      /\ result \in [Calls -> ErrStates \cup {"ok", "timeout"}]
      BY DEF Init, PcStates, ErrStates
<1>7. /\ rcv \in RcvStates /\ rcv # "done" /\ rhead \in Unit /\ todo = {}
      /\ rcall = NoCall /\ headMutex = NoCall /\ seq = 1
      BY <1>1 DEF Init, RcvStates
<1>8. /\ closing \in BOOLEAN /\ shutdown \in BOOLEAN /\ bufErr \in BOOLEAN
      /\ cEnd \in BOOLEAN /\ sEnd \in BOOLEAN /\ rerr \in BOOLEAN
      BY DEF Init
<1>9. /\ DOMAIN pending \subseteq 1 .. (seq - 1)
      /\ \A s \in DOMAIN pending : pending[s] \in Calls
      BY <1>3
<1>10. /\ headMutex \in Calls \cup {NoCall} /\ seq \in Nat \ {0}
       /\ rcall \in Calls \cup {NoCall} /\ todo \in SUBSET Calls
      BY <1>7
<1> QED BY <1>4, <1>5, <1>6, <1>7, <1>8, <1>9, <1>10 DEF TypeOK

\* The map pending stays a finite function from numbers already given out.
LEMMA PutType ==
    ASSUME TypeOK, NEW c \in Calls
    PROVE  /\ DOMAIN Put(seq, c) = DOMAIN pending \cup {seq}
           /\ Put(seq, c)[seq] = c
           /\ \A t \in DOMAIN pending : Put(seq, c)[t] = pending[t] /\ t # seq
           /\ \A t \in DOMAIN Put(seq, c) : Put(seq, c)[t] \in Calls
    BY DEF TypeOK, Put

LEMMA DeleteType ==
    ASSUME TypeOK, NEW s
    PROVE  /\ DOMAIN Delete(s) = DOMAIN pending \ {s}
           /\ \A t \in DOMAIN Delete(s) : Delete(s)[t] = pending[t]
           /\ LookedUp(s) \in Calls \cup {NoCall}
    BY DEF TypeOK, Delete, LookedUp

LEMMA SendDoneType ==
    ASSUME TypeOK, NEW c \in Calls, SendDone(c)
    PROVE  /\ doneCh' \in [Chans -> Seq(Calls)]
           /\ \A d \in Calls : InDone(d)' <=> InDone(d) \/ d = c
<1>1. DoneOf \in [Calls -> Chans] /\ doneCh \in [Chans -> Seq(Calls)]
      BY ClientAssumption DEF TypeOK
<1>2. doneCh' = [doneCh EXCEPT ![DoneOf[c]] = Append(doneCh[DoneOf[c]], c)]
      BY DEF SendDone
<1>3. doneCh' \in [Chans -> Seq(Calls)]
      BY <1>1, <1>2, AppendContains
<1>4. ASSUME NEW d \in Calls PROVE InDone(d)' <=> InDone(d) \/ d = c
  <2>1. InDone(d) <=> Contains(doneCh[DoneOf[d]], d)
        BY DEF InDone, Contains
  <2>2. InDone(d)' <=> Contains(doneCh'[DoneOf[d]], d)
        BY DEF InDone, Contains
  <2>3. CASE DoneOf[d] = DoneOf[c]
    <3>1. doneCh'[DoneOf[d]] = Append(doneCh[DoneOf[c]], c)
          BY <1>1, <1>2, <2>3
    <3>2. Contains(Append(doneCh[DoneOf[c]], c), d)
             <=> Contains(doneCh[DoneOf[c]], d) \/ d = c
          BY <1>1, AppendContains
    <3> QED BY <2>1, <2>2, <2>3, <3>1, <3>2
  <2>4. CASE DoneOf[d] # DoneOf[c]
    <3>1. doneCh'[DoneOf[d]] = doneCh[DoneOf[d]] /\ d # c
          BY <1>1, <1>2, <2>4
    <3> QED BY <2>1, <2>2, <3>1
  <2> QED BY <2>3, <2>4
<1> QED BY <1>3, <1>4

\* Every action of the client keeps the types.
LEMMA ClientTypes ==
    ASSUME TypeOK, Client
    PROVE  TypeOK'
<1> USE DEF PcStates, Sending, RcvStates, ErrStates
<1>2. ASSUME NEW c \in Calls, Invoke(c) PROVE TypeOK'
      BY <1>2 DEF Invoke, TypeOK, tableVars, doneVars, bufVars, rcvVars, wireVars
<1>3. ASSUME NEW c \in Calls, LockHead(c) PROVE TypeOK'
      BY <1>3 DEF LockHead, TypeOK, tableVars, doneVars, bufVars, rcvVars, wireVars
<1>4. ASSUME NEW c \in Calls, Register(c) PROVE TypeOK'
  <2>1. /\ DOMAIN pending' \subseteq 1 .. (seq' - 1)
        /\ \A s \in DOMAIN pending' : pending'[s] \in Calls
        /\ seq' \in Nat \ {0}
    <3>1. CASE pending' = pending /\ seq' = seq
          BY <3>1 DEF TypeOK
    <3>2. CASE pending' = Put(seq, c) /\ seq' = seq + 1
      <4>1. /\ DOMAIN Put(seq, c) = DOMAIN pending \cup {seq} /\ seq \in Nat \ {0}
            /\ \A t \in DOMAIN Put(seq, c) : Put(seq, c)[t] \in Calls
            /\ DOMAIN pending \subseteq 1 .. (seq - 1)
            BY PutType DEF TypeOK
      <4>2. DOMAIN Put(seq, c) \subseteq 1 .. seq
            BY <4>1
      <4> QED BY <3>2, <4>1, <4>2
    <3> QED BY <1>4, <3>1, <3>2 DEF Register
  <2>2. /\ seqOf' \in [Calls -> Nat] /\ err' \in [Calls -> ErrStates]
        /\ pc' \in [Calls -> PcStates]
        BY <1>4 DEF Register, TypeOK
  <2> QED BY <1>4, <2>1, <2>2 DEF Register, TypeOK, bufVars, rcvVars, wireVars
<1>5. ASSUME NEW c \in Calls, WriteHeader(c) PROVE TypeOK'
  <2>1. HeaderUnit(seqOf[c], c, FALSE) \in Unit
        BY UnitTypes DEF TypeOK
  <2>2. wbuf \in Seq(Unit) /\ Append(wbuf, HeaderUnit(seqOf[c], c, FALSE)) \in Seq(Unit)
    <3>1. wbuf \in Seq(Unit)
          BY DEF TypeOK
    <3> QED BY <2>1, <3>1, AppendLog
  <2>3. wbuf' \in Seq(Unit) /\ pc' \in [Calls -> PcStates]
        BY <1>5, <2>2 DEF WriteHeader, TypeOK
  <2> QED BY <1>5, <2>3 DEF WriteHeader, TypeOK, tableVars, doneVars, rcvVars, wireVars
<1>6. ASSUME NEW c \in Calls, WriteBody(c) PROVE TypeOK'
  <2>1. wbuf \in Seq(Unit) /\ Append(wbuf, BodyUnit(c)) \in Seq(Unit) /\ <<>> \in Seq(Unit)
        BY UnitTypes, AppendContains DEF TypeOK
  <2>2. /\ c2s \in Seq(Unit) /\ c2s \o wbuf \in Seq(Unit)
        /\ c2s \o Append(wbuf, BodyUnit(c)) \in Seq(Unit)
        BY <2>1, ConcatLog DEF TypeOK
  <2>3. c2s' \in Seq(Unit) /\ wbuf' = <<>> /\ bufErr' \in BOOLEAN /\ cEnd' \in BOOLEAN
        BY <1>6, <2>2 DEF WriteBody, FlushOK, FlushFails, TypeOK
  <2>4. wbuf' \in Seq(Unit) /\ pc' \in [Calls -> PcStates] /\ headMutex' \in Calls \cup {NoCall}
        BY <1>6, <2>1, <2>3 DEF WriteBody, TypeOK
  <2> QED BY <1>6, <2>3, <2>4 DEF WriteBody, TypeOK, tableVars, doneVars, rcvVars
<1>7. ASSUME NEW c \in Calls, Remove(c) PROVE TypeOK'
  <2>1. pending' = Delete(seqOf[c])
        BY <1>7 DEF Remove
  <2>2. /\ DOMAIN pending' \subseteq 1 .. (seq - 1)
        /\ \A s \in DOMAIN pending' : pending'[s] \in Calls
        BY <2>1, DeleteType DEF TypeOK
  <2>3. /\ err' \in [Calls -> ErrStates] /\ pc' \in [Calls -> PcStates]
        /\ headMutex' \in Calls \cup {NoCall}
        BY <1>7 DEF Remove, TypeOK
  <2>4. UNCHANGED <<seqOf, result, seq, closing, shutdown, reply, doneCh, bufVars, rcvVars, wireVars>>
        BY <1>7 DEF Remove
  <2> QED BY <2>2, <2>3, <2>4 DEF TypeOK, bufVars, rcvVars, wireVars
<1>8. ASSUME NEW c \in Calls, Finish(c) PROVE TypeOK'
      BY <1>8, SendDoneType DEF Finish, TypeOK, tableVars, bufVars, rcvVars, wireVars
<1>9. ASSUME NEW c \in Calls, Take(c) PROVE TypeOK'
  <2>1. doneCh' \in [Chans -> Seq(Calls)]
        BY <1>9, TailContains, ClientAssumption DEF Take, TypeOK
  <2> QED BY <1>9, <2>1 DEF Take, TypeOK, tableVars, bufVars, rcvVars, wireVars
<1>10. ASSUME NEW c \in Calls, Expire(c) PROVE TypeOK'
      BY <1>10 DEF Expire, TypeOK, tableVars, doneVars, bufVars, rcvVars, wireVars
<1>11. ASSUME NEW c \in Calls, Cancel(c) PROVE TypeOK'
  <2>1. /\ DOMAIN pending' \subseteq 1 .. (seq - 1)
        /\ \A s \in DOMAIN pending' : pending'[s] \in Calls
        BY <1>11, DeleteType DEF Cancel, TypeOK
  <2> QED BY <1>11, <2>1 DEF Cancel, TypeOK, doneVars, bufVars, rcvVars, wireVars
<1>12. CASE Close
      BY <1>12 DEF Close, TypeOK, callVars, doneVars, bufVars, rcvVars
<1>13. CASE ReadHeader
  <2>1. rhead' \in Unit /\ rpos' \in 0 .. Len(s2c)
        BY <1>13 DEF ReadHeader, Ready, TypeOK
  <2> QED BY <1>13, <2>1 DEF ReadHeader, TypeOK, callVars, tableVars, doneVars, bufVars, wireVars
<1>14. CASE LookUp
      BY <1>14, DeleteType DEF LookUp, TypeOK, callVars, doneVars, bufVars, wireVars
<1>15. CASE DiscardBody
  <2>1. rpos' \in 0 .. Len(s2c)
        BY <1>15 DEF DiscardBody, Ready, TypeOK
  <2> QED BY <1>15, <2>1 DEF DiscardBody, TypeOK, callVars, tableVars, doneVars, bufVars, wireVars
<1>16. CASE ReadErrorBody
  <2>1. rpos' \in 0 .. Len(s2c)
        BY <1>16 DEF ReadErrorBody, Ready, TypeOK
  <2> QED BY <1>16, <2>1 DEF ReadErrorBody, TypeOK, callVars, tableVars, bufVars, wireVars
<1>17. CASE ReadReply
  <2>1. rpos' \in 0 .. Len(s2c)
        BY <1>17 DEF ReadReply, Ready, TypeOK
  <2>2. ASSUME rpos + 1 \in DOMAIN s2c PROVE s2c[rpos + 1].call \in Calls \cup {NoCall}
        BY <2>2, LogUnits DEF TypeOK
  <2>3. reply' \in [Calls -> Calls \cup {NoCall}]
        BY <1>17, <2>2 DEF ReadReply, Ready, TypeOK
  <2> QED BY <1>17, <2>1, <2>3 DEF ReadReply, TypeOK, callVars, tableVars, bufVars, wireVars
<1>18. ASSUME NEW c \in Calls, Notify(c) PROVE TypeOK'
      BY <1>18, SendDoneType DEF Notify, TypeOK, callVars, tableVars, bufVars, wireVars
<1>19. CASE TerminateBegin
      BY <1>19 DEF TerminateBegin, PendingCalls, TypeOK, callVars, doneVars, bufVars, wireVars
<1>20. CASE TerminateEnd
      BY <1>20 DEF TerminateEnd, TypeOK, callVars, tableVars, doneVars, bufVars, wireVars
<1>24. CASE CompleteCall
      BY <1>24, SendDoneType DEF CompleteCall, TypeOK, callVars, tableVars, bufVars, wireVars
<1> QED BY <1>2, <1>3, <1>4, <1>5, <1>6, <1>7, <1>8, <1>9, <1>10, <1>11,
          <1>12, <1>13, <1>14, <1>15, <1>16, <1>17, <1>18, <1>19, <1>20, <1>24
       DEF Client, Send, User, Receive

-----------------------------------------------------------------------------
(* What the server, or the network, may do to the connection: answer a call  *)
(* under its number, once it has one, with its result or an error, or close. *)

PeerMoves ==
    /\ \/ UNCHANGED s2c
       \/ /\ ~sEnd
          /\ \E d \in Calls, x \in Unit, body \in Calls \cup {NoCall} :
                /\ x.kind = "header" /\ x.call = d /\ x.seq = seqOf[d] /\ x.seq # 0
                /\ x.failed \/ body = d
                /\ \/ s2c' = s2c \o <<x, BodyUnit(body)>>
                   \/ s2c' = Append(s2c, x) /\ sEnd'
    /\ cEnd' \in BOOLEAN /\ (cEnd => cEnd')
    /\ sEnd' \in BOOLEAN /\ (sEnd => sEnd')
    /\ UNCHANGED <<callVars, tableVars, doneVars, bufVars, rcvVars, c2s>>

\* How the log of responses may have grown.
ResponseAdded(d) ==
    LET n == Len(s2c) IN
    /\ ~sEnd
    /\ \A i \in DOMAIN s2c : s2c'[i] = s2c[i]
    /\ s2c'[n + 1].kind = "header" /\ s2c'[n + 1].call = d
    /\ s2c'[n + 1].seq = seqOf[d] /\ seqOf[d] # 0
    /\ \/ Len(s2c') = n + 1 /\ sEnd'
       \/ /\ Len(s2c') = n + 2 /\ s2c'[n + 2].kind = "body"
          /\ ~s2c'[n + 1].failed => s2c'[n + 2].call = d

LEMMA ResponsesGrow ==
    ASSUME TypeOK, PeerMoves
    PROVE  /\ s2c' \in Seq(Unit) /\ Len(s2c) <= Len(s2c')
           /\ \A i \in DOMAIN s2c : s2c'[i] = s2c[i]
           /\ UNCHANGED s2c \/ \E d \in Calls : ResponseAdded(d)
<1>1. s2c \in Seq(Unit) /\ Len(s2c) \in Nat /\ seqOf \in [Calls -> Nat]
      BY DEF TypeOK
<1>2. CASE UNCHANGED s2c
      BY <1>1, <1>2
<1>3. ASSUME NEW d \in Calls, NEW x \in Unit, NEW y \in Unit, ~sEnd, seqOf[d] # 0,
             x.kind = "header", x.call = d, x.seq = seqOf[d],
             y.kind = "body", x.failed \/ y.call = d,
             s2c' = s2c \o <<x, y>> \/ (s2c' = Append(s2c, x) /\ sEnd')
      PROVE  s2c' \in Seq(Unit) /\ Len(s2c) <= Len(s2c') /\ ResponseAdded(d)
  <2>1. CASE s2c' = s2c \o <<x, y>>
    <3>1. /\ s2c' \in Seq(Unit) /\ Len(s2c') = Len(s2c) + 2
          /\ \A i \in DOMAIN s2c : s2c'[i] = s2c[i]
          /\ s2c'[Len(s2c) + 1] = x /\ s2c'[Len(s2c) + 2] = y
          BY <1>1, <2>1, TwoMore
    <3> QED BY <1>1, <1>3, <3>1 DEF ResponseAdded
  <2>2. CASE s2c' = Append(s2c, x) /\ sEnd'
    <3>1. /\ s2c' \in Seq(Unit) /\ Len(s2c') = Len(s2c) + 1
          /\ \A i \in DOMAIN s2c : s2c'[i] = s2c[i]
          /\ s2c'[Len(s2c) + 1] = x
          BY <1>1, <2>2, OneMore
    <3> QED BY <1>1, <1>3, <2>2, <3>1 DEF ResponseAdded
  <2> QED BY <1>3, <2>1, <2>2
<1>4. CASE ~UNCHANGED s2c
  <2>1. PICK d \in Calls, x \in Unit, body \in Calls \cup {NoCall} :
           /\ ~sEnd
           /\ x.kind = "header" /\ x.call = d /\ x.seq = seqOf[d] /\ x.seq # 0
           /\ x.failed \/ body = d
           /\ \/ s2c' = s2c \o <<x, BodyUnit(body)>>
              \/ s2c' = Append(s2c, x) /\ sEnd'
        BY <1>4 DEF PeerMoves
  <2>2. /\ BodyUnit(body) \in Unit
        /\ BodyUnit(body).kind = "body" /\ BodyUnit(body).call = body
        BY UnitTypes DEF BodyUnit
  <2>6. s2c' \in Seq(Unit) /\ Len(s2c) <= Len(s2c') /\ ResponseAdded(d)
        BY <1>3, <2>1, <2>2
  <2> QED BY <2>6 DEF ResponseAdded
<1> QED BY <1>2, <1>4

LEMMA PeerTypes ==
    ASSUME TypeOK, PeerMoves
    PROVE  TypeOK'
<1>1. s2c' \in Seq(Unit) /\ Len(s2c) <= Len(s2c') /\ Len(s2c) \in Nat /\ Len(s2c') \in Nat
      BY ResponsesGrow DEF TypeOK
<1>2. rpos \in 0 .. Len(s2c')
      BY <1>1 DEF TypeOK
<1> QED BY <1>1, <1>2 DEF PeerMoves, TypeOK, callVars, tableVars, doneVars, bufVars, rcvVars

-----------------------------------------------------------------------------
(* No call is orphaned.  The argument: pending maps each number to the one   *)
(* call that carries it, so removeCall never takes another call's entry; and *)
(* once terminateCalls has started, no call enters pending.                  *)

\* Before it is registered a call has no number; afterwards it has one of its
\* own, already given out.
Numbered ==
    /\ \A c \in Calls : pc[c] \in {"idle", "lock", "register"} => seqOf[c] = 0
    /\ \A c \in Calls : seqOf[c] < seq
    /\ \A c, d \in Calls : seqOf[c] = seqOf[d] /\ seqOf[c] # 0 => c = d

\* A pending call is found under its own number.
PendingByNumber == \A s \in DOMAIN pending : seqOf[pending[s]] = s

\* terminateCalls sets shutdown before it looks at pending.
ShutdownFirst == rcv \in {"notify", "exited"} => shutdown

Accounted == TypeOK /\ Numbered /\ PendingByNumber /\ ShutdownFirst /\ NoOrphan

LEMMA OrphanInit == Init => Accounted
<1> SUFFICES ASSUME Init PROVE Accounted
    OBVIOUS
<1>1. TypeOK
      BY TypeInit
<1>2. Numbered
      BY DEF Init, Numbered
<1>3. PendingByNumber /\ ShutdownFirst
      BY DEF Init, PendingByNumber, ShutdownFirst
<1>4. NoOrphan
      BY DEF Init, NoOrphan
<1> QED BY <1>1, <1>2, <1>3, <1>4 DEF Accounted

\* Taking the entry of a number out of pending takes out one call only.
LEMMA DeleteOne ==
    ASSUME Accounted, NEW s, NEW d \in Calls, d \in PendingCalls, pending' = Delete(s)
    PROVE  d \in PendingCalls' \/ (LookedUp(s) = d /\ s \in DOMAIN pending)
<1>1. PICK t \in DOMAIN pending : pending[t] = d
      BY DEF PendingCalls
<1>2. CASE t = s
      BY <1>1, <1>2 DEF LookedUp
<1>3. CASE t # s
  <2>1. t \in DOMAIN pending' /\ pending'[t] = d
        BY <1>1, <1>3 DEF Delete
  <2> QED BY <2>1 DEF PendingCalls
<1> QED BY <1>2, <1>3

\* The entry under the number of a call is that call.
LEMMA OwnEntry ==
    ASSUME Accounted, NEW c \in Calls, NEW d \in Calls, seqOf[c] \in DOMAIN pending,
           pending[seqOf[c]] = d
    PROVE  c = d
<1>1. seqOf[d] = seqOf[c] /\ seqOf[c] # 0
      BY DEF Accounted, PendingByNumber, TypeOK
<1> QED BY <1>1 DEF Accounted, Numbered

LEMMA DeleteByNumber ==
    ASSUME Accounted, NEW s, pending' = Delete(s), UNCHANGED seqOf
    PROVE  PendingByNumber'
<1>1. /\ DOMAIN pending' = DOMAIN pending \ {s}
      /\ \A t \in DOMAIN pending' : pending'[t] = pending[t]
      BY DEF Delete
<1> QED BY <1>1 DEF Accounted, PendingByNumber

\* Steps of other goroutines that leave the call's completion alone.
LEMMA StillOwned ==
    ASSUME NEW d \in Calls, Owned(d), UNCHANGED <<doneCh, pending, rcv, rcall, todo>>
    PROVE  Owned(d)'
<1>1. InDone(d)' <=> InDone(d)
      BY DEF InDone
<1>2. PendingCalls' = PendingCalls
      BY DEF PendingCalls
<1> QED BY <1>1, <1>2 DEF Owned

\* Every step of the client keeps the calls accounted for.
LEMMA ClientOrphan ==
    ASSUME Accounted, Client
    PROVE  Accounted'
<1>t. TypeOK /\ TypeOK'
      BY ClientTypes DEF Accounted
<1> SUFFICES Numbered' /\ PendingByNumber' /\ ShutdownFirst' /\ NoOrphan'
    BY <1>t DEF Accounted
<1>w. pc \in [Calls -> PcStates] /\ seqOf \in [Calls -> Nat] /\ seq \in Nat \ {0}
      BY <1>t DEF TypeOK
<1>i. Numbered /\ PendingByNumber /\ ShutdownFirst /\ NoOrphan
      BY DEF Accounted
<1>2. ASSUME NEW c \in Calls, Invoke(c) PROVE Numbered' /\ PendingByNumber' /\ ShutdownFirst' /\ NoOrphan'
  <2>1. \A d \in Calls : Owned(d) => Owned(d)'
        BY <1>2, StillOwned DEF Invoke, doneVars, tableVars, rcvVars
  <2>2. UNCHANGED <<seqOf, seq, pending, shutdown, rcv, result>>
        BY <1>2 DEF Invoke, tableVars, rcvVars
  <2>3. Numbered'
        BY <1>2, <1>i, <1>w, <2>2 DEF Invoke, Numbered
  <2>4. NoOrphan'
        BY <1>2, <1>i, <1>w, <2>1, <2>2 DEF Invoke, NoOrphan
  <2> QED BY <1>i, <2>2, <2>3, <2>4 DEF PendingByNumber, ShutdownFirst
<1>3. ASSUME NEW c \in Calls, LockHead(c) PROVE Numbered' /\ PendingByNumber' /\ ShutdownFirst' /\ NoOrphan'
  <2>1. \A d \in Calls : Owned(d) => Owned(d)'
        BY <1>3, StillOwned DEF LockHead, doneVars, tableVars, rcvVars
  <2>2. UNCHANGED <<seqOf, seq, pending, shutdown, rcv, result>>
        BY <1>3 DEF LockHead, tableVars, rcvVars
  <2>3. Numbered'
        BY <1>3, <1>i, <1>w, <2>2 DEF LockHead, Numbered
  <2>4. NoOrphan'
        BY <1>3, <1>i, <1>w, <2>1, <2>2 DEF LockHead, NoOrphan
  <2> QED BY <1>i, <2>2, <2>3, <2>4 DEF PendingByNumber, ShutdownFirst
<1>4. ASSUME NEW c \in Calls, WriteHeader(c) PROVE Numbered' /\ PendingByNumber' /\ ShutdownFirst' /\ NoOrphan'
  <2>1. \A d \in Calls : Owned(d) => Owned(d)'
        BY <1>4, StillOwned DEF WriteHeader, doneVars, tableVars, rcvVars
  <2>2. UNCHANGED <<seqOf, seq, pending, shutdown, rcv, result>>
        BY <1>4 DEF WriteHeader, tableVars, rcvVars
  <2>3. Numbered'
        BY <1>4, <1>i, <1>w, <2>2 DEF WriteHeader, Numbered
  <2>4. NoOrphan'
        BY <1>4, <1>i, <1>w, <2>1, <2>2 DEF WriteHeader, NoOrphan
  <2> QED BY <1>i, <2>2, <2>3, <2>4 DEF PendingByNumber, ShutdownFirst
<1>5. ASSUME NEW c \in Calls, WriteBody(c) PROVE Numbered' /\ PendingByNumber' /\ ShutdownFirst' /\ NoOrphan'
  <2>1. \A d \in Calls : Owned(d) => Owned(d)'
        BY <1>5, StillOwned DEF WriteBody, doneVars, tableVars, rcvVars
  <2>2. UNCHANGED <<seqOf, seq, pending, shutdown, rcv, result>>
        BY <1>5 DEF WriteBody, tableVars, rcvVars
  <2>3. pc[c] = "body" /\ (pc' = [pc EXCEPT ![c] = "sent"] \/ pc' = [pc EXCEPT ![c] = "remove"])
        BY <1>5 DEF WriteBody
  <2>4. Numbered'
        BY <1>i, <1>w, <2>2, <2>3 DEF Numbered
  <2>5. NoOrphan'
        BY <1>i, <1>w, <2>1, <2>2, <2>3 DEF NoOrphan
  <2> QED BY <1>i, <2>2, <2>4, <2>5 DEF PendingByNumber, ShutdownFirst
<1>6. ASSUME NEW c \in Calls, Register(c) PROVE Numbered' /\ PendingByNumber' /\ ShutdownFirst' /\ NoOrphan'
  <2>1. CASE closing \/ shutdown
    <3>1. /\ pc[c] = "register" /\ pc' = [pc EXCEPT ![c] = "done"]
          /\ UNCHANGED <<seqOf, seq, pending, shutdown, rcv, rcall, todo, result, doneCh>>
          BY <1>6, <2>1 DEF Register, rcvVars
    <3>2. \A d \in Calls : Owned(d) => Owned(d)'
          BY <3>1, StillOwned
    <3> QED BY <1>i, <1>w, <3>1, <3>2 DEF Numbered, NoOrphan, PendingByNumber, ShutdownFirst
  <2>2. CASE ~closing /\ ~shutdown
    <3>1. /\ pc[c] = "register" /\ pc' = [pc EXCEPT ![c] = "header"]
          /\ seqOf' = [seqOf EXCEPT ![c] = seq] /\ seq' = seq + 1 /\ pending' = Put(seq, c)
          /\ UNCHANGED <<shutdown, rcv, rcall, todo, result, doneCh>>
          BY <1>6, <2>2 DEF Register, rcvVars
    <3>2. Numbered'
          BY <1>i, <1>w, <3>1 DEF Numbered
    <3>3. /\ DOMAIN pending' = DOMAIN pending \cup {seq} /\ pending'[seq] = c
          /\ \A t \in DOMAIN pending : pending'[t] = pending[t] /\ pending[t] \in Calls /\ t # 0
      <4>1. /\ DOMAIN Put(seq, c) = DOMAIN pending \cup {seq} /\ Put(seq, c)[seq] = c
            /\ \A t \in DOMAIN pending : Put(seq, c)[t] = pending[t]
            BY <1>t, PutType
      <4>2. \A t \in DOMAIN pending : pending[t] \in Calls /\ t # 0
            BY <1>t DEF TypeOK
      <4> QED BY <3>1, <4>1, <4>2
    <3>4. \A t \in DOMAIN pending : pending[t] # c
          BY <1>i, <3>1, <3>3 DEF Numbered, PendingByNumber
    <3>5. PendingByNumber'
          BY <1>i, <1>w, <3>1, <3>3, <3>4 DEF PendingByNumber
    <3>6. c \in PendingCalls' /\ \A d \in PendingCalls : d \in PendingCalls'
          BY <3>3 DEF PendingCalls
    <3>7. rcv \notin {"notify", "exited"}
          BY <1>i, <2>2 DEF ShutdownFirst
    <3>8. \A d \in Calls : InDone(d)' <=> InDone(d)
          BY <3>1 DEF InDone
    <3>9. \A d \in Calls : Owned(d) \/ d = c => Owned(d)'
          BY <3>1, <3>6, <3>7, <3>8 DEF Owned
    <3>10. NoOrphan'
          BY <1>i, <1>w, <3>1, <3>9 DEF NoOrphan
    <3>11. ShutdownFirst'
          BY <1>i, <3>1 DEF ShutdownFirst
    <3> QED BY <3>2, <3>5, <3>10, <3>11
  <2> QED BY <2>1, <2>2
<1>7. ASSUME NEW c \in Calls, Remove(c) PROVE Numbered' /\ PendingByNumber' /\ ShutdownFirst' /\ NoOrphan'
  <2>1. /\ pc[c] = "remove" /\ pending' = Delete(seqOf[c])
        /\ pc' = [pc EXCEPT ![c] = "done"] \/
           (LookedUp(seqOf[c]) = NoCall /\ pc' = [pc EXCEPT ![c] = "sent"])
        /\ UNCHANGED <<seqOf, seq, shutdown, rcv, rcall, todo, result, doneCh>>
        BY <1>7 DEF Remove, rcvVars
  <2>2. Numbered'
        BY <1>i, <1>w, <2>1 DEF Numbered
  <2>3. PendingByNumber'
        BY <2>1, DeleteByNumber
  <2>4. ASSUME NEW d \in Calls, Owned(d), d # c \/ LookedUp(seqOf[c]) = NoCall PROVE Owned(d)'
    <3>1. ASSUME d \in PendingCalls PROVE d \in PendingCalls'
      <4>1. CASE LookedUp(seqOf[c]) = d /\ seqOf[c] \in DOMAIN pending
        <5>1. d = c
              BY <4>1, OwnEntry DEF LookedUp
        <5> QED BY <2>4, <4>1, <5>1, WireAssumption
      <4> QED BY <2>1, <3>1, <4>1, DeleteOne
    <3>2. InDone(d)' <=> InDone(d)
          BY <2>1 DEF InDone
    <3> QED BY <2>1, <2>4, <3>1, <3>2 DEF Owned
  <2>5. NoOrphan'
        BY <1>i, <1>w, <2>1, <2>4 DEF NoOrphan
  <2> QED BY <1>i, <2>1, <2>2, <2>3, <2>5 DEF ShutdownFirst
<1>8. ASSUME NEW c \in Calls, Finish(c) PROVE Numbered' /\ PendingByNumber' /\ ShutdownFirst' /\ NoOrphan'
  <2>1. /\ pc[c] = "done" /\ SendDone(c) /\ pc' = [pc EXCEPT ![c] = "sent"]
        /\ UNCHANGED <<seqOf, seq, pending, shutdown, rcv, rcall, todo, result>>
        BY <1>8 DEF Finish, tableVars, rcvVars
  <2>2. \A d \in Calls : InDone(d)' <=> InDone(d) \/ d = c
        BY <1>t, <2>1, SendDoneType
  <2>3. \A d \in Calls : Owned(d) \/ d = c => Owned(d)'
        BY <2>1, <2>2 DEF Owned, PendingCalls
  <2>4. Numbered'
        BY <1>i, <1>w, <2>1 DEF Numbered
  <2>5. NoOrphan'
        BY <1>i, <1>w, <2>1, <2>3 DEF NoOrphan
  <2> QED BY <1>i, <2>1, <2>4, <2>5 DEF PendingByNumber, ShutdownFirst
<1>9. ASSUME NEW c \in Calls, Take(c) PROVE Numbered' /\ PendingByNumber' /\ ShutdownFirst' /\ NoOrphan'
  <2>1. /\ doneCh[DoneOf[c]] # <<>> /\ Head(doneCh[DoneOf[c]]) = c
        /\ doneCh' = [doneCh EXCEPT ![DoneOf[c]] = Tail(@)]
        /\ result' = [result EXCEPT ![c] = IF err[c] = "none" THEN "ok" ELSE err[c]]
        /\ UNCHANGED <<seqOf, seq, pending, shutdown, rcv, rcall, todo>>
        /\ pc' = pc \/ pc' = [pc EXCEPT ![c] = "returned"]
        BY <1>9 DEF Take, tableVars, rcvVars
  <2>2. result'[c] # "none" /\ \A d \in Calls : d # c => result'[d] = result[d]
        BY <1>t, <2>1 DEF TypeOK
  <2>3. ASSUME NEW d \in Calls, d # c, InDone(d) PROVE InDone(d)'
    <3>1. DoneOf \in [Calls -> Chans] /\ doneCh \in [Chans -> Seq(Calls)]
          BY <1>t, ClientAssumption DEF TypeOK
    <3>2. CASE DoneOf[d] = DoneOf[c]
      <4>1. Contains(Tail(doneCh[DoneOf[c]]), d)
        <5>1. doneCh[DoneOf[c]] \in Seq(Calls)
              BY <3>1
        <5>2. Contains(doneCh[DoneOf[c]], d)
              BY <2>3, <3>2 DEF InDone, Contains
        <5> QED BY <2>1, <2>3, <5>1, <5>2, TailContains
      <4>2. doneCh'[DoneOf[d]] = Tail(doneCh[DoneOf[c]])
            BY <2>1, <3>1, <3>2
      <4> QED BY <4>1, <4>2 DEF InDone, Contains
    <3>3. CASE DoneOf[d] # DoneOf[c]
      <4>1. doneCh'[DoneOf[d]] = doneCh[DoneOf[d]]
            BY <2>1, <3>1, <3>3
      <4> QED BY <2>3, <4>1 DEF InDone
    <3> QED BY <3>2, <3>3
  <2>4. \A d \in Calls : Owned(d) /\ d # c => Owned(d)'
        BY <2>1, <2>3 DEF Owned, PendingCalls
  <2>5. Numbered'
        BY <1>i, <1>w, <2>1 DEF Numbered
  <2>6. NoOrphan'
        BY <1>i, <1>w, <2>1, <2>2, <2>4 DEF NoOrphan
  <2> QED BY <1>i, <2>1, <2>5, <2>6 DEF PendingByNumber, ShutdownFirst
<1>10. ASSUME NEW c \in Calls, Expire(c) PROVE Numbered' /\ PendingByNumber' /\ ShutdownFirst' /\ NoOrphan'
  <2>1. \A d \in Calls : Owned(d) => Owned(d)'
        BY <1>10, StillOwned DEF Expire, doneVars, tableVars, rcvVars
  <2>2. /\ UNCHANGED <<seqOf, seq, pending, shutdown, rcv, result>>
        /\ pc[c] = "sent" /\ pc' = [pc EXCEPT ![c] = "cancel"]
        BY <1>10 DEF Expire, tableVars, rcvVars
  <2>3. Numbered'
        BY <1>i, <1>w, <2>2 DEF Numbered
  <2>4. NoOrphan'
        BY <1>i, <1>w, <2>1, <2>2 DEF NoOrphan
  <2> QED BY <1>i, <2>2, <2>3, <2>4 DEF PendingByNumber, ShutdownFirst
<1>11. ASSUME NEW c \in Calls, Cancel(c) PROVE Numbered' /\ PendingByNumber' /\ ShutdownFirst' /\ NoOrphan'
  <2>1. /\ pc[c] = "cancel" /\ pending' = Delete(seqOf[c])
        /\ pc' = [pc EXCEPT ![c] = "returned"]
        /\ result' = [result EXCEPT ![c] = "timeout"]
        /\ UNCHANGED <<seqOf, seq, shutdown, rcv, rcall, todo, doneCh>>
        BY <1>11 DEF Cancel, doneVars, rcvVars
  <2>2. Numbered'
        BY <1>i, <1>w, <2>1 DEF Numbered
  <2>3. PendingByNumber'
        BY <2>1, DeleteByNumber
  <2>4. ASSUME NEW d \in Calls, Owned(d), d # c PROVE Owned(d)'
    <3>1. ASSUME d \in PendingCalls PROVE d \in PendingCalls'
      <4>1. CASE LookedUp(seqOf[c]) = d /\ seqOf[c] \in DOMAIN pending
            BY <2>4, <4>1, OwnEntry DEF LookedUp
      <4> QED BY <2>1, <3>1, <4>1, DeleteOne
    <3>2. InDone(d)' <=> InDone(d)
          BY <2>1 DEF InDone
    <3> QED BY <2>1, <2>4, <3>1, <3>2 DEF Owned
  <2>5. \A d \in Calls : d # c => pc'[d] = pc[d] /\ result'[d] = result[d]
        BY <1>t, <2>1 DEF TypeOK
  <2>6. pc'[c] = "returned"
        BY <1>w, <2>1
  <2>7. NoOrphan'
        BY <1>i, <2>4, <2>5, <2>6 DEF NoOrphan
  <2> QED BY <1>i, <2>1, <2>2, <2>3, <2>7 DEF ShutdownFirst
<1>12. CASE Close
  <2>1. UNCHANGED <<pc, seqOf, seq, pending, shutdown, rcv, rcall, todo, result, doneCh>>
        BY <1>12 DEF Close, callVars, tableVars, doneVars, rcvVars
  <2>2. \A d \in Calls : Owned(d) => Owned(d)'
        BY <2>1, StillOwned
  <2> QED BY <1>i, <2>1, <2>2 DEF Numbered, NoOrphan, PendingByNumber, ShutdownFirst
<1>16. CASE ReadHeader
  <2>1. /\ rcv = "header" /\ rcv' \in {"lookup", "terminate"}
        /\ UNCHANGED <<pc, seqOf, seq, pending, shutdown, rcall, todo, result, doneCh>>
        BY <1>16 DEF ReadHeader, callVars, tableVars, doneVars
  <2>2. \A d \in Calls : Owned(d) => Owned(d)'
        BY <2>1 DEF Owned, InDone, PendingCalls
  <2> QED BY <1>i, <2>1, <2>2 DEF Numbered, NoOrphan, PendingByNumber, ShutdownFirst
<1>17. CASE ReadErrorBody
  <2>1. /\ rcv = "body" /\ rcv' \in {"done"}
        /\ UNCHANGED <<pc, seqOf, seq, pending, shutdown, rcall, todo, result, doneCh>>
        BY <1>17 DEF ReadErrorBody, callVars, tableVars, doneVars
  <2>2. \A d \in Calls : Owned(d) => Owned(d)'
        BY <2>1 DEF Owned, InDone, PendingCalls
  <2> QED BY <1>i, <2>1, <2>2 DEF Numbered, NoOrphan, PendingByNumber, ShutdownFirst
<1>18. CASE ReadReply
  <2>1. /\ rcv = "body" /\ rcv' \in {"done", "panicked"}
        /\ UNCHANGED <<pc, seqOf, seq, pending, shutdown, rcall, todo, result, doneCh>>
        BY <1>18 DEF ReadReply, callVars, tableVars, doneVars
  <2>2. \A d \in Calls : Owned(d) => Owned(d)'
        BY <2>1 DEF Owned, InDone, PendingCalls
  <2> QED BY <1>i, <2>1, <2>2 DEF Numbered, NoOrphan, PendingByNumber, ShutdownFirst
<1>19. CASE DiscardBody
  <2>1. /\ rcv = "body" /\ rcall = NoCall /\ rcv' \in {"header", "terminate"}
        /\ UNCHANGED <<pc, seqOf, seq, pending, shutdown, rcall, todo, result, doneCh>>
        BY <1>19 DEF DiscardBody, callVars, tableVars, doneVars
  <2>2. \A d \in Calls : Owned(d) => Owned(d)'
        BY <2>1, WireAssumption DEF Owned, InDone, PendingCalls
  <2> QED BY <1>i, <2>1, <2>2 DEF Numbered, NoOrphan, PendingByNumber, ShutdownFirst
<1>20. CASE LookUp
  <2>1. /\ rcv = "lookup" /\ rcv' = "body" /\ rcall' = LookedUp(rhead.seq)
        /\ pending' = Delete(rhead.seq)
        /\ UNCHANGED <<pc, seqOf, seq, shutdown, todo, result, doneCh>>
        BY <1>20 DEF LookUp, callVars, doneVars
  <2>2. PendingByNumber'
        BY <2>1, DeleteByNumber
  <2>3. ASSUME NEW d \in Calls, Owned(d) PROVE Owned(d)'
    <3>1. InDone(d)' <=> InDone(d)
          BY <2>1 DEF InDone
    <3>2. ASSUME d \in PendingCalls PROVE d \in PendingCalls' \/ rcall' = d
          BY <2>1, <3>2, DeleteOne
    <3> QED BY <2>1, <2>3, <3>1, <3>2 DEF Owned
  <2> QED BY <1>i, <2>1, <2>2, <2>3 DEF Numbered, NoOrphan, ShutdownFirst
<1>21. CASE CompleteCall
  <2>1. /\ rcv = "done" /\ rcv' \in {"terminate", "header"} /\ SendDone(rcall)
        /\ UNCHANGED <<pc, seqOf, seq, pending, shutdown, todo, result>>
        BY <1>21 DEF CompleteCall, callVars, tableVars
  <2>2. rcall \in Calls
        BY <1>t, <2>1 DEF TypeOK
  <2>3. \A d \in Calls : InDone(d)' <=> InDone(d) \/ d = rcall
        BY <1>t, <2>1, <2>2, SendDoneType
  <2>4. \A d \in Calls : Owned(d) => Owned(d)'
        BY <2>1, <2>3 DEF Owned, PendingCalls
  <2> QED BY <1>i, <2>1, <2>4 DEF Numbered, NoOrphan, PendingByNumber, ShutdownFirst
<1>22. CASE TerminateBegin
  <2>1. /\ rcv = "terminate" /\ rcv' = "notify" /\ shutdown' = TRUE /\ todo' = PendingCalls
        /\ UNCHANGED <<pc, seqOf, seq, pending, result, doneCh>>
        BY <1>22 DEF TerminateBegin, callVars, doneVars
  <2>2. \A d \in Calls : Owned(d) => Owned(d)'
        BY <2>1 DEF Owned, InDone
  <2>3. ShutdownFirst'
        BY <2>1, Zenon DEF ShutdownFirst
  <2> QED BY <1>i, <2>1, <2>2, <2>3 DEF Numbered, NoOrphan, PendingByNumber
<1>23. ASSUME NEW c \in Calls, Notify(c) PROVE Numbered' /\ PendingByNumber' /\ ShutdownFirst' /\ NoOrphan'
  <2>1. /\ rcv = "notify" /\ SendDone(c) /\ todo' = todo \ {c}
        /\ UNCHANGED <<pc, seqOf, seq, pending, shutdown, rcv, rcall, result>>
        BY <1>23 DEF Notify, callVars, tableVars
  <2>2. \A d \in Calls : InDone(d)' <=> InDone(d) \/ d = c
        BY <1>t, <2>1, SendDoneType
  <2>3. \A d \in Calls : Owned(d) => Owned(d)'
        BY <2>1, <2>2 DEF Owned
  <2> QED BY <1>i, <2>1, <2>3 DEF Numbered, NoOrphan, PendingByNumber, ShutdownFirst
<1>24. CASE TerminateEnd
  <2>1. /\ rcv = "notify" /\ todo = {} /\ rcv' = "exited"
        /\ UNCHANGED <<pc, seqOf, seq, pending, shutdown, rcall, todo, result, doneCh>>
        BY <1>24 DEF TerminateEnd, callVars, tableVars, doneVars
  <2>2. \A d \in Calls : Owned(d) => Owned(d)'
        BY <2>1 DEF Owned, InDone
  <2> QED BY <1>i, <2>1, <2>2 DEF Numbered, NoOrphan, PendingByNumber, ShutdownFirst
<1> QED BY <1>2, <1>3, <1>4, <1>5, <1>6, <1>7, <1>8, <1>9, <1>10, <1>11, <1>12,
          <1>16, <1>17, <1>18, <1>19, <1>20, <1>21, <1>22, <1>23, <1>24
       DEF Client, Send, User, Receive

LEMMA PeerOrphan ==
    ASSUME Accounted, PeerMoves
    PROVE  Accounted'
<1>1. UNCHANGED <<pc, seqOf, seq, pending, shutdown, rcv, rcall, todo, result, doneCh>>
      BY DEF PeerMoves, callVars, tableVars, doneVars, rcvVars
<1>2. \A d \in Calls : Owned(d) => Owned(d)'
      BY <1>1, StillOwned
<1> QED BY <1>1, <1>2, PeerTypes
        DEF Accounted, Numbered, NoOrphan, PendingByNumber, ShutdownFirst

-----------------------------------------------------------------------------
(* What is sent, and by whom.                                              *)

\* headMutex is held by the one goroutine inside send, and the header of its
\* request alone is ever in the buffer between two steps.
Sender ==
    /\ \A c \in Calls : pc[c] \in Sending <=> headMutex = c
    /\ wbuf = <<>> \/ (headMutex # NoCall /\ pc[headMutex] = "body")
    /\ \A c \in Calls : pc[c] = "body" =>
          Len(wbuf) = 1 /\ wbuf[1].kind = "header" /\ wbuf[1].call = c /\ wbuf[1].seq = seqOf[c]

\* Each header carries its call's number; numbers are given out in order.
Labels ==
    /\ \A c \in Calls : pc[c] \in {"header", "body"} => seqOf[c] # 0
    /\ \A i \in DOMAIN c2s :
          /\ c2s[i].call \in Calls /\ seqOf[c2s[i].call] # 0
          /\ c2s[i].kind = "header" =>
                /\ c2s[i].seq = seqOf[c2s[i].call]
                /\ \A c \in Calls : pc[c] \in {"header", "body"} => c2s[i].seq < seqOf[c]

-----------------------------------------------------------------------------
(* What is received.                                                       *)

\* The peer sends whole responses, under the numbers of the requests.
Pairs ==
    \A i \in DOMAIN s2c :
        IF s2c[i].kind = "header"
        THEN /\ s2c[i].call \in Calls
             /\ s2c[i].seq = seqOf[s2c[i].call] /\ s2c[i].seq # 0
             /\ IF i = Len(s2c) THEN sEnd
                ELSE /\ s2c[i + 1].kind = "body"
                     /\ ~s2c[i].failed => s2c[i + 1].call = s2c[i].call
        ELSE i > 1 /\ s2c[i - 1].kind = "header"

\* Where receive is tells what it has read last.
Position ==
    /\ rcv = "header" \/ (rcv = "done" /\ ~rerr) => rpos = 0 \/ s2c[rpos].kind = "body"
    /\ rcv \in {"lookup", "body"} =>
          rpos \in DOMAIN s2c /\ rhead = s2c[rpos] /\ rhead.kind = "header"
    /\ rcv = "body" /\ rcall # NoCall => seqOf[rcall] = rhead.seq

-----------------------------------------------------------------------------
(* How a call ends.                                                        *)

Gone(c) == result[c] # "none" \/ InDone(c) \/ pc[c] = "done"

\* A call that is not registered yet has not been touched, and an error is set
\* before the completion is sent.
Progress ==
    \A c \in Calls :
        /\ pc[c] \in {"idle", "lock", "register"} => result[c] = "none" /\ ~InDone(c)
        /\ pc[c] = "done" => err[c] # "none"
        /\ pc[c] = "cancel" => c \in SyncCalls
        /\ c \in SyncCalls /\ pc[c] # "returned" => result[c] = "none"

\* A call that ends leaves pending first; only terminateCalls, which never lets
\* go of the map again, leaves its calls there.
LeftPending ==
    /\ \A c \in Calls : Gone(c) /\ err[c] # "lost" => c \notin PendingCalls
    /\ \A c \in Calls : err[c] = "lost" => rcv \in {"notify", "exited"}
    /\ rcv = "notify" => \A c \in todo : c \in PendingCalls /\ err[c] # "lost"

\* receive holds the one reference to a call it has taken out of pending.
Held ==
    \A c \in Calls : rcall = c =>
        /\ rcv \in {"body", "done", "panicked"}
        /\ c \notin PendingCalls /\ ~InDone(c)
        /\ pc[c] # "done" /\ result[c] \in {"none", "timeout"}
        /\ seqOf[c] # 0

\* A completion without error comes with the reply.
Replies ==
    \A c \in Calls :
        /\ reply[c] \in {NoCall, c}
        /\ InDone(c) /\ err[c] = "none" => reply[c] = c
        /\ rcv = "done" /\ rcall = c /\ err[c] = "none" => reply[c] = c
        /\ result[c] = "ok" => err[c] = "none" /\ reply[c] = c

IInv ==
    /\ Accounted /\ Sender /\ Labels /\ RequestFrames /\ Pairs /\ Position
    /\ Progress /\ LeftPending /\ Held /\ Replies

LEMMA InvInit == Init => IInv
<1> SUFFICES ASSUME Init PROVE IInv
    OBVIOUS
<1>1. Accounted
      BY OrphanInit
<1>2. DOMAIN c2s = {} /\ DOMAIN s2c = {} /\ PendingCalls = {}
      BY DEF Init, PendingCalls
<1>3. Sender /\ Labels /\ RequestFrames
      BY <1>2, WireAssumption DEF Init, Sender, Sending, Labels, RequestFrames
<1>4. Pairs /\ Position
      BY <1>2 DEF Init, Pairs, Position
<1>5. \A c \in Calls : ~InDone(c)
  <2>1. \A c \in Calls : doneCh[DoneOf[c]] = <<>>
        BY ClientAssumption DEF Init
  <2>2. DOMAIN <<>> = {}
        OBVIOUS
  <2> QED BY <2>1, <2>2 DEF InDone
<1>6. Progress /\ LeftPending /\ Held /\ Replies
      BY <1>2, <1>5, WireAssumption DEF Init, Progress, LeftPending, Held, Replies, Gone
<1> QED BY <1>1, <1>3, <1>4, <1>6 DEF IInv

-----------------------------------------------------------------------------
(* Who may change what.                                                    *)

LEMMA OwnStep ==
    ASSUME Accounted, Client, NEW d \in Calls
    PROVE  /\ pc'[d] # pc[d] => Send(d) \/ User(d)
           /\ result'[d] # result[d] => Take(d) \/ Cancel(d)
           /\ seqOf'[d] # seqOf[d] => Register(d)
<1>t. /\ pc \in [Calls -> PcStates] /\ seqOf \in [Calls -> Nat]
      /\ result \in [Calls -> ErrStates \cup {"ok", "timeout"}]
      BY DEF Accounted, TypeOK
<1>1. ASSUME NEW c \in Calls, Send(c) \/ User(c), d # c
      PROVE  UNCHANGED <<pc[d], result[d], seqOf[d]>>
      BY <1>t, <1>1 DEF Send, User, Invoke, LockHead, Register, WriteHeader, WriteBody, Remove,
         Finish, Take, Expire, Cancel
<1>2. CASE Receive \/ Close
      BY <1>2 DEF Receive, ReadHeader, LookUp, DiscardBody, ReadErrorBody, ReadReply,
         CompleteCall, TerminateBegin, TerminateEnd, Notify, Close, callVars
<1>3. ASSUME Send(d), ~Register(d) PROVE UNCHANGED <<result, seqOf>>
      BY <1>3 DEF Send, Invoke, LockHead, WriteHeader, WriteBody, Remove, Finish
<1>4. ASSUME Register(d) PROVE UNCHANGED result
      BY <1>4 DEF Register
<1>5. ASSUME User(d) PROVE UNCHANGED seqOf /\ (Expire(d) => UNCHANGED result)
      BY <1>5 DEF User, Take, Expire, Cancel
<1> QED BY <1>1, <1>2, <1>3, <1>4, <1>5 DEF Client, User

LEMMA WhoCompletes ==
    ASSUME Accounted, Client, NEW d \in Calls, InDone(d)', ~InDone(d)
    PROVE  Finish(d) \/ Notify(d) \/ (CompleteCall /\ rcall = d)
<1>t. TypeOK
      BY DEF Accounted
<1>1. CASE UNCHANGED doneCh
      BY <1>1 DEF InDone
<1>2. ASSUME NEW c \in Calls, SendDone(c) PROVE d = c
      BY <1>t, <1>2, SendDoneType
<1>3. ASSUME NEW c \in Calls, Take(c) PROVE FALSE
  <2>1. /\ doneCh[DoneOf[c]] # <<>>
        /\ doneCh' = [doneCh EXCEPT ![DoneOf[c]] = Tail(doneCh[DoneOf[c]])]
        BY <1>3 DEF Take
  <2>2. DoneOf \in [Calls -> Chans] /\ doneCh \in [Chans -> Seq(Calls)]
        BY <1>t, ClientAssumption DEF TypeOK
  <2>3. CASE DoneOf[d] = DoneOf[c]
    <3>1. doneCh'[DoneOf[d]] = Tail(doneCh[DoneOf[d]]) /\ doneCh[DoneOf[d]] \in Seq(Calls)
          /\ doneCh[DoneOf[d]] # <<>>
          BY <2>1, <2>2, <2>3
    <3>2. PICK i \in DOMAIN Tail(doneCh[DoneOf[d]]) : Tail(doneCh[DoneOf[d]])[i] = d
          BY <3>1 DEF InDone
    <3>3. i + 1 \in DOMAIN doneCh[DoneOf[d]] /\ doneCh[DoneOf[d]][i + 1] = d
          BY <3>1, <3>2
    <3> QED BY <3>3 DEF InDone
  <2>4. CASE DoneOf[d] # DoneOf[c]
    <3>1. doneCh'[DoneOf[d]] = doneCh[DoneOf[d]]
          BY <2>1, <2>2, <2>4
    <3> QED BY <3>1 DEF InDone
  <2> QED BY <2>3, <2>4
<1>4. ASSUME NEW c \in Calls, Send(c) \/ User(c), ~Take(c) PROVE UNCHANGED doneCh \/ Finish(c)
      BY <1>4 DEF Send, User, Invoke, LockHead, Register, WriteHeader, WriteBody, Remove,
         Expire, Cancel, doneVars
<1>5. CASE Close \/ ReadHeader \/ LookUp \/ DiscardBody \/ ReadErrorBody \/ ReadReply
           \/ TerminateBegin \/ TerminateEnd
      BY <1>1, <1>5 DEF Close, ReadHeader, LookUp, DiscardBody, ReadErrorBody, ReadReply,
         TerminateBegin, TerminateEnd, doneVars
<1>6. CASE CompleteCall
      BY <1>t, <1>2, <1>6 DEF CompleteCall, TypeOK
<1>7. ASSUME NEW c \in Calls, Notify(c) PROVE Notify(d)
      BY <1>2, <1>7 DEF Notify
<1>8. ASSUME NEW c \in Calls, Finish(c) PROVE Finish(d)
      BY <1>2, <1>8 DEF Finish
<1> QED BY <1>1, <1>3, <1>4, <1>5, <1>6, <1>7, <1>8 DEF Client, Receive

LEMMA WhoErrs ==
    ASSUME Accounted, Client, NEW d \in Calls, err'[d] # err[d]
    PROVE  /\ err'[d] # "none"
           /\ \/ Register(d)
              \/ Remove(d) /\ LookedUp(seqOf[d]) # NoCall
              \/ Notify(d) /\ err'[d] = "lost"
              \/ rcall = d /\ (ReadErrorBody \/ ReadReply)
           /\ err'[d] = "lost" => Notify(d)
<1>t. err \in [Calls -> ErrStates] /\ rcall \in Calls \cup {NoCall}
      BY DEF Accounted, TypeOK
<1>1. ASSUME NEW c \in Calls, Send(c) \/ User(c)
      PROVE  \/ UNCHANGED err
             \/ Register(c) /\ err' = [err EXCEPT ![c] = "shutdown"]
             \/ Remove(c) /\ LookedUp(seqOf[c]) # NoCall /\ err' = [err EXCEPT ![c] = "write"]
      BY <1>1 DEF Send, User, Invoke, LockHead, Register, WriteHeader, WriteBody, Remove,
         Finish, Take, Expire, Cancel, doneVars
<1>2. CASE ReadErrorBody
      BY <1>t, <1>2 DEF ReadErrorBody
<1>3. CASE ReadReply
      BY <1>t, <1>3 DEF ReadReply
<1>4. ASSUME NEW c \in Calls, Notify(c) PROVE c = d /\ err'[d] = "lost"
      BY <1>t, <1>4 DEF Notify
<1>5. CASE Close \/ ReadHeader \/ LookUp \/ DiscardBody \/ CompleteCall
           \/ TerminateBegin \/ TerminateEnd
      BY <1>5 DEF Close, ReadHeader, LookUp, DiscardBody, CompleteCall, TerminateBegin,
         TerminateEnd, doneVars
<1>6. ASSUME NEW c \in Calls, Send(c) \/ User(c)
      PROVE  /\ c = d /\ err'[d] # "none" /\ err'[d] # "lost"
             /\ Register(d) \/ (Remove(d) /\ LookedUp(seqOf[d]) # NoCall)
      BY <1>t, <1>1, <1>6
<1> QED BY <1>2, <1>3, <1>4, <1>5, <1>6 DEF Client, Receive

\* removeCall leaves nothing of a call in pending.
LEMMA DeletedOwn ==
    ASSUME Accounted, NEW d \in Calls, pending' = Delete(seqOf[d])
    PROVE  d \notin PendingCalls'
<1>1. /\ DOMAIN pending' = DOMAIN pending \ {seqOf[d]}
      /\ \A t \in DOMAIN pending' : pending'[t] = pending[t]
      BY DEF Delete
<1> QED BY <1>1 DEF Accounted, PendingByNumber, PendingCalls

LEMMA WhoPends ==
    ASSUME Accounted, Client, NEW d \in Calls
    PROVE  /\ d \in PendingCalls' /\ d \notin PendingCalls =>
                 Register(d) /\ ~shutdown /\ pc'[d] = "header" /\ UNCHANGED doneCh
           /\ d \in PendingCalls /\ d \notin PendingCalls' => MuFree
<1>t. TypeOK
      BY DEF Accounted
<1>1. ASSUME UNCHANGED pending PROVE PendingCalls' = PendingCalls
      BY <1>1 DEF PendingCalls
<1>2. ASSUME NEW s, pending' = Delete(s) PROVE PendingCalls' \subseteq PendingCalls
      BY <1>2 DEF Delete, PendingCalls
<1>3. ASSUME NEW c \in Calls, Register(c), ~UNCHANGED pending
      PROVE  /\ PendingCalls' = PendingCalls \cup {c}
             /\ ~shutdown /\ pc'[c] = "header" /\ UNCHANGED doneCh
  <2>1. pending' = Put(seq, c) /\ ~shutdown /\ pc' = [pc EXCEPT ![c] = "header"] /\ UNCHANGED doneCh
        BY <1>3 DEF Register
  <2>2. PendingCalls' = PendingCalls \cup {c}
    <3>1. /\ DOMAIN pending' = DOMAIN pending \cup {seq} /\ pending'[seq] = c
          /\ \A t \in DOMAIN pending : pending'[t] = pending[t]
          BY <1>t, <2>1, PutType
    <3> QED BY <3>1 DEF PendingCalls
  <2> QED BY <1>t, <2>1, <2>2 DEF TypeOK
<1>4. ASSUME NEW c \in Calls, Send(c) \/ User(c)
      PROVE  Register(c) \/ UNCHANGED pending \/ (MuFree /\ pending' = Delete(seqOf[c]))
      BY <1>4 DEF Send, User, Invoke, LockHead, WriteHeader, WriteBody, Remove,
         Finish, Take, Expire, Cancel, tableVars
<1>5. CASE LookUp
      BY <1>2, <1>5 DEF LookUp, MuFree
<1>6. CASE Close \/ ReadHeader \/ DiscardBody \/ ReadErrorBody \/ ReadReply \/ CompleteCall
           \/ TerminateBegin \/ TerminateEnd \/ \E c \in Calls : Notify(c)
      BY <1>1, <1>6 DEF Close, ReadHeader, DiscardBody, ReadErrorBody, ReadReply, CompleteCall,
         TerminateBegin, TerminateEnd, Notify, tableVars
<1>7. ASSUME NEW c \in Calls, Register(c)
      PROVE  /\ d \in PendingCalls' /\ d \notin PendingCalls =>
                   Register(d) /\ ~shutdown /\ pc'[d] = "header" /\ UNCHANGED doneCh
             /\ d \in PendingCalls => d \in PendingCalls'
      BY <1>1, <1>3, <1>7
<1> QED BY <1>1, <1>2, <1>4, <1>5, <1>6, <1>7 DEF Client, Receive

-----------------------------------------------------------------------------
(* The steps of the client.                                                *)

\* send writes the header in the buffer with its arguments, or alone when they
\* cannot be encoded.
LEMMA Written ==
    ASSUME IInv, NEW c \in Calls, WriteBody(c)
    PROVE  /\ wbuf[1] \in Unit /\ wbuf[1].kind = "header"
           /\ wbuf[1].call = c /\ wbuf[1].seq = seqOf[c]
           /\ \/ UNCHANGED c2s
              \/ /\ ~cEnd
                 /\ \/ c2s' = c2s \o <<wbuf[1], BodyUnit(c)>>
                    \/ c2s' = Append(c2s, wbuf[1]) /\ cEnd'
<1>1. /\ c2s \in Seq(Unit) /\ wbuf \in Seq(Unit) /\ Len(wbuf) = 1
      /\ wbuf[1].kind = "header" /\ wbuf[1].call = c /\ wbuf[1].seq = seqOf[c]
      BY DEF IInv, Accounted, TypeOK, Sender, WriteBody
<1>2. wbuf = <<wbuf[1]>> /\ wbuf[1] \in Unit
      BY <1>1, OneElement
<1>3. BodyUnit(c) \in Unit
      BY UnitTypes
<1>4. ASSUME NEW x \in Unit, NEW y \in Unit, wbuf = <<x>>
      PROVE  Append(wbuf, y) = <<x, y>> /\ c2s \o wbuf = Append(c2s, x)
      BY <1>1, <1>4, AppendToOne, OneMore
<1> QED BY <1>1, <1>2, <1>3, <1>4 DEF WriteBody, FlushOK, FlushFails

RequestAdded(c) ==
    LET n == Len(c2s) IN
    /\ ~cEnd
    /\ \A i \in DOMAIN c2s : c2s'[i] = c2s[i]
    /\ c2s'[n + 1].kind = "header" /\ c2s'[n + 1].call = c /\ c2s'[n + 1].seq = seqOf[c]
    /\ \/ Len(c2s') = n + 1 /\ cEnd'
       \/ Len(c2s') = n + 2 /\ c2s'[n + 2] = BodyUnit(c)

LEMMA RequestsGrow ==
    ASSUME IInv, NEW c \in Calls, WriteBody(c), ~UNCHANGED c2s
    PROVE  c2s' \in Seq(Unit) /\ RequestAdded(c)
<1>1. c2s \in Seq(Unit) /\ BodyUnit(c) \in Unit
      BY UnitTypes DEF IInv, Accounted, TypeOK
<1>2. ASSUME NEW x \in Unit, NEW y \in Unit, ~cEnd,
             x.kind = "header", x.call = c, x.seq = seqOf[c], y = BodyUnit(c),
             c2s' = c2s \o <<x, y>> \/ (c2s' = Append(c2s, x) /\ cEnd')
      PROVE  c2s' \in Seq(Unit) /\ RequestAdded(c)
  <2>1. CASE c2s' = c2s \o <<x, y>>
    <3>1. /\ c2s' \in Seq(Unit) /\ Len(c2s') = Len(c2s) + 2
          /\ \A i \in DOMAIN c2s : c2s'[i] = c2s[i]
          /\ c2s'[Len(c2s) + 1] = x /\ c2s'[Len(c2s) + 2] = y
          BY <1>1, <2>1, TwoMore
    <3> QED BY <1>2, <3>1 DEF RequestAdded
  <2>2. CASE c2s' = Append(c2s, x) /\ cEnd'
    <3>1. /\ c2s' \in Seq(Unit) /\ Len(c2s') = Len(c2s) + 1
          /\ \A i \in DOMAIN c2s : c2s'[i] = c2s[i]
          /\ c2s'[Len(c2s) + 1] = x
          BY <1>1, <2>2, OneMore
    <3> QED BY <1>2, <2>2, <3>1 DEF RequestAdded
  <2> QED BY <1>2, <2>1, <2>2
<1> QED BY <1>1, <1>2, Written

\* Only WriteBody adds to the log, and only Close and WriteBody end it.
LEMMA WhoSends ==
    ASSUME Client
    PROVE  /\ UNCHANGED <<s2c, sEnd>> /\ (cEnd => cEnd')
           /\ UNCHANGED c2s \/ \E c \in Calls : WriteBody(c)
<1>1. ASSUME NEW c \in Calls, Send(c) \/ User(c), ~WriteBody(c) PROVE UNCHANGED wireVars
      BY <1>1 DEF Send, User, Invoke, LockHead, Register, WriteHeader, Remove, Finish, Take,
         Expire, Cancel
<1>2. CASE Receive
      BY <1>2 DEF Receive, ReadHeader, LookUp, DiscardBody, ReadErrorBody, ReadReply,
         CompleteCall, TerminateBegin, TerminateEnd, Notify, wireVars
<1>3. CASE Close
      BY <1>3 DEF Close
<1>4. ASSUME NEW c \in Calls, WriteBody(c) PROVE UNCHANGED <<s2c, sEnd>> /\ (cEnd => cEnd')
      BY <1>4 DEF WriteBody
<1> QED BY <1>1, <1>2, <1>3, <1>4 DEF Client, wireVars

LEMMA ClientSender ==
    ASSUME IInv, Client
    PROVE  Sender'
<1>t. /\ Sender /\ NoCall \notin Calls /\ headMutex \in Calls \cup {NoCall}
      /\ pc \in [Calls -> PcStates] /\ seqOf \in [Calls -> Nat] /\ wbuf \in Seq(Unit)
      BY WireAssumption DEF IInv, Accounted, TypeOK
<1> USE DEF Sending
<1>1. CASE UNCHANGED <<pc, headMutex, wbuf, seqOf>>
      BY <1>t, <1>1 DEF Sender
<1>2. CASE Receive \/ Close
  <2>1. UNCHANGED <<pc, headMutex, wbuf, seqOf>>
        BY <1>2 DEF Receive, ReadHeader, LookUp, DiscardBody, ReadErrorBody, ReadReply,
           CompleteCall, TerminateBegin, TerminateEnd, Notify, Close, callVars, bufVars
  <2> QED BY <1>1, <2>1
<1>3. ASSUME NEW c \in Calls, User(c) PROVE Sender'
  <2>1. /\ UNCHANGED <<headMutex, wbuf, seqOf>>
        /\ pc[c] \notin Sending \/ UNCHANGED pc
        /\ pc'[c] \notin Sending \/ UNCHANGED pc
        /\ \A d \in Calls \ {c} : UNCHANGED pc[d]
    <3>1. CASE Take(c)
      <4>1. CASE c \in SyncCalls
            BY <1>t, <3>1, <4>1 DEF Take, bufVars
      <4>2. CASE c \notin SyncCalls
            BY <1>t, <3>1, <4>2 DEF Take, bufVars
      <4> QED BY <4>1, <4>2
    <3>2. CASE Expire(c) \/ Cancel(c)
          BY <1>t, <3>2 DEF Expire, Cancel, bufVars
    <3> QED BY <1>3, <3>1, <3>2 DEF User
  <2>2. \A d \in Calls : /\ pc'[d] \in Sending <=> pc[d] \in Sending
                         /\ pc'[d] = "body" <=> pc[d] = "body"
        BY <2>1
  <2> QED BY <1>1, <1>t, <2>1, <2>2 DEF Sender
<1>4. ASSUME NEW c \in Calls, Invoke(c) PROVE Sender'
      BY <1>t, <1>4 DEF Invoke, bufVars, Sender
<1>5. ASSUME NEW c \in Calls, LockHead(c) PROVE Sender'
      BY <1>t, <1>5 DEF LockHead, bufVars, Sender
<1>6. ASSUME NEW c \in Calls, Register(c) PROVE Sender'
  <2>1. /\ UNCHANGED <<headMutex, wbuf>> /\ pc[c] = "register" /\ pc'[c] \in {"done", "header"}
        /\ \A d \in Calls \ {c} : UNCHANGED <<pc[d], seqOf[d]>>
        BY <1>t, <1>6 DEF Register, bufVars
  <2>2. headMutex = c /\ wbuf = <<>> /\ \A d \in Calls \ {c} : pc[d] # "body"
        BY <1>t, <2>1 DEF Sender
  <2>3. \A d \in Calls : pc'[d] # "body"
        BY <2>1, <2>2
  <2> QED BY <1>t, <2>1, <2>2, <2>3 DEF Sender
<1>7. ASSUME NEW c \in Calls, WriteHeader(c) PROVE Sender'
  <2>1. UNCHANGED <<headMutex, seqOf>> /\ pc[c] = "header" /\ headMutex = c /\ wbuf = <<>>
        BY <1>t, <1>7 DEF WriteHeader, Sender
  <2>2. CASE bufErr
        BY <1>t, <1>7, <2>1, <2>2 DEF WriteHeader, Sender
  <2>3. CASE ~bufErr
    <3>1. PICK x \in Unit : /\ x.kind = "header" /\ x.call = c /\ x.seq = seqOf[c]
                            /\ wbuf' = Append(wbuf, x)
      <4>1. HeaderUnit(seqOf[c], c, FALSE) \in Unit
            BY <1>t, UnitTypes
      <4>2. /\ HeaderUnit(seqOf[c], c, FALSE).kind = "header"
            /\ HeaderUnit(seqOf[c], c, FALSE).call = c
            /\ HeaderUnit(seqOf[c], c, FALSE).seq = seqOf[c]
            BY DEF HeaderUnit
      <4> QED BY <1>7, <2>3, <4>1, <4>2 DEF WriteHeader
    <3>2. wbuf' = <<x>>
          BY <2>1, <3>1
    <3>3. Len(wbuf') = 1 /\ wbuf'[1] = x
          BY <3>2
    <3>4. pc' = [pc EXCEPT ![c] = "body"]
          BY <1>7, <2>3 DEF WriteHeader
    <3> QED BY <1>t, <2>1, <3>1, <3>3, <3>4 DEF Sender
  <2> QED BY <2>2, <2>3
<1>8. ASSUME NEW c \in Calls, WriteBody(c) PROVE Sender'
  <2>1. /\ pc[c] = "body" /\ headMutex = c /\ wbuf' = <<>> /\ UNCHANGED seqOf
        /\ \/ pc' = [pc EXCEPT ![c] = "sent"] /\ headMutex' = NoCall
           \/ pc' = [pc EXCEPT ![c] = "remove"] /\ UNCHANGED headMutex
        BY <1>t, <1>8 DEF WriteBody, FlushOK, FlushFails, Sender
  <2> QED BY <1>t, <2>1 DEF Sender
<1>9. ASSUME NEW c \in Calls, Remove(c) \/ Finish(c) PROVE Sender'
  <2>1. /\ pc[c] \in {"remove", "done"} /\ headMutex = c /\ UNCHANGED <<seqOf, wbuf>>
        /\ \/ pc' = [pc EXCEPT ![c] = "sent"] /\ headMutex' = NoCall
           \/ pc' = [pc EXCEPT ![c] = "done"] /\ UNCHANGED headMutex
        BY <1>t, <1>9 DEF Remove, Finish, Sender, bufVars
  <2> QED BY <1>t, <2>1 DEF Sender
<1> QED BY <1>2, <1>3, <1>4, <1>5, <1>6, <1>7, <1>8, <1>9 DEF Client, Send

\* A call is registered once, and nobody has seen it before.
LEMMA Unregistered ==
    ASSUME IInv, NEW c \in Calls, pc[c] \in {"idle", "lock", "register"}
    PROVE  /\ seqOf[c] = 0 /\ rcall # c /\ c \notin PendingCalls
           /\ result[c] = "none" /\ ~InDone(c)
           /\ \A i \in DOMAIN c2s : c2s[i].call # c
           /\ \A i \in DOMAIN s2c : s2c[i].kind = "header" => s2c[i].call # c
<1>1. seqOf[c] = 0 /\ result[c] = "none" /\ ~InDone(c)
      BY DEF IInv, Accounted, Numbered, Progress
<1>2. rcall # c
      BY <1>1, WireAssumption DEF IInv, Held
<1>3. c \notin PendingCalls
      BY <1>1 DEF IInv, Accounted, PendingByNumber, PendingCalls, TypeOK
<1>4. /\ \A i \in DOMAIN c2s : c2s[i].call # c
      /\ \A i \in DOMAIN s2c : s2c[i].kind = "header" => s2c[i].call # c
      BY <1>1 DEF IInv, Labels, Pairs
<1> QED BY <1>1, <1>2, <1>3, <1>4

LEMMA ClientLabels ==
    ASSUME IInv, Client
    PROVE  Labels'
<1>t. /\ Labels /\ seq \in Nat \ {0}
      /\ pc \in [Calls -> PcStates] /\ seqOf \in [Calls -> Nat] /\ c2s \in Seq(Unit)
      /\ \A c \in Calls : seqOf[c] < seq
      BY DEF IInv, Accounted, TypeOK, Numbered
<1>1. ASSUME UNCHANGED <<c2s, seqOf>>,
             \A c \in Calls : pc'[c] \in {"header", "body"} => pc[c] \in {"header", "body"}
      PROVE  Labels'
      BY <1>t, <1>1 DEF Labels
<1>2. CASE Receive \/ Close
  <2>1. UNCHANGED <<pc, seqOf, c2s>>
        BY <1>2 DEF Receive, ReadHeader, LookUp, DiscardBody, ReadErrorBody, ReadReply,
           CompleteCall, TerminateBegin, TerminateEnd, Notify, Close, callVars, wireVars
  <2> QED BY <1>1, <2>1
<1>3. ASSUME NEW c \in Calls, Register(c), ~UNCHANGED seqOf PROVE Labels'
  <2>1. /\ pc[c] = "register" /\ pc' = [pc EXCEPT ![c] = "header"]
        /\ seqOf' = [seqOf EXCEPT ![c] = seq] /\ UNCHANGED c2s
        BY <1>3 DEF Register, wireVars
  <2>2. \A i \in DOMAIN c2s : c2s[i].call # c
        BY <2>1, Unregistered
  <2>3. ASSUME NEW i \in DOMAIN c2s
        PROVE  /\ c2s[i].call \in Calls /\ seqOf'[c2s[i].call] = seqOf[c2s[i].call]
               /\ c2s[i].kind = "header" => c2s[i].seq < seq
        BY <1>t, <2>1, <2>2 DEF Labels
  <2>4. \A d \in Calls : pc'[d] \in {"header", "body"} =>
            (d = c /\ seqOf'[d] = seq) \/ (pc[d] \in {"header", "body"} /\ seqOf'[d] = seqOf[d])
        BY <1>t, <2>1
  <2> QED BY <1>t, <2>1, <2>3, <2>4 DEF Labels
<1>4. ASSUME NEW c \in Calls, Register(c), UNCHANGED seqOf PROVE Labels'
  <2>1. pc' = [pc EXCEPT ![c] = "done"] /\ UNCHANGED c2s
    <3>1. seqOf[c] < seq
          BY <1>t
    <3>2. seqOf' # [seqOf EXCEPT ![c] = seq]
          BY <1>t, <1>4, <3>1
    <3> QED BY <1>4, <3>2 DEF Register, wireVars
  <2> QED BY <1>t, <1>1, <1>4, <2>1
<1>5. ASSUME NEW c \in Calls, WriteBody(c) PROVE Labels'
  <2>1. /\ pc[c] = "body" /\ UNCHANGED seqOf
        /\ \A d \in Calls : pc'[d] \notin {"header", "body"}
    <3>1. /\ pc[c] = "body" /\ UNCHANGED seqOf
          /\ pc' = [pc EXCEPT ![c] = "sent"] \/ pc' = [pc EXCEPT ![c] = "remove"]
          BY <1>5 DEF WriteBody
    <3>2. \A d \in Calls \ {c} : pc[d] \notin {"header", "body"}
          BY <3>1 DEF IInv, Sender, Sending
    <3> QED BY <1>t, <3>1, <3>2
  <2>2. CASE UNCHANGED c2s
        BY <1>1, <2>1, <2>2
  <2>3. CASE ~UNCHANGED c2s
    <3>1. c2s' \in Seq(Unit) /\ RequestAdded(c)
          BY <1>5, <2>3, RequestsGrow
    <3>2. seqOf[c] # 0
          BY <1>t, <2>1 DEF Labels
    <3>3. BodyUnit(c).kind = "body" /\ BodyUnit(c).call = c
          BY DEF BodyUnit
    <3> QED BY <1>t, <2>1, <3>1, <3>2, <3>3 DEF Labels, RequestAdded
  <2> QED BY <2>2, <2>3
<1>6. ASSUME NEW c \in Calls, Send(c) \/ User(c), ~Register(c), ~WriteBody(c) PROVE Labels'
  <2>1. UNCHANGED <<seqOf, c2s>>
        BY <1>6 DEF Send, User, Invoke, LockHead, WriteHeader, Remove, Finish, Take, Expire,
           Cancel, wireVars
  <2>2. \/ UNCHANGED pc
        \/ WriteHeader(c)
        \/ /\ ~WriteHeader(c)
           /\ \E to \in {"lock", "register", "remove", "sent", "done", "returned", "cancel"} :
                 pc' = [pc EXCEPT ![c] = to]
        BY <1>6 DEF Send, User, Invoke, LockHead, WriteHeader, Remove, Finish, Take, Expire, Cancel
  <2>3. CASE WriteHeader(c)
        BY <1>t, <1>1, <2>1, <2>3 DEF WriteHeader
  <2> QED BY <1>t, <1>1, <2>1, <2>2, <2>3
<1> QED BY <1>2, <1>3, <1>4, <1>5, <1>6 DEF Client

LEMMA ClientFrames ==
    ASSUME IInv, Client
    PROVE  RequestFrames'
<1>t. /\ RequestFrames /\ Labels /\ c2s \in Seq(Unit) /\ seqOf \in [Calls -> Nat]
      /\ Len(c2s) \in Nat /\ DOMAIN c2s = 1 .. Len(c2s)
      BY DEF IInv, Accounted, TypeOK
<1>1. CASE UNCHANGED c2s
      BY <1>t, <1>1, WhoSends DEF RequestFrames
<1>2. ASSUME NEW c \in Calls, WriteBody(c), ~UNCHANGED c2s PROVE RequestFrames'
  <2>1. c2s' \in Seq(Unit) /\ RequestAdded(c)
        BY <1>2, RequestsGrow
  <2>2. \A i \in DOMAIN c2s : c2s[i].kind # "body" => i # Len(c2s)
        BY <1>t, <2>1 DEF RequestFrames, RequestAdded
  <2>3. BodyUnit(c).kind = "body" /\ BodyUnit(c).call = c
        BY DEF BodyUnit
  <2>4. \A j \in DOMAIN c2s : c2s[j].kind = "header" => c2s[j].seq < seqOf[c]
        BY <1>t, <1>2 DEF Labels, WriteBody
  <2> DEFINE Framed(i) ==
         IF c2s'[i].kind = "body"
         THEN i > 1 /\ c2s'[i - 1].kind = "header" /\ c2s'[i - 1].call = c2s'[i].call
         ELSE /\ i = Len(c2s') => cEnd'
              /\ i < Len(c2s') => c2s'[i + 1].kind = "body"
              /\ \A j \in 1 .. (i - 1) : c2s'[j].kind = "header" => c2s'[j].seq < c2s'[i].seq
  <2>5. ASSUME NEW i \in DOMAIN c2s PROVE Framed(i)
    <3>1. /\ c2s'[i] = c2s[i] /\ i < Len(c2s') /\ i \in 1 .. Len(c2s)
          /\ \A j \in 1 .. (i - 1) : j \in DOMAIN c2s /\ c2s'[j] = c2s[j]
          BY <1>t, <2>1 DEF RequestAdded
    <3>2. CASE c2s[i].kind = "body"
      <4>1. i > 1 /\ c2s[i - 1].kind = "header" /\ c2s[i - 1].call = c2s[i].call
            BY <1>t, <3>2 DEF RequestFrames
      <4> QED BY <1>t, <3>1, <3>2, <4>1
    <3>3. CASE c2s[i].kind # "body"
      <4>1. /\ i < Len(c2s) /\ c2s[i + 1].kind = "body"
            /\ \A j \in 1 .. (i - 1) : c2s[j].kind = "header" => c2s[j].seq < c2s[i].seq
            BY <1>t, <2>2, <3>1, <3>3 DEF RequestFrames
      <4>2. c2s'[i + 1] = c2s[i + 1]
            BY <1>t, <2>1, <3>1, <4>1 DEF RequestAdded
      <4> QED BY <3>1, <3>3, <4>1, <4>2
    <3> QED BY <3>2, <3>3
  <2>6. Framed(Len(c2s) + 1)
        BY <1>t, <2>1, <2>3, <2>4 DEF RequestAdded
  <2>7. ASSUME Len(c2s') = Len(c2s) + 2 PROVE Framed(Len(c2s) + 2)
        BY <1>t, <2>1, <2>3, <2>7 DEF RequestAdded
  <2>8. \A i \in DOMAIN c2s' :
            i \in DOMAIN c2s \/ i = Len(c2s) + 1 \/ (Len(c2s') = Len(c2s) + 2 /\ i = Len(c2s) + 2)
        BY <1>t, <2>1 DEF RequestAdded
  <2>9. \A i \in DOMAIN c2s' : Framed(i)
    <3> HIDE DEF Framed
    <3> QED BY <2>5, <2>6, <2>7, <2>8
  <2> QED BY <2>9 DEF RequestFrames
<1> QED BY <1>1, <1>2, WhoSends

LEMMA ClientPairs ==
    ASSUME IInv, Client
    PROVE  Pairs'
<1>1. UNCHANGED <<s2c, sEnd>> /\ Pairs
      BY WhoSends DEF IInv
<1>2. \A i \in DOMAIN s2c : s2c[i].kind = "header" => seqOf'[s2c[i].call] = seqOf[s2c[i].call]
  <2> SUFFICES ASSUME NEW i \in DOMAIN s2c, s2c[i].kind = "header",
                      seqOf'[s2c[i].call] # seqOf[s2c[i].call]
               PROVE  FALSE
      OBVIOUS
  <2>1. s2c[i].call \in Calls
        BY <1>1 DEF Pairs
  <2>2. Register(s2c[i].call)
        BY <2>1, OwnStep DEF IInv
  <2> QED BY <2>1, <2>2, Unregistered DEF Register
<1> QED BY <1>1, <1>2 DEF Pairs

LEMMA ClientPosition ==
    ASSUME IInv, Client
    PROVE  Position'
<1>t. /\ Position /\ Pairs /\ UNCHANGED s2c
      /\ s2c \in Seq(Unit) /\ rpos \in 0 .. Len(s2c) /\ Len(s2c) \in Nat
      /\ rcall \in Calls \cup {NoCall}
      BY WhoSends DEF IInv, Accounted, TypeOK
<1>1. ASSUME UNCHANGED rcall, rcall # NoCall PROVE seqOf'[rcall] = seqOf[rcall]
  <2> SUFFICES ASSUME seqOf'[rcall] # seqOf[rcall] PROVE FALSE
      OBVIOUS
  <2>1. Register(rcall)
        BY <1>t, <1>1, OwnStep DEF IInv
  <2> QED BY <1>t, <1>1, <2>1, Unregistered DEF Register
<1>2. CASE UNCHANGED <<rcv, rpos, rhead, rcall, rerr>>
      BY <1>t, <1>1, <1>2 DEF Position
<1>3. ASSUME NEW c \in Calls, Send(c) \/ User(c) PROVE Position'
  <2>1. UNCHANGED <<rcv, rpos, rhead, rcall, rerr>>
        BY <1>3 DEF Send, User, Invoke, LockHead, Register, WriteHeader, WriteBody, Remove, Finish,
           Take, Expire, Cancel, rcvVars
  <2> QED BY <1>2, <2>1
<1>4. CASE Close \/ TerminateBegin \/ TerminateEnd
  <2>1. /\ UNCHANGED <<rpos, rhead, rcall, rerr>>
        /\ UNCHANGED rcv \/ rcv' \in {"notify", "exited"}
        BY <1>4 DEF Close, TerminateBegin, TerminateEnd, rcvVars
  <2> QED BY <1>t, <1>2, <2>1 DEF Position
<1>5. ASSUME NEW c \in Calls, Notify(c) PROVE Position'
      BY <1>2, <1>5 DEF Notify
<1>6. CASE ReadHeader
      BY <1>t, <1>6 DEF ReadHeader, Ready, Position
<1>7. CASE LookUp
  <2>1. /\ rcv = "lookup" /\ rcv' = "body" /\ UNCHANGED <<rpos, rhead, seqOf>>
        /\ rcall' = LookedUp(rhead.seq)
        BY <1>7 DEF LookUp, callVars
  <2>2. rcall' # NoCall => seqOf[rcall'] = rhead.seq
        BY <2>1 DEF LookedUp, IInv, Accounted, PendingByNumber
  <2> QED BY <1>t, <2>1, <2>2 DEF Position
<1>8. CASE DiscardBody
  <2>1. rcv' \in {"header", "terminate"}
        BY <1>8 DEF DiscardBody
  <2>2. rcv' = "header" => s2c[rpos'].kind = "body"
        BY <1>8 DEF DiscardBody, Ready
  <2> QED BY <1>t, <2>1, <2>2 DEF Position
<1>9. CASE ReadErrorBody \/ ReadReply
  <2>1. rcv' \in {"done", "panicked"}
        BY <1>9 DEF ReadErrorBody, ReadReply
  <2>2. rcv' = "done" /\ ~rerr' => s2c[rpos'].kind = "body"
        BY <1>9 DEF ReadErrorBody, ReadReply, Ready
  <2> QED BY <1>t, <2>1, <2>2 DEF Position
<1>10. CASE CompleteCall
      BY <1>t, <1>10 DEF CompleteCall, Position
<1> QED BY <1>3, <1>4, <1>5, <1>6, <1>7, <1>8, <1>9, <1>10 DEF Client, Receive

LEMMA TakenDone ==
    ASSUME Accounted, NEW c \in Calls, Take(c)
    PROVE  InDone(c)
<1>1. doneCh[DoneOf[c]] # <<>> /\ Head(doneCh[DoneOf[c]]) = c
      BY DEF Take
<1>2. doneCh[DoneOf[c]] \in Seq(Calls)
      BY ClientAssumption DEF Accounted, TypeOK
<1>3. doneCh[DoneOf[c]][1] = c /\ 1 \in DOMAIN doneCh[DoneOf[c]]
      BY <1>1, <1>2
<1> QED BY <1>3 DEF InDone

LEMMA ClientProgress ==
    ASSUME IInv, Client
    PROVE  Progress'
<1>t. /\ Accounted /\ Progress /\ Held /\ LeftPending
      /\ pc \in [Calls -> PcStates] /\ result \in [Calls -> ErrStates \cup {"ok", "timeout"}]
      /\ err \in [Calls -> ErrStates]
      BY DEF IInv, Accounted, TypeOK
<1>m. ASSUME NEW c \in Calls
      PROVE  /\ pc'[c] \in {"idle", "lock", "register"} => pc[c] \in {"idle", "lock", "register"}
             /\ pc'[c] = "done" => pc[c] = "done" \/ err'[c] # "none"
             /\ pc'[c] = "cancel" => pc[c] = "cancel" \/ c \in SyncCalls
             /\ pc'[c] # "returned" => pc[c] # "returned"
             /\ Take(c) /\ c \in SyncCalls => pc'[c] = "returned"
             /\ Cancel(c) => pc[c] = "cancel" /\ pc'[c] = "returned"
  <2>1. CASE UNCHANGED pc[c]
    <3>1. Take(c) /\ c \in SyncCalls => pc'[c] = "returned"
          BY <1>t DEF Take
    <3>2. Cancel(c) => pc[c] = "cancel" /\ pc'[c] = "returned"
          BY <1>t DEF Cancel
    <3> QED BY <2>1, <3>1, <3>2
  <2>2. CASE Register(c)
        BY <1>t, <2>2 DEF Register, Take, Cancel
  <2>3. CASE Remove(c)
        BY <1>t, <2>3 DEF Remove, Take, Cancel
  <2>4. CASE Take(c)
        BY <1>t, <2>4 DEF Take, Cancel
  <2>5. CASE Expire(c) \/ Cancel(c)
        BY <1>t, <2>5, ClientAssumption DEF Expire, Cancel, Take
  <2>6. CASE Invoke(c) \/ LockHead(c) \/ WriteHeader(c) \/ WriteBody(c) \/ Finish(c)
        BY <1>t, <2>6 DEF Invoke, LockHead, WriteHeader, WriteBody, Finish, Take, Cancel
  <2> QED BY <1>t, <2>1, <2>2, <2>3, <2>4, <2>5, <2>6, OwnStep DEF Send, User
<1>1. ASSUME NEW c \in Calls, pc'[c] \in {"idle", "lock", "register"}
      PROVE  result'[c] = "none" /\ ~InDone(c)'
  <2>1. pc[c] \in {"idle", "lock", "register"}
        BY <1>m, <1>1
  <2>2. rcall # c /\ c \notin PendingCalls /\ result[c] = "none" /\ ~InDone(c)
        BY <2>1, Unregistered
  <2>3. ~Take(c) /\ ~Cancel(c)
        BY <1>t, <2>1, <2>2, TakenDone DEF Cancel
  <2>4. ~Finish(c) /\ ~Notify(c)
        BY <1>t, <2>1, <2>2 DEF Finish, Notify, LeftPending
  <2> QED BY <1>t, <2>2, <2>3, <2>4, OwnStep, WhoCompletes
<1>2. ASSUME NEW c \in Calls, pc'[c] = "done" PROVE err'[c] # "none"
      BY <1>t, <1>m, <1>2, WhoErrs DEF Progress
<1>3. ASSUME NEW c \in Calls, pc'[c] = "cancel" PROVE c \in SyncCalls
      BY <1>t, <1>m, <1>3 DEF Progress
<1>4. ASSUME NEW c \in Calls, c \in SyncCalls, pc'[c] # "returned" PROVE result'[c] = "none"
      BY <1>t, <1>m, <1>4, OwnStep DEF Progress
<1> QED BY <1>1, <1>2, <1>3, <1>4 DEF Progress

\* A pending call has not ended, except by terminateCalls.
LEMMA PendingWaits ==
    ASSUME IInv, NEW c \in Calls, c \in PendingCalls, err[c] # "lost"
    PROVE  /\ result[c] = "none" /\ ~InDone(c) /\ pc[c] # "done" /\ rcall # c
           /\ seqOf[c] # 0
<1>1. result[c] = "none" /\ ~InDone(c) /\ pc[c] # "done"
      BY DEF IInv, LeftPending, Gone
<1>2. rcall # c
      BY WireAssumption DEF IInv, Held
<1>3. seqOf[c] # 0
      BY DEF IInv, Accounted, PendingByNumber, PendingCalls, TypeOK
<1> QED BY <1>1, <1>2, <1>3

\* The entry removeCall finds is the call's own.
LEMMA FoundOwn ==
    ASSUME Accounted, NEW c \in Calls, LookedUp(seqOf[c]) # NoCall
    PROVE  c \in PendingCalls
<1>1. seqOf[c] \in DOMAIN pending
      BY DEF LookedUp
<1>2. pending[seqOf[c]] \in Calls
      BY <1>1 DEF Accounted, TypeOK
<1>3. pending[seqOf[c]] = c
      BY <1>1, <1>2, OwnEntry
<1> QED BY <1>1, <1>3 DEF PendingCalls

LEMMA ClientLeftPending ==
    ASSUME IInv, Client
    PROVE  LeftPending'
<1>t. Accounted /\ Progress /\ LeftPending /\ Held /\ TypeOK
      BY DEF IInv, Accounted
<1>1. ASSUME NEW c \in Calls, Gone(c)', err'[c] # "lost", c \in PendingCalls'
      PROVE  FALSE
  <2>1. CASE c \notin PendingCalls
    <3>1. Register(c) /\ pc'[c] = "header" /\ UNCHANGED doneCh
          BY <1>t, <1>1, <2>1, WhoPends
    <3>2. result[c] = "none" /\ ~InDone(c) /\ UNCHANGED result
          BY <3>1, Unregistered DEF Register
    <3> QED BY <1>1, <3>1, <3>2 DEF Gone, InDone
  <2>2. CASE c \in PendingCalls /\ err[c] = "lost"
    <3>1. rcv \in {"notify", "exited"} /\ pc[c] # "register"
          BY <1>t, <2>2, Unregistered DEF LeftPending
    <3>2. Remove(c)
          BY <1>t, <1>1, <2>2, <3>1, WhoErrs DEF Register, ReadErrorBody, ReadReply
    <3> QED BY <1>t, <1>1, <3>2, DeletedOwn DEF Remove
  <2>3. CASE c \in PendingCalls /\ err[c] # "lost"
    <3>1. result[c] = "none" /\ ~InDone(c) /\ pc[c] # "done" /\ rcall # c
          BY <2>3, PendingWaits
    <3>2. result'[c] = "none"
      <4>1. ~Cancel(c)
            BY <1>t, <1>1, DeletedOwn DEF Cancel
      <4> QED BY <1>t, <3>1, <4>1, OwnStep, TakenDone
    <3>3. ~InDone(c)'
          BY <1>t, <1>1, <3>1, WhoCompletes DEF Finish, Notify, TypeOK
    <3>4. pc'[c] = "done"
          BY <1>1, <3>2, <3>3 DEF Gone
    <3>5. Register(c) \/ Remove(c)
          BY <1>t, <3>1, <3>4, OwnStep DEF Send, User, Invoke, LockHead, WriteHeader, WriteBody,
             Finish, Take, Expire, Cancel, TypeOK
    <3>6. ~Register(c)
          BY <2>3, Unregistered DEF Register
    <3> QED BY <1>t, <1>1, <3>5, <3>6, DeletedOwn DEF Remove
  <2> QED BY <2>1, <2>2, <2>3
<1>2. ASSUME NEW c \in Calls, err'[c] = "lost" PROVE rcv' \in {"notify", "exited"}
  <2>1. CASE err[c] = "lost"
    <3>1. rcv \in {"notify", "exited"}
          BY <1>t, <2>1 DEF LeftPending
    <3> QED BY <3>1 DEF Client, Send, User, Invoke, LockHead, Register, WriteHeader, WriteBody,
            Remove, Finish, Take, Expire, Cancel, Close, Receive, ReadHeader, LookUp, DiscardBody,
            ReadErrorBody, ReadReply, CompleteCall, TerminateBegin, Notify, TerminateEnd, rcvVars
  <2>2. CASE err[c] # "lost"
        BY <1>t, <1>2, <2>2, WhoErrs DEF Notify
  <2> QED BY <2>1, <2>2
<1>3. ASSUME rcv' = "notify", NEW c \in todo' PROVE c \in PendingCalls' /\ err'[c] # "lost"
  <2>1. CASE TerminateBegin
    <3>1. c \in PendingCalls' /\ c \in PendingCalls /\ UNCHANGED err /\ rcv = "terminate"
          BY <1>3, <2>1 DEF TerminateBegin, PendingCalls, doneVars
    <3>2. c \in Calls
          BY <1>t, <3>1 DEF TypeOK, PendingCalls
    <3> QED BY <1>t, <3>1, <3>2 DEF LeftPending
  <2>2. CASE ~TerminateBegin
    <3>1. rcv = "notify" /\ c \in todo /\ ~Notify(c)
          BY <1>3, <2>2 DEF Client, Send, User, Invoke, LockHead, Register, WriteHeader, WriteBody,
             Remove, Finish, Take, Expire, Cancel, Close, Receive, ReadHeader, LookUp, DiscardBody,
             ReadErrorBody, ReadReply, CompleteCall, Notify, TerminateEnd, rcvVars
    <3>2. c \in Calls /\ c \in PendingCalls /\ err[c] # "lost"
          BY <1>t, <3>1 DEF TypeOK, LeftPending
    <3>3. c \in PendingCalls'
          BY <1>t, <3>1, <3>2, WhoPends DEF MuFree
    <3> QED BY <1>t, <3>1, <3>2, <3>3, WhoErrs
  <2> QED BY <2>1, <2>2
<1> QED BY <1>1, <1>2, <1>3 DEF LeftPending

LEMMA ClientHeld ==
    ASSUME IInv, Client
    PROVE  Held'
<1>t. Accounted /\ Progress /\ LeftPending /\ Held /\ TypeOK /\ rcall \in Calls \cup {NoCall}
      BY DEF IInv, Accounted, TypeOK
<1> SUFFICES ASSUME NEW d \in Calls, rcall' = d
             PROVE  /\ rcv' \in {"body", "done", "panicked"}
                    /\ d \notin PendingCalls' /\ ~InDone(d)'
                    /\ pc'[d] # "done" /\ result'[d] \in {"none", "timeout"}
                    /\ seqOf'[d] # 0
    BY DEF Held
<1>1. CASE LookUp
  <2>1. /\ d = LookedUp(rhead.seq) /\ pending' = Delete(rhead.seq) /\ rcv = "lookup"
        /\ rcv' = "body" /\ UNCHANGED <<pc, seqOf, result, doneCh>>
        BY <1>1 DEF LookUp, callVars, doneVars
  <2>2. rhead.seq \in DOMAIN pending /\ d = pending[rhead.seq]
        BY <2>1, WireAssumption DEF LookedUp
  <2>3. d \in PendingCalls /\ seqOf[d] = rhead.seq
        BY <1>t, <2>2 DEF PendingCalls, Accounted, PendingByNumber
  <2>4. err[d] # "lost"
        BY <1>t, <2>1 DEF LeftPending
  <2>5. /\ result[d] = "none" /\ ~InDone(d) /\ pc[d] # "done" /\ seqOf[d] # 0
        BY <2>3, <2>4, PendingWaits
  <2>6. d \notin PendingCalls'
        BY <1>t, <2>1, <2>3, DeletedOwn
  <2>7. ~InDone(d)'
        BY <2>1, <2>5 DEF InDone
  <2> QED BY <2>1, <2>5, <2>6, <2>7
<1>2. CASE ~LookUp
  <2>1. rcall = d /\ ~CompleteCall
        BY <1>2, WireAssumption DEF Client, Send, User, Invoke, LockHead, Register, WriteHeader, WriteBody,
           Remove, Finish, Take, Expire, Cancel, Close, Receive, ReadHeader, DiscardBody,
           ReadErrorBody, ReadReply, CompleteCall, TerminateBegin, Notify, TerminateEnd, rcvVars
  <2>2. /\ rcv \in {"body", "done", "panicked"}
        /\ d \notin PendingCalls /\ ~InDone(d)
        /\ pc[d] # "done" /\ result[d] \in {"none", "timeout"}
        /\ seqOf[d] # 0
        BY <1>t, <2>1 DEF Held
  <2>3. rcv' \in {"body", "done", "panicked"}
    <3>1. rcv = "body" => ~DiscardBody
          BY <2>1, WireAssumption DEF DiscardBody
    <3> QED BY <1>2, <2>1, <2>2, <3>1 DEF Client, Send, User, Invoke, LockHead, Register, WriteHeader,
           WriteBody, Remove, Finish, Take, Expire, Cancel, Close, Receive, ReadHeader, DiscardBody,
           ReadErrorBody, ReadReply, TerminateBegin, Notify, TerminateEnd, rcvVars
  <2>4. ~Register(d)
        BY <2>2, Unregistered DEF Register
  <2>5. d \notin PendingCalls' /\ seqOf'[d] # 0
        BY <1>t, <2>2, <2>4, WhoPends, OwnStep
  <2>6. ~InDone(d)'
        BY <1>t, <2>1, <2>2, WhoCompletes DEF Finish, Notify
  <2>7. result'[d] \in {"none", "timeout"}
    <3>1. Cancel(d) => result'[d] = "timeout"
          BY <1>t DEF Cancel, TypeOK
    <3> QED BY <1>t, <2>2, <3>1, OwnStep, TakenDone
  <2>8. pc'[d] # "done"
    <3>1. ASSUME Remove(d) PROVE pc'[d] # "done"
          BY <1>t, <2>2, <3>1, FoundOwn DEF Remove, TypeOK
    <3> QED BY <1>t, <2>2, <2>4, <3>1, OwnStep DEF Send, User, Invoke, LockHead, WriteHeader,
            WriteBody, Finish, Take, Expire, Cancel, TypeOK
  <2> QED BY <2>3, <2>5, <2>6, <2>7, <2>8
<1> QED BY <1>1, <1>2

\* The result receive decodes is the result of the call it has looked up.
LEMMA DecodesOwn ==
    ASSUME IInv, ReadReply
    PROVE  /\ rcall \in Calls /\ rcv = "body"
           /\ \/ UNCHANGED reply /\ err'[rcall] = "decode"
              \/ /\ reply' = [reply EXCEPT ![rcall] = rcall] /\ UNCHANGED err
                 /\ rpos \in DOMAIN s2c /\ s2c[rpos].kind = "header"
                 /\ s2c[rpos].call = rcall /\ ~s2c[rpos].failed
<1>t. /\ Position /\ Pairs /\ Numbered /\ Held /\ s2c \in Seq(Unit) /\ rpos \in 0 .. Len(s2c)
      /\ rcall \in Calls \cup {NoCall} /\ err \in [Calls -> ErrStates] /\ Len(s2c) \in Nat
      BY DEF IInv, Accounted, TypeOK
<1>1. rcall \in Calls /\ rcv = "body"
      BY <1>t DEF ReadReply
<1>2. CASE UNCHANGED reply /\ err' = [err EXCEPT ![rcall] = "decode"]
      BY <1>t, <1>1, <1>2
<1>3. CASE Ready(s2c, rpos, "body") /\ reply' = [reply EXCEPT ![rcall] = s2c[rpos + 1].call] /\ UNCHANGED err
  <2>1. /\ rpos \in DOMAIN s2c /\ rhead = s2c[rpos] /\ s2c[rpos].kind = "header"
        /\ seqOf[rcall] = rhead.seq /\ ~s2c[rpos].failed
        BY <1>t, <1>1 DEF Position, ReadReply
  <2>2. rpos # Len(s2c)
        BY <1>t, <1>3 DEF Ready
  <2>3. /\ s2c[rpos].call \in Calls
        /\ s2c[rpos].seq = seqOf[s2c[rpos].call] /\ s2c[rpos].seq # 0
        /\ s2c[rpos + 1].call = s2c[rpos].call
        BY <1>t, <2>1, <2>2 DEF Pairs
  <2>4. rcall = s2c[rpos].call
        BY <1>t, <1>1, <2>1, <2>3 DEF Numbered
  <2> QED BY <1>1, <1>3, <2>1, <2>3, <2>4
<1> QED BY <1>1, <1>2, <1>3 DEF ReadReply

\* Once a call is being completed without error, nobody writes its error.
LEMMA ErrorSettled ==
    ASSUME IInv, Client, NEW c \in Calls, err[c] = "none",
           result[c] = "ok" \/ InDone(c) \/ (rcv = "done" /\ rcall = c)
    PROVE  UNCHANGED err[c]
<1> SUFFICES ASSUME err'[c] # err[c] PROVE FALSE
    OBVIOUS
<1>t. Accounted /\ Progress /\ LeftPending /\ Held /\ err[c] # "lost"
      BY DEF IInv
<1>1. c \notin PendingCalls
      BY <1>t DEF LeftPending, Held, Gone
<1>2. CASE Register(c)
      BY <1>2, Unregistered DEF Register
<1>3. CASE Remove(c) /\ LookedUp(seqOf[c]) # NoCall
      BY <1>t, <1>1, <1>3, FoundOwn
<1>4. CASE Notify(c)
      BY <1>t, <1>1, <1>4 DEF Notify, LeftPending
<1>5. CASE rcall = c /\ (ReadErrorBody \/ ReadReply)
      BY <1>t, <1>5 DEF Held, ReadErrorBody, ReadReply
<1> QED BY <1>t, <1>2, <1>3, <1>4, <1>5, WhoErrs

LEMMA WhoReplies ==
    ASSUME IInv, Client, NEW c \in Calls
    PROVE  \/ UNCHANGED reply[c]
           \/ /\ ReadReply /\ rcall = c /\ reply'[c] = c
              /\ rpos \in DOMAIN s2c /\ s2c[rpos].kind = "header"
              /\ s2c[rpos].call = c /\ ~s2c[rpos].failed
<1>1. CASE ReadReply
      BY <1>1, DecodesOwn DEF IInv, Accounted, TypeOK
<1>2. CASE ~ReadReply
  <2>1. UNCHANGED reply
        BY <1>2 DEF Client, Send, User, Invoke, LockHead, Register, WriteHeader, WriteBody, Remove,
           Finish, Take, Expire, Cancel, Close, Receive, ReadHeader, LookUp, DiscardBody,
           ReadErrorBody, CompleteCall, TerminateBegin, Notify, TerminateEnd, doneVars
  <2> QED BY <2>1
<1> QED BY <1>1, <1>2

LEMMA ClientReplies ==
    ASSUME IInv, Client
    PROVE  Replies'
<1>t. /\ Accounted /\ Progress /\ Held /\ Replies /\ TypeOK /\ rcall \in Calls \cup {NoCall}
      /\ reply \in [Calls -> Calls \cup {NoCall}] /\ err \in [Calls -> ErrStates]
      /\ result \in [Calls -> ErrStates \cup {"ok", "timeout"}]
      BY DEF IInv, Accounted, TypeOK
<1>k. ASSUME NEW c \in Calls, reply[c] = c PROVE reply'[c] = c
      BY <1>k, WhoReplies
<1>1. ASSUME NEW c \in Calls PROVE reply'[c] \in {NoCall, c}
      BY <1>t, WhoReplies DEF Replies
<1>2. ASSUME NEW c \in Calls, InDone(c)', err'[c] = "none" PROVE reply'[c] = c
  <2>1. err[c] = "none"
        BY <1>t, <1>2, WhoErrs
  <2>2. CASE InDone(c)
        BY <1>t, <1>k, <2>1, <2>2 DEF Replies
  <2>3. CASE Finish(c)
        BY <1>t, <2>1, <2>3 DEF Progress, Finish
  <2>4. CASE Notify(c)
        BY <1>t, <1>2, <2>4 DEF Notify
  <2>5. CASE CompleteCall /\ rcall = c
        BY <1>t, <1>k, <2>1, <2>5 DEF Replies, CompleteCall
  <2> QED BY <1>t, <1>2, <2>2, <2>3, <2>4, <2>5, WhoCompletes
<1>3. ASSUME NEW c \in Calls, rcv' = "done", rcall' = c, err'[c] = "none" PROVE reply'[c] = c
  <2>1. err[c] = "none"
        BY <1>t, <1>3, WhoErrs
  <2>2. CASE ReadErrorBody
        BY <1>t, <1>3, <2>2 DEF ReadErrorBody
  <2>3. CASE ReadReply
    <3>1. rcall = c
          BY <1>3, <2>3 DEF ReadReply
    <3> QED BY <1>3, <2>3, <3>1, <1>t, DecodesOwn
  <2>4. CASE ~ReadErrorBody /\ ~ReadReply
    <3>1. rcv = "done" /\ rcall = c
          BY <1>3, <2>4 DEF Client, Send, User, Invoke, LockHead, Register, WriteHeader, WriteBody,
             Remove, Finish, Take, Expire, Cancel, Close, Receive, ReadHeader, LookUp, DiscardBody,
             CompleteCall, TerminateBegin, Notify, TerminateEnd, rcvVars
    <3> QED BY <1>t, <1>k, <2>1, <3>1 DEF Replies
  <2> QED BY <2>2, <2>3, <2>4
<1>4. ASSUME NEW c \in Calls, result'[c] = "ok" PROVE err'[c] = "none" /\ reply'[c] = c
  <2>1. CASE result[c] = "ok"
    <3>1. err[c] = "none" /\ reply[c] = c
          BY <1>t, <2>1 DEF Replies
    <3> QED BY <1>k, <2>1, <3>1, ErrorSettled
  <2>2. CASE result[c] # "ok"
    <3>1. Take(c)
      <4>1. ~Cancel(c)
            BY <1>t, <1>4 DEF Cancel
      <4> QED BY <1>t, <1>4, <2>2, <4>1, OwnStep
    <3>2. UNCHANGED <<err, reply>> /\ err[c] = "none"
          BY <1>t, <1>4, <3>1 DEF Take, ErrStates
    <3>3. reply[c] = c
          BY <1>t, <3>1, <3>2, TakenDone DEF Replies
    <3> QED BY <3>2, <3>3
  <2> QED BY <2>1, <2>2
<1> QED BY <1>1, <1>2, <1>3, <1>4 DEF Replies

LEMMA ClientStep ==
    ASSUME IInv, Client
    PROVE  IInv'
<1>1. Accounted'
      BY ClientOrphan DEF IInv
<1> QED BY <1>1, ClientSender, ClientLabels, ClientFrames, ClientPairs, ClientPosition,
        ClientProgress, ClientLeftPending, ClientHeld, ClientReplies DEF IInv

-----------------------------------------------------------------------------
(* The steps of the peer.                                                  *)

LEMMA PeerPairs ==
    ASSUME IInv, PeerMoves
    PROVE  Pairs'
<1>t. /\ Pairs /\ s2c \in Seq(Unit) /\ Len(s2c) \in Nat /\ DOMAIN s2c = 1 .. Len(s2c)
      /\ UNCHANGED seqOf /\ (sEnd => sEnd')
      BY DEF IInv, Accounted, TypeOK, PeerMoves, callVars
<1>1. CASE UNCHANGED s2c
      BY <1>t, <1>1 DEF Pairs
<1>2. ASSUME NEW d \in Calls, ResponseAdded(d), s2c' \in Seq(Unit) PROVE Pairs'
  <2> DEFINE Paired(i) ==
         IF s2c'[i].kind = "header"
         THEN /\ s2c'[i].call \in Calls
              /\ s2c'[i].seq = seqOf[s2c'[i].call] /\ s2c'[i].seq # 0
              /\ IF i = Len(s2c') THEN sEnd'
                 ELSE /\ s2c'[i + 1].kind = "body"
                      /\ ~s2c'[i].failed => s2c'[i + 1].call = s2c'[i].call
         ELSE i > 1 /\ s2c'[i - 1].kind = "header"
  <2>1. ASSUME NEW i \in DOMAIN s2c PROVE Paired(i)
    <3>1. s2c'[i] = s2c[i] /\ i \in 1 .. Len(s2c) /\ i # Len(s2c') /\ ~sEnd
          BY <1>t, <1>2 DEF ResponseAdded
    <3>2. CASE s2c[i].kind = "header"
      <4>1. i # Len(s2c)
            BY <1>t, <3>1, <3>2 DEF Pairs
      <4>2. i + 1 \in DOMAIN s2c
            BY <1>t, <3>1, <4>1
      <4>3. s2c'[i + 1] = s2c[i + 1]
            BY <1>2, <4>2 DEF ResponseAdded
      <4> QED BY <1>t, <3>1, <3>2, <4>1, <4>3 DEF Pairs
    <3>3. CASE s2c[i].kind # "header"
      <4>1. i > 1 /\ s2c[i - 1].kind = "header"
            BY <1>t, <3>3 DEF Pairs
      <4>2. i - 1 \in DOMAIN s2c
            BY <1>t, <3>1, <4>1
      <4>3. s2c'[i - 1] = s2c[i - 1]
            BY <1>2, <4>2 DEF ResponseAdded
      <4> QED BY <3>1, <3>3, <4>1, <4>3
    <3> QED BY <3>2, <3>3
  <2>2. Paired(Len(s2c) + 1)
        BY <1>t, <1>2 DEF ResponseAdded
  <2>3. ASSUME Len(s2c') = Len(s2c) + 2 PROVE Paired(Len(s2c) + 2)
        BY <1>t, <1>2, <2>3 DEF ResponseAdded
  <2>4. \A i \in DOMAIN s2c' :
            i \in DOMAIN s2c \/ i = Len(s2c) + 1 \/ (Len(s2c') = Len(s2c) + 2 /\ i = Len(s2c) + 2)
        BY <1>t, <1>2 DEF ResponseAdded
  <2>5. \A i \in DOMAIN s2c' : Paired(i)
    <3> HIDE DEF Paired
    <3> QED BY <2>1, <2>2, <2>3, <2>4
  <2> QED BY <1>t, <2>5 DEF Pairs
<1> QED BY <1>1, <1>2, ResponsesGrow DEF IInv, Accounted

LEMMA PeerStep ==
    ASSUME IInv, PeerMoves
    PROVE  IInv'
<1>1. UNCHANGED <<callVars, tableVars, doneVars, bufVars, rcvVars, c2s>>
      BY DEF PeerMoves
<1>2. Accounted'
      BY PeerOrphan DEF IInv
<1>3. Sender' /\ Labels'
      BY <1>1 DEF IInv, Sender, Labels, callVars, bufVars
<1>4. RequestFrames'
      BY <1>1 DEF IInv, RequestFrames, PeerMoves
<1>5. Position'
  <2>1. /\ \A i \in DOMAIN s2c : s2c'[i] = s2c[i]
        /\ Len(s2c) <= Len(s2c') /\ s2c' \in Seq(Unit) /\ s2c \in Seq(Unit) /\ rpos \in 0 .. Len(s2c)
        /\ Len(s2c) \in Nat /\ Len(s2c') \in Nat
        BY ResponsesGrow DEF IInv, Accounted, TypeOK
  <2>2. UNCHANGED <<rcv, rpos, rhead, rcall, rerr, seqOf>>
        BY <1>1 DEF rcvVars, callVars
  <2>3. \/ rpos = 0 /\ rpos \notin DOMAIN s2c
        \/ rpos \in DOMAIN s2c /\ rpos \in DOMAIN s2c' /\ s2c'[rpos] = s2c[rpos]
        BY <2>1
  <2> QED BY <2>2, <2>3 DEF IInv, Position
<1>6. Progress' /\ LeftPending' /\ Held' /\ Replies'
  <2>1. UNCHANGED <<pc, seqOf, result, pending, err, reply, doneCh, rcv, rcall, todo>>
        BY <1>1 DEF callVars, tableVars, doneVars, rcvVars
  <2> QED BY <2>1 DEF IInv, Progress, LeftPending, Held, Replies, Gone, InDone, PendingCalls
<1> QED BY <1>2, <1>3, <1>4, <1>5, <1>6, PeerPairs DEF IInv

LEMMA AnswerMoves ==
    ASSUME IInv, NEW i \in DOMAIN c2s, Answerable(i)
    PROVE  c2s[i].call \in Calls /\ c2s[i].seq = seqOf[c2s[i].call] /\ seqOf[c2s[i].call] # 0
    BY DEF Answerable, IInv, Labels

LEMMA PeerIsPeer ==
    ASSUME IInv, Peer
    PROVE  PeerMoves
<1>t. cEnd \in BOOLEAN /\ sEnd \in BOOLEAN /\ seqOf \in [Calls -> Nat]
      BY DEF IInv, Accounted, TypeOK
<1>h. ASSUME NEW d \in Calls, NEW f \in BOOLEAN
      PROVE  /\ HeaderUnit(seqOf[d], d, f) \in Unit
             /\ HeaderUnit(seqOf[d], d, f).kind = "header" /\ HeaderUnit(seqOf[d], d, f).call = d
             /\ HeaderUnit(seqOf[d], d, f).seq = seqOf[d] /\ (f => HeaderUnit(seqOf[d], d, f).failed)
      BY <1>t, UnitTypes DEF HeaderUnit
<1>1. CASE PeerAnswer
  <2>1. PICK i \in DOMAIN c2s, failed \in BOOLEAN :
           /\ Answerable(i)
           /\ s2c' = IF cEnd THEN s2c
                     ELSE s2c \o <<HeaderUnit(c2s[i].seq, c2s[i].call, failed),
                                   BodyUnit(IF failed THEN NoCall ELSE c2s[i].call)>>
        BY <1>1 DEF PeerAnswer
  <2>2. c2s[i].call \in Calls /\ c2s[i].seq = seqOf[c2s[i].call] /\ seqOf[c2s[i].call] # 0 /\ ~sEnd
        BY <2>1, AnswerMoves DEF Answerable
  <2>3. PICK d \in Calls : d = c2s[i].call
        BY <2>2
  <2>4. PICK body \in Calls \cup {NoCall} : body = IF failed THEN NoCall ELSE d
        OBVIOUS
  <2>5. PICK x \in Unit : /\ x = HeaderUnit(seqOf[d], d, failed)
                          /\ x.kind = "header" /\ x.call = d /\ x.seq = seqOf[d] /\ (failed => x.failed)
        BY <1>h, Zenon
  <2>6. /\ UNCHANGED s2c \/ s2c' = s2c \o <<x, BodyUnit(body)>>
        /\ x.seq # 0 /\ (x.failed \/ body = d)
        BY <2>1, <2>2, <2>3, <2>4, <2>5
  <2>7. UNCHANGED <<callVars, tableVars, doneVars, bufVars, rcvVars, c2s, cEnd, sEnd>>
        BY <1>1 DEF PeerAnswer
  <2> QED BY <1>t, <2>2, <2>5, <2>6, <2>7, Zenon DEF PeerMoves
<1>2. CASE PeerTruncate
  <2>1. PICK i \in DOMAIN c2s :
           /\ Answerable(i)
           /\ s2c' = IF cEnd THEN s2c
                     ELSE Append(s2c, HeaderUnit(c2s[i].seq, c2s[i].call, FALSE))
        BY <1>2 DEF PeerTruncate
  <2>2. c2s[i].call \in Calls /\ c2s[i].seq = seqOf[c2s[i].call] /\ seqOf[c2s[i].call] # 0 /\ ~sEnd
        BY <2>1, AnswerMoves DEF Answerable
  <2>3. PICK d \in Calls : d = c2s[i].call
        BY <2>2
  <2>4. PICK x \in Unit : /\ x = HeaderUnit(seqOf[d], d, FALSE)
                          /\ x.kind = "header" /\ x.call = d /\ x.seq = seqOf[d]
        BY <1>h, Zenon
  <2>5. /\ UNCHANGED s2c \/ s2c' = Append(s2c, x)
        /\ x.seq # 0 /\ d \in Calls \cup {NoCall} /\ (x.failed \/ d = d)
        BY <2>1, <2>2, <2>3, <2>4
  <2>6. UNCHANGED <<callVars, tableVars, doneVars, bufVars, rcvVars, c2s, cEnd>> /\ sEnd' = TRUE
        BY <1>2 DEF PeerTruncate
  <2> QED BY <1>t, <2>2, <2>4, <2>5, <2>6, Zenon DEF PeerMoves
<1>3. CASE PeerClose
      BY <1>t, <1>3 DEF PeerClose, PeerMoves
<1> QED BY <1>1, <1>2, <1>3 DEF Peer

LEMMA InvStep == IInv /\ [Next]_vars => IInv'
<1> SUFFICES ASSUME IInv, [Next]_vars PROVE IInv'
    OBVIOUS
<1>1. CASE Client
      BY <1>1, ClientStep
<1>2. CASE Peer
      BY <1>2, PeerIsPeer, PeerStep
<1>3. CASE UNCHANGED vars
  <2>1. PeerMoves
        BY <1>3 DEF vars, wireVars, PeerMoves, IInv, Accounted, TypeOK
  <2> QED BY <2>1, PeerStep
<1> QED BY <1>1, <1>2, <1>3 DEF Next

LEMMA Invariance == Spec => []IInv
    BY InvInit, InvStep, PTL DEF Spec

-----------------------------------------------------------------------------
(* What follows, for any set of calls, channels and faults.                *)

\* Every variable of the client keeps to its type: the table of pending calls
\* holds only numbers already given out, and receive never reads past the log.
THEOREM TypeCorrect == Spec => []TypeOK
<1>1. IInv => TypeOK
      BY DEF IInv, Accounted
<1> QED BY <1>1, Invariance, PTL

\* No caller waits for a completion nobody will send (client.go, send, receive
\* and terminateCalls).
THEOREM NeverOrphaned == Spec => []NoOrphan
<1>1. IInv => NoOrphan
      BY DEF IInv, Accounted
<1> QED BY <1>1, Invariance, PTL

\* headMutex keeps header and arguments of a request together, and the requests
\* in the order of their numbers.
THEOREM FramedRequests == Spec => []RequestFrames
<1>1. IInv => RequestFrames
      BY DEF IInv
<1> QED BY <1>1, Invariance, PTL

\* However responses are reordered, delayed, duplicated or cut off, receive
\* takes a header only for a header.
THEOREM InSync == Spec => []StreamInSync
<1>1. IInv => StreamInSync
  <2> SUFFICES ASSUME IInv, rcv = "header", rpos < Len(s2c), s2c[rpos + 1].kind # "header"
               PROVE  FALSE
      BY DEF StreamInSync
  <2>1. /\ Pairs /\ Position /\ rpos \in 0 .. Len(s2c) /\ s2c \in Seq(Unit) /\ Len(s2c) \in Nat
        BY DEF IInv, Accounted, TypeOK
  <2>2. rpos + 1 \in DOMAIN s2c /\ (rpos + 1) - 1 = rpos
        BY <2>1
  <2>3. rpos + 1 > 1 /\ s2c[rpos].kind = "header"
        BY <2>1, <2>2 DEF Pairs
  <2> QED BY <2>1, <2>3 DEF Position
<1> QED BY <1>1, Invariance, PTL

\* A Reply receives only its own call's result, and success means it has.
THEOREM OwnReply == Spec => []MatchedReply
<1>1. IInv => MatchedReply
      BY DEF IInv, Replies, MatchedReply
<1> QED BY <1>1, Invariance, PTL

\* No call that has ended is left in pending before terminateCalls.
THEOREM NothingLeaks == Spec => []NoLeak
<1>1. IInv => NoLeak
      BY DEF IInv, Accounted, ShutdownFirst, LeftPending, Gone, NoLeak
<1> QED BY <1>1, Invariance, PTL

\* Once a call has succeeded, neither a late response nor terminateCalls
\* touches its Error, its Reply or what its user has seen.
THEOREM SuccessIsFinal == Spec => OkIsFinal
<1> DEFINE Final == \A c \in Calls : result[c] = "ok" =>
                       reply'[c] = reply[c] /\ err'[c] = "none" /\ result'[c] = "ok"
<1>1. ASSUME IInv, Client, NEW c \in Calls, result[c] = "ok"
      PROVE  reply'[c] = reply[c] /\ err'[c] = "none" /\ result'[c] = "ok"
  <2>1. /\ Accounted /\ Progress /\ err[c] = "none" /\ reply[c] = c /\ UNCHANGED err[c]
        BY <1>1, ErrorSettled DEF IInv, Replies
  <2>2. reply'[c] = c \/ reply'[c] = NoCall
        BY <1>1, ClientReplies DEF Replies
  <2>3. result'[c] = "ok"
    <3>1. ~Cancel(c)
      <4> SUFFICES ASSUME Cancel(c) PROVE FALSE
          OBVIOUS
      <4>1. pc[c] = "cancel" /\ c \in SyncCalls
            BY <2>1 DEF Cancel, Progress
      <4> QED BY <1>1, <2>1, <4>1 DEF Progress
    <3>2. Take(c) => result'[c] = "ok"
          BY <2>1 DEF Take, Accounted, TypeOK
    <3> QED BY <1>1, <2>1, <3>1, <3>2, OwnStep
  <2>4. reply'[c] = c
        BY <1>1, <2>1, <2>3, ClientReplies DEF Replies
  <2> QED BY <2>1, <2>3, <2>4
<1>2. ASSUME IInv, UNCHANGED <<reply, err, result>> PROVE Final
      BY <1>2 DEF IInv, Replies
<1>3. ASSUME IInv, Peer PROVE UNCHANGED <<reply, err, result>>
      BY <1>3 DEF Peer, PeerAnswer, PeerTruncate, PeerClose, callVars, doneVars
<1>4. IInv /\ [Next]_vars => [Final]_vars
      BY <1>1, <1>2, <1>3 DEF Next
<1>5. IInv /\ [Next]_vars => [\A c \in Calls : result[c] = "ok" =>
                                 /\ reply'[c] = reply[c]
                                 /\ err'[c] = "none"
                                 /\ result'[c] = "ok"]_vars
      BY <1>4
<1> HIDE DEF Final
<1> QED BY <1>5, Invariance, PTL DEF Spec, OkIsFinal
=============================================================================
