--------------------------- MODULE XClientProofs ---------------------------
(***************************************************************************)
(* Theorems about XClient, for any servers, users and timeouts: the pool   *)
(* of connections is never out of step with the connections that are open, *)
(* the first error of a Broadcast is kept and cancels the other calls, and *)
(* its mutex, once a goroutine has left it locked, is lost for the others. *)
(***************************************************************************)
EXTENDS XClient, FiniteSetTheorems, TLAPS

Dials(t) == pc[t] \in {"dialing", "awaiting"}

\* A task has a server by the time it dials.
Located == \A t \in Tasks : at[t] \in Servers \/ (t \in Users /\ pc[t] \in {"start", "ended"})

\* xc.mu is held exactly by the task that dials, and the map has no client for
\* the server it dials.
Locked == \A t \in Tasks : /\ Dials(t) <=> xmu = t
                           /\ Dials(t) => clients[at[t]] = "none"

\* Some task waits for the client of a connection to s.
Awaited(s) == \E t \in Tasks : pc[t] = "awaiting" /\ at[t] = s

Counted ==
    \A s \in Servers : open[s] = (IF Awaited(s) THEN 1 ELSE 0)
                                 + (IF clients[s] = "none" THEN 0 ELSE 1)

\* The inductive invariant: at most one connection beside those of the map, by
\* virtue of xc.mu.
IInv == TypeOK /\ Located /\ Locked /\ Counted

LEMMA IInvInit == Init => IInv
<1> SUFFICES ASSUME Init PROVE IInv
  OBVIOUS
<1> USE XClientAssumption DEF Init, Tasks
<1>1. TypeOK BY DEF TypeOK
<1>2. Located BY DEF Located
<1>3. Locked BY DEF Locked, Dials
<1>4. Counted BY DEF Counted, Awaited
<1> QED BY <1>1, <1>2, <1>3, <1>4 DEF IInv

\* Every step keeps it.
LEMMA IInvNext == IInv /\ [Next]_vars => IInv'
<1> SUFFICES ASSUME IInv, [Next]_vars PROVE IInv'
  OBVIOUS
<1> USE XClientAssumption DEF IInv, castVars, poolVars, Tasks
<1>1. ASSUME NEW t \in Tasks, Choose(t) PROVE IInv'
  <2> USE <1>1 DEF Choose
  <2>1. TypeOK' BY DEF TypeOK, Counted, Located, Locked, Dials, Awaited
  <2>2. Located' BY DEF TypeOK, Located
  <2>3. Locked' BY DEF TypeOK, Located, Locked, Dials
  <2>4. Counted' BY DEF TypeOK, Located, Locked, Dials, Counted, Awaited
  <2> QED BY <2>1, <2>2, <2>3, <2>4
<1>2. ASSUME NEW t \in Tasks, Dial(t) PROVE IInv'
  <2> USE <1>2 DEF Dial
  <2>1. TypeOK' BY DEF TypeOK, Counted, Located, Locked, Dials, Awaited
  <2>2. Located' BY DEF TypeOK, Located
  <2>3. Locked' BY DEF TypeOK, Located, Locked, Dials
  <2>4. Counted' BY DEF TypeOK, Located, Locked, Dials, Counted, Awaited
  <2> QED BY <2>1, <2>2, <2>3, <2>4
<1>3. ASSUME NEW t \in Tasks, Connect(t) PROVE IInv'
  <2> USE <1>3 DEF Connect, After
  <2>1. TypeOK' BY DEF TypeOK, Counted, Located, Locked, Dials, Awaited
  <2>2. Located' BY DEF TypeOK, Located
  <2>3. Locked' BY DEF TypeOK, Located, Locked, Dials
  <2>4. Counted' BY DEF TypeOK, Located, Locked, Dials, Counted, Awaited
  <2> QED BY <2>1, <2>2, <2>3, <2>4
<1>4. ASSUME NEW t \in Tasks, Make(t) PROVE IInv'
  <2> USE <1>4 DEF Make
  <2>1. TypeOK' BY DEF TypeOK, Counted, Located, Locked, Dials, Awaited
  <2>2. Located' BY DEF TypeOK, Located
  <2>3. Locked' BY DEF TypeOK, Located, Locked, Dials
  <2>4. Counted' BY DEF TypeOK, Located, Locked, Dials, Counted, Awaited
  <2> QED BY <2>1, <2>2, <2>3, <2>4
<1>5. ASSUME NEW t \in Tasks, DialReturns(t) PROVE IInv'
  <2> USE <1>5 DEF DialReturns, After
  <2>1. TypeOK' BY DEF TypeOK, Counted, Located, Locked, Dials, Awaited
  <2>2. Located' BY DEF TypeOK, Located
  <2>3. Locked' BY DEF TypeOK, Located, Locked, Dials
  <2>4. Counted' BY DEF TypeOK, Located, Locked, Dials, Counted, Awaited
  <2> QED BY <2>1, <2>2, <2>3, <2>4
<1>6. ASSUME NEW t \in Tasks, DialTimesOut(t) PROVE IInv'
  <2> USE <1>6 DEF DialTimesOut, After
  <2>1. TypeOK' BY DEF TypeOK, Counted, Located, Locked, Dials, Awaited
  <2>2. Located' BY DEF TypeOK, Located
  <2>3. Locked' BY DEF TypeOK, Located, Locked, Dials
  <2>4. Counted' BY DEF TypeOK, Located, Locked, Dials, Counted, Awaited
  <2> QED BY <2>1, <2>2, <2>3, <2>4
<1>7. ASSUME NEW t \in Tasks, CallReturns(t) PROVE IInv'
  <2> USE <1>7 DEF CallReturns, After, Cancelled
  <2>1. TypeOK' BY DEF TypeOK, Counted, Located, Locked, Dials, Awaited
  <2>2. Located' BY DEF TypeOK, Located
  <2>3. Locked' BY DEF TypeOK, Located, Locked, Dials
  <2>4. Counted' BY DEF TypeOK, Located, Locked, Dials, Counted, Awaited
  <2> QED BY <2>1, <2>2, <2>3, <2>4
<1>8. ASSUME NEW s \in Servers, LockToCheck(s) PROVE IInv'
  <2> USE <1>8 DEF LockToCheck
  <2>1. TypeOK' BY DEF TypeOK, Counted, Located, Locked, Dials, Awaited
  <2>2. Located' BY DEF TypeOK, Located
  <2>3. Locked' BY DEF TypeOK, Located, Locked, Dials
  <2>4. Counted' BY DEF TypeOK, Located, Locked, Dials, Counted, Awaited
  <2> QED BY <2>1, <2>2, <2>3, <2>4
<1>9. ASSUME NEW s \in Servers, Check(s) PROVE IInv'
  <2> USE <1>9 DEF Check
  <2>1. TypeOK' BY DEF TypeOK, Counted, Located, Locked, Dials, Awaited
  <2>2. Located' BY DEF TypeOK, Located
  <2>3. Locked' BY DEF TypeOK, Located, Locked, Dials
  <2>4. Counted' BY DEF TypeOK, Located, Locked, Dials, Counted, Awaited
  <2> QED BY <2>1, <2>2, <2>3, <2>4
<1>10. ASSUME NEW s \in Servers, Report(s) PROVE IInv'
  <2> USE <1>10 DEF Report
  <2>1. TypeOK' BY DEF TypeOK, Counted, Located, Locked, Dials, Awaited
  <2>2. Located' BY DEF TypeOK, Located
  <2>3. Locked' BY DEF TypeOK, Located, Locked, Dials
  <2>4. Counted' BY DEF TypeOK, Located, Locked, Dials, Counted, Awaited
  <2> QED BY <2>1, <2>2, <2>3, <2>4
<1>11. ASSUME NEW s \in Servers, ClientDies(s) PROVE IInv'
  <2> USE <1>11 DEF ClientDies
  <2>1. TypeOK' BY DEF TypeOK, Counted, Located, Locked, Dials, Awaited
  <2>2. Located' BY DEF TypeOK, Located
  <2>3. Locked' BY DEF TypeOK, Located, Locked, Dials
  <2>4. Counted' BY DEF TypeOK, Located, Locked, Dials, Counted, Awaited
  <2> QED BY <2>1, <2>2, <2>3, <2>4
<1>12. ASSUME Return PROVE IInv'
  <2> USE <1>12 DEF Return
  <2>1. TypeOK' BY DEF TypeOK, Counted, Located, Locked, Dials, Awaited
  <2>2. Located' BY DEF TypeOK, Located
  <2>3. Locked' BY DEF TypeOK, Located, Locked, Dials
  <2>4. Counted' BY DEF TypeOK, Located, Locked, Dials, Counted, Awaited
  <2> QED BY <2>1, <2>2, <2>3, <2>4
<1>13. ASSUME Close PROVE IInv'
  <2> USE <1>13 DEF Close
  <2>1. TypeOK' BY DEF TypeOK, Counted, Located, Locked, Dials, Awaited
  <2>2. Located' BY DEF TypeOK, Located
  <2>3. Locked' BY DEF TypeOK, Located, Locked, Dials
  <2>4. Counted' BY DEF TypeOK, Located, Locked, Dials, Counted, Awaited
  <2> QED BY <2>1, <2>2, <2>3, <2>4
<1>15. ASSUME NEW t \in Tasks, Sent(t) PROVE IInv'
  <2> USE <1>15 DEF Sent
  <2>1. TypeOK' BY DEF TypeOK, Counted, Located, Locked, Dials, Awaited
  <2>2. Located' BY DEF TypeOK, Located
  <2>3. Locked' BY DEF TypeOK, Located, Locked, Dials
  <2>4. Counted' BY DEF TypeOK, Located, Locked, Dials, Counted, Awaited
  <2> QED BY <2>1, <2>2, <2>3, <2>4
<1>14. CASE UNCHANGED vars
  BY <1>14 DEF vars, TypeOK, Located, Locked, Counted, Dials, Awaited
<1> QED BY <1>1, <1>2, <1>3, <1>4, <1>5, <1>6, <1>7, <1>8, <1>9, <1>10, <1>11, <1>12, <1>13, <1>14, <1>15 DEF Next

LEMMA Invariance == Spec => []IInv
<1>1. IInv /\ [Next]_vars => IInv'
  BY IInvNext
<1> QED BY IInvInit, <1>1, PTL DEF Spec

\* The type invariant.
THEOREM TypeCorrect == Spec => []TypeOK
<1>1. IInv => TypeOK
  BY DEF IInv
<1> QED BY Invariance, <1>1, PTL

\* Under xc.mu at most one task waits for a client, whatever its server is, so
\* that counting those tasks is asking whether there is one.
LEMMA CountedMeans == IInv => NoConnectionLost
<1> SUFFICES ASSUME IInv, NEW s \in Servers
             PROVE  open[s] = Cardinality({t \in Tasks : pc[t] = "awaiting" /\ at[t] = s})
                              + IF clients[s] = "none" THEN 0 ELSE 1
  BY DEF NoConnectionLost
<1> DEFINE waiting == {t \in Tasks : pc[t] = "awaiting" /\ at[t] = s}
<1>1. CASE Awaited(s)
  <2>1. PICK t \in Tasks : pc[t] = "awaiting" /\ at[t] = s
    BY <1>1 DEF Awaited
  <2>2. waiting = {t}
    BY <2>1 DEF IInv, Locked, Dials
  <2>3. Cardinality(waiting) = 1
    BY <2>2, FS_Singleton
  <2> QED BY <1>1, <2>3 DEF IInv, Counted
<1>2. CASE ~Awaited(s)
  <2>1. waiting = {}
    BY <1>2 DEF Awaited
  <2>2. Cardinality(waiting) = 0
    BY <2>1, FS_EmptySet
  <2> QED BY <1>2, <2>2 DEF IInv, Counted
<1> QED BY <1>1, <1>2

\* However dials, their timeouts, Close and dying clients interleave, for any
\* number of servers and users: every open connection is the one in the map or
\* the one that the holder of xc.mu is dialling.
THEOREM ConnectionsKept == Spec => []NoConnectionLost
<1> QED BY Invariance, CountedMeans, PTL

-----------------------------------------------------------------------------
(* The errors of a Broadcast. *)

\* The error that is kept is one of a goroutine that has reported, a failed call
\* is about to be reported unless an error has been kept, Broadcast returns after
\* all of its goroutines, the calls are cancelled as the error is kept, and none
\* fails for being cancelled before.
Reported ==
    /\ e # Nobody => pc[e] = "ended" /\ outcome[e] = "error"
    /\ \A s \in Servers : Failed(s) =>
          pc[s] = "report" \/ (pc[s] = "ended" /\ e # Nobody)
    /\ \A s \in Servers : outcome[s] = "cancelled" => cancelled
    /\ main = "returned" => \A s \in Servers : pc[s] = "ended"
    /\ cancelled <=> e # Nobody

LEMMA ReportedInit == Init => Reported
  BY XClientAssumption DEF Init, Reported, Failed, Tasks

LEMMA ReportedNext == TypeOK /\ Reported /\ [Next]_vars => Reported'
<1> SUFFICES ASSUME TypeOK, Reported, [Next]_vars PROVE Reported'
  OBVIOUS
<1> USE XClientAssumption DEF TypeOK, Reported, Failed, castVars, poolVars, Tasks
<1>1. ASSUME NEW t \in Tasks, Choose(t) PROVE Reported'
  BY <1>1 DEF Choose
<1>2. ASSUME NEW t \in Tasks, Dial(t) PROVE Reported'
  BY <1>2 DEF Dial
<1>3. ASSUME NEW t \in Tasks, Connect(t) PROVE Reported'
  BY <1>3 DEF Connect, After
<1>4. ASSUME NEW t \in Tasks, Make(t) PROVE Reported'
  BY <1>4 DEF Make
<1>5. ASSUME NEW t \in Tasks, DialReturns(t) PROVE Reported'
  BY <1>5 DEF DialReturns, After
<1>6. ASSUME NEW t \in Tasks, DialTimesOut(t) PROVE Reported'
  BY <1>6 DEF DialTimesOut, After
<1>7. ASSUME NEW t \in Tasks, CallReturns(t) PROVE Reported'
  BY <1>7 DEF CallReturns, After, Cancelled
<1>8. ASSUME NEW s \in Servers, LockToCheck(s) PROVE Reported'
  BY <1>8 DEF LockToCheck
<1>9. ASSUME NEW s \in Servers, Check(s) PROVE Reported'
  BY <1>9 DEF Check
<1>10. ASSUME NEW s \in Servers, Report(s) PROVE Reported'
  BY <1>10 DEF Report
<1>11. ASSUME NEW s \in Servers, ClientDies(s) PROVE Reported'
  BY <1>11 DEF ClientDies
<1>12. ASSUME Return PROVE Reported'
  BY <1>12 DEF Return
<1>13. ASSUME Close PROVE Reported'
  BY <1>13 DEF Close
<1>15. ASSUME NEW t \in Tasks, Sent(t) PROVE Reported'
  BY <1>15 DEF Sent
<1>14. CASE UNCHANGED vars
  BY <1>14 DEF vars
<1> QED BY <1>1, <1>2, <1>3, <1>4, <1>5, <1>6, <1>7, <1>8, <1>9, <1>10, <1>11, <1>12, <1>13, <1>14, <1>15 DEF Next

LEMMA ReportedAlways == Spec => []Reported
<1>1. TypeOK /\ Reported /\ [Next]_vars => Reported'
  BY ReportedNext
<1> QED BY TypeCorrect, ReportedInit, <1>1, PTL DEF Spec

\* Broadcast fails if a call has failed, and with an error that a call gave,
\* whatever order the calls return in.
THEOREM FailuresReported == Spec => []FailureReported
<1>1. TypeOK /\ Reported => FailureReported
  BY XClientAssumption DEF TypeOK, Reported, FailureReported, Failed, Tasks
<1> QED BY TypeCorrect, ReportedAlways, <1>1, PTL

\* The error kept is the first one: given by a call itself, before the others were
\* cancelled because of it, for any number of servers.
THEOREM CauseReported == Spec => []ErrorIsCause
<1>1. Reported => ErrorIsCause
  BY DEF Reported, ErrorIsCause
<1> QED BY ReportedAlways, <1>1, PTL

-----------------------------------------------------------------------------
(* The mutex of a Broadcast. *)

\* A goroutine that checks holds mu, and mu is held by one that checks or that
\* has ended because there was a reply.
Held ==
    /\ \A s \in Servers : pc[s] = "check" => mu = s
    /\ mu # Nobody => pc[mu] = "check" \/ (pc[mu] = "ended" /\ replyDone)

\* A goroutine has ended with mu locked, and another one has not ended.
Stuck == mu # Nobody /\ pc[mu] = "ended" /\ \E s \in Servers : pc[s] # "ended"

LEMMA HeldInit == Init => Held
  BY XClientAssumption DEF Init, Held, Tasks

\* What one step does to the mutex: it is held as Held says, a failed Broadcast
\* keeps it free, and a stuck one never gets it back.
LEMMA HeldNext ==
    TypeOK /\ Reported /\ Held /\ [Next]_vars =>
       Held' /\ (Settled => Settled' /\ e' = e) /\ (Stuck => Stuck')
<1> DEFINE Kept == Held' /\ (Settled => Settled' /\ e' = e) /\ (Stuck => Stuck')
<1> SUFFICES ASSUME TypeOK, Reported, Held, [Next]_vars PROVE Kept
  OBVIOUS
<1> USE XClientAssumption DEF TypeOK, Held, Settled, Stuck, castVars, poolVars, Tasks
<1>1. ASSUME NEW t \in Tasks, Choose(t) PROVE Kept
  BY <1>1 DEF Choose
<1>2. ASSUME NEW t \in Tasks, Dial(t) PROVE Kept
  BY <1>2 DEF Dial
<1>3. ASSUME NEW t \in Tasks, Connect(t) PROVE Kept
  BY <1>3 DEF Connect, After
<1>4. ASSUME NEW t \in Tasks, Make(t) PROVE Kept
  BY <1>4 DEF Make
<1>5. ASSUME NEW t \in Tasks, DialReturns(t) PROVE Kept
  BY <1>5 DEF DialReturns, After
<1>6. ASSUME NEW t \in Tasks, DialTimesOut(t) PROVE Kept
  BY <1>6 DEF DialTimesOut, After
<1>7. ASSUME NEW t \in Tasks, CallReturns(t) PROVE Kept
  BY <1>7 DEF CallReturns, After, Cancelled
<1>8. ASSUME NEW s \in Servers, LockToCheck(s) PROVE Kept
  BY <1>8 DEF LockToCheck
<1>9. ASSUME NEW s \in Servers, Check(s) PROVE Kept
  BY <1>9 DEF Check
<1>10. ASSUME NEW s \in Servers, Report(s) PROVE Kept
  BY <1>10 DEF Report, Failed
<1>11. ASSUME NEW s \in Servers, ClientDies(s) PROVE Kept
  BY <1>11 DEF ClientDies
<1>12. ASSUME Return PROVE Kept
  BY <1>12 DEF Return
<1>13. ASSUME Close PROVE Kept
  BY <1>13 DEF Close
<1>15. ASSUME NEW t \in Tasks, Sent(t) PROVE Kept
  BY <1>15 DEF Sent
<1>14. CASE UNCHANGED vars
  BY <1>14 DEF vars
<1> QED BY <1>1, <1>2, <1>3, <1>4, <1>5, <1>6, <1>7, <1>8, <1>9, <1>10, <1>11, <1>12, <1>13, <1>14, <1>15 DEF Next

LEMMA HeldAlways == Spec => []Held
<1>1. TypeOK /\ Reported /\ Held /\ [Next]_vars => Held'
  BY HeldNext
<1> QED BY TypeCorrect, ReportedAlways, HeldInit, <1>1, PTL DEF Spec

\* What FailFast rests on: once a call has failed and no goroutine is before or
\* in its first critical section, mu stays free between the others' reports, the
\* error stays, and the context of all the calls is cancelled.
THEOREM FailureSettles ==
    Spec => [](Settled => cancelled) /\ [][Settled => Settled' /\ e' = e]_vars
<1>1. Reported => (Settled => cancelled)
  BY DEF Reported, Settled
<1>2. TypeOK /\ Reported /\ Held /\ [Next]_vars => [Settled => Settled' /\ e' = e]_vars
  BY HeldNext
<1> QED BY TypeCorrect, ReportedAlways, HeldAlways, <1>1, <1>2, PTL DEF Spec

\* The early return of Broadcast's goroutine, with mu locked, happens only after
\* a reply (or with a nil reply); and if any goroutine has not ended by then,
\* Broadcast never returns, for any number of servers.
THEOREM LeakIsForEver ==
    Spec => /\ [](Stuck => replyDone /\ main = "waiting")
            /\ [][Stuck => Stuck']_vars
<1>1. TypeOK /\ Reported /\ Held => (Stuck => replyDone /\ main = "waiting")
  BY DEF TypeOK, Reported, Held, Stuck
<1>2. TypeOK /\ Reported /\ Held /\ [Next]_vars => [Stuck => Stuck']_vars
  BY HeldNext
<1> QED BY TypeCorrect, ReportedAlways, HeldAlways, <1>1, <1>2, PTL DEF Spec
=============================================================================
