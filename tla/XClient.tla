------------------------------ MODULE XClient ------------------------------
(***************************************************************************)
(* geerpc/xclient/xclient.go: one XClient.  Tasks are the goroutines that  *)
(* go through XClient.call: those of one Broadcast, identified with the    *)
(* server they call, and the users of XClient.Call.  They share the map of *)
(* clients, protected by xc.mu, which dial holds while dialTimeout of      *)
(* geerpc/client.go connects and a goroutine of its own makes the client.  *)
(* Broadcast has a mutex of its own for the first error e and replyDone,   *)
(* and waits for its goroutines (wg).                                      *)
(*                                                                         *)
(* Client.Call has two intervals (RpcClient has its steps): "sending", in  *)
(* Client.send, which looks at no context and may wait for headMutex or in *)
(* a write, and "waiting", in the select on the context and on Done.       *)
(* An outcome "cancelled" is an error too: that of a call which Broadcast  *)
(* itself has cancelled.  The value behind the caller's replyv is never written: *)
(* Broadcast assigns its own variable, so only replyDone is kept.          *)
(***************************************************************************)
EXTENDS Naturals, FiniteSets

CONSTANTS Servers,   \* what Discovery.GetAll has returned to Broadcast
          Users,     \* goroutines that use XClient.Call
          Nobody,    \* nil: no error, mutex free, no server chosen
          NilReply,  \* does the caller of Broadcast pass a nil replyv ?
          Bounded    \* is Option.ConnectTimeout more than 0 ?

Tasks == Servers \cup Users

ASSUME XClientAssumption ==
    /\ Servers \cap Users = {}
    /\ Nobody \notin Tasks
    /\ NilReply \in BOOLEAN /\ Bounded \in BOOLEAN

VARIABLES pc,         \* where each task is
          at,         \* the server each task calls
          outcome,    \* what XClient.call returned
          mu,         \* the goroutine of Broadcast holding its mu
          e,          \* the server whose error Broadcast reports
          replyDone,  \* Broadcast has got a reply
          cancelled,  \* Broadcast has called cancel
          main,       \* Broadcast: "waiting" in wg.Wait or "returned"
          xmu,        \* the task holding xc.mu across XDial
          maker,      \* the goroutine dialTimeout has started for a task, and
                      \* what it has to send on its channel
          clients,    \* xc.clients: none, an alive client or a dead one
          open        \* how many connections to a server have not been closed

castVars == <<mu, e, replyDone, cancelled, main>>
poolVars == <<xmu, maker, clients, open>>
vars == <<pc, at, outcome, castVars, poolVars>>

Init ==
    /\ pc = [t \in Tasks |-> "start"]
    /\ at = [t \in Tasks |-> IF t \in Servers THEN t ELSE Nobody]
    /\ outcome = [t \in Tasks |-> "none"]
    /\ mu = Nobody /\ e = Nobody /\ cancelled = FALSE /\ main = "waiting"
    /\ replyDone = NilReply
    /\ xmu = Nobody
    /\ maker = [t \in Tasks |-> "none"]
    /\ clients = [s \in Servers |-> "none"]
    /\ open = [s \in Servers |-> 0]

-----------------------------------------------------------------------------
(* XClient.call. *)

\* XClient.Call: Discovery.Get chooses a server, or gives an error.
Choose(u) ==
    /\ u \in Users /\ pc[u] = "start"
    /\ \/ /\ \E s \in Servers : at' = [at EXCEPT ![u] = s]
          /\ pc' = [pc EXCEPT ![u] = "dial"]
          /\ UNCHANGED outcome
       \/ /\ outcome' = [outcome EXCEPT ![u] = "error"]
          /\ pc' = [pc EXCEPT ![u] = "ended"]
          /\ UNCHANGED at
    /\ UNCHANGED <<castVars, poolVars>>

\* Mutant: xc.mu is not held while connecting.
DialUnlocked(t) ==
    /\ pc[t] = "dial"
    /\ \/ /\ clients[at[t]] = "alive"
          /\ pc' = [pc EXCEPT ![t] = "sending"]
          /\ UNCHANGED <<xmu, clients, open>>
       \/ /\ clients[at[t]] # "alive"
          /\ clients' = [clients EXCEPT ![at[t]] = "none"]
          /\ open' = IF clients[at[t]] = "dead"
                     THEN [open EXCEPT ![at[t]] = @ - 1] ELSE open
          /\ pc' = [pc EXCEPT ![t] = "dialing"]
          /\ UNCHANGED xmu
    /\ UNCHANGED <<at, outcome, castVars, maker>>

\* dial under xc.mu: a client that is alive is used again; a dead one is closed
\* and removed, and then XDial starts with xc.mu held.
Dial(t) ==
    /\ pc[t] = "dial" /\ xmu = Nobody
    /\ \/ /\ clients[at[t]] = "alive"
          /\ pc' = [pc EXCEPT ![t] = "sending"]
          /\ UNCHANGED <<xmu, clients, open>>
       \/ /\ clients[at[t]] # "alive"
          /\ clients' = [clients EXCEPT ![at[t]] = "none"]
          /\ open' = IF clients[at[t]] = "dead"
                     THEN [open EXCEPT ![at[t]] = @ - 1] ELSE open
          /\ pc' = [pc EXCEPT ![t] = "dialing"]
          /\ xmu' = t
    /\ UNCHANGED <<at, outcome, castVars, maker>>

\* Where a task goes when XClient.call returns.
After(t) == IF t \in Servers THEN "report" ELSE "ended"

\* XDial and dialTimeout: the address, the option or net.DialTimeout is refused,
\* or the connection is open and a goroutine goes on to make the client.
Connect(t) ==
    /\ pc[t] = "dialing"
    /\ \/ /\ outcome' = [outcome EXCEPT ![t] = "error"]
          /\ pc' = [pc EXCEPT ![t] = After(t)]
          /\ xmu' = Nobody
          /\ UNCHANGED <<maker, open>>
       \/ /\ open' = [open EXCEPT ![at[t]] = @ + 1]
          /\ maker' = [maker EXCEPT ![t] = "making"]
          /\ pc' = [pc EXCEPT ![t] = "awaiting"]
          /\ UNCHANGED <<outcome, xmu>>
    /\ UNCHANGED <<at, castVars, clients>>

\* NewClient or NewHTTPClient ends, even after dialTimeout has given up: a client
\* whose receive runs, or an error (codec, CONNECT, Option).
Make(t) ==
    /\ maker[t] = "making"
    /\ \E result \in {"client", "error"} : maker' = [maker EXCEPT ![t] = result]
    /\ UNCHANGED <<pc, at, outcome, castVars, xmu, clients, open>>

\* dialTimeout receives the result; on an error the deferred function closes the
\* connection.  dial keeps a client in the map and releases xc.mu.
DialReturns(t) ==
    /\ pc[t] = "awaiting" /\ maker[t] \in {"client", "error"}
    /\ \/ /\ maker[t] = "client"
          /\ clients' = [clients EXCEPT ![at[t]] = "alive"]
          /\ pc' = [pc EXCEPT ![t] = "sending"]
          /\ UNCHANGED <<outcome, open>>
       \/ /\ maker[t] = "error"
          /\ outcome' = [outcome EXCEPT ![t] = "error"]
          /\ open' = [open EXCEPT ![at[t]] = @ - 1]
          /\ pc' = [pc EXCEPT ![t] = After(t)]
          /\ UNCHANGED clients
    /\ maker' = [maker EXCEPT ![t] = "none"]
    /\ xmu' = Nobody
    /\ UNCHANGED <<at, castVars>>

\* Mutant: the error is a variable of its own, and the deferred function, which
\* looks at the result err, does not close.
DialTimesOutOpen(t) ==
    /\ pc[t] = "awaiting" /\ Bounded
    /\ outcome' = [outcome EXCEPT ![t] = "error"]
    /\ pc' = [pc EXCEPT ![t] = After(t)]
    /\ xmu' = Nobody
    /\ UNCHANGED <<at, castVars, maker, clients, open>>

\* ConnectTimeout is over first: the connection is closed.  The goroutine that
\* makes the client is left alone, and blocks for ever when it sends.
DialTimesOut(t) ==
    /\ pc[t] = "awaiting" /\ Bounded
    /\ outcome' = [outcome EXCEPT ![t] = "error"]
    /\ open' = [open EXCEPT ![at[t]] = @ - 1]
    /\ pc' = [pc EXCEPT ![t] = After(t)]
    /\ xmu' = Nobody
    /\ UNCHANGED <<at, castVars, maker, clients>>

\* Client.send returns, and Client.Call comes to its select.
Sent(t) ==
    /\ pc[t] = "sending"
    /\ pc' = [pc EXCEPT ![t] = "waiting"]
    /\ UNCHANGED <<at, outcome, castVars, poolVars>>

\* The calls of Broadcast's goroutines share the context that it cancels.
Cancelled(t) == t \in Servers /\ cancelled

\* Mutant: a goroutine of Broadcast cancels before it takes mu to report.
CallReturnsCancels(t) ==
    /\ pc[t] = "waiting"
    /\ \E how \in {"ok", "error"} \cup {x \in {"cancelled"} : Cancelled(t)} :
          /\ outcome' = [outcome EXCEPT ![t] = how]
          /\ cancelled' = (cancelled \/ (t \in Servers /\ how = "error"))
    /\ pc' = [pc EXCEPT ![t] = After(t)]
    /\ UNCHANGED <<at, mu, e, replyDone, main, poolVars>>

\* The select: the response or the failure of the call, its context's end for a
\* reason of the user's (an "error" too), or Broadcast's cancel.
CallReturns(t) ==
    /\ pc[t] = "waiting"
    /\ \E how \in {"ok", "error"} \cup {x \in {"cancelled"} : Cancelled(t)} :
          outcome' = [outcome EXCEPT ![t] = how]
    /\ pc' = [pc EXCEPT ![t] = After(t)]
    /\ UNCHANGED <<at, castVars, poolVars>>

\* The connection to s breaks: receive ends and sets Client.shutdown.
ClientDies(s) ==
    /\ clients[s] = "alive"
    /\ clients' = [clients EXCEPT ![s] = "dead"]
    /\ UNCHANGED <<pc, at, outcome, castVars, xmu, maker, open>>

\* XClient.Close: every client of the map is closed and removed.
Close ==
    /\ xmu = Nobody /\ \E s \in Servers : clients[s] # "none"
    /\ clients' = [s \in Servers |-> "none"]
    /\ open' = [s \in Servers |-> IF clients[s] = "none" THEN open[s] ELSE open[s] - 1]
    /\ UNCHANGED <<pc, at, outcome, castVars, xmu, maker>>

-----------------------------------------------------------------------------
(* Broadcast, the goroutine of server s. *)

\* mu.Lock() at the start of the goroutine.
LockToCheck(s) ==
    /\ s \in Servers /\ pc[s] = "start" /\ mu = Nobody
    /\ mu' = s
    /\ pc' = [pc EXCEPT ![s] = "check"]
    /\ UNCHANGED <<at, outcome, e, replyDone, cancelled, main, poolVars>>

\* if replyDone { return }: the deferred wg.Done runs, mu stays locked.
Check(s) ==
    /\ pc[s] = "check"
    /\ \/ /\ replyDone
          /\ pc' = [pc EXCEPT ![s] = "ended"]
          /\ UNCHANGED mu
       \/ /\ ~replyDone
          /\ pc' = [pc EXCEPT ![s] = "dial"]
          /\ mu' = Nobody
    /\ UNCHANGED <<at, outcome, e, replyDone, cancelled, main, poolVars>>

\* XClient.call has returned an error to the goroutine of s.
Failed(s) == outcome[s] \in {"error", "cancelled"}

\* Mutant: e is assigned the result of every call.
ReportOverwrites(s) ==
    /\ pc[s] = "report" /\ mu = Nobody
    /\ e' = IF Failed(s) THEN s ELSE Nobody
    /\ cancelled' = (cancelled \/ (Failed(s) /\ e = Nobody))
    /\ replyDone' = (replyDone \/ outcome[s] = "ok")
    /\ pc' = [pc EXCEPT ![s] = "ended"]
    /\ UNCHANGED <<at, outcome, mu, main, poolVars>>

\* Mutant: the first reply cancels the other calls.
ReportCancelsAll(s) ==
    /\ pc[s] = "report" /\ mu = Nobody
    /\ e' = IF Failed(s) /\ e = Nobody THEN s ELSE e
    /\ cancelled' = TRUE
    /\ replyDone' = (replyDone \/ outcome[s] = "ok")
    /\ pc' = [pc EXCEPT ![s] = "ended"]
    /\ UNCHANGED <<at, outcome, mu, main, poolVars>>

\* Mutant: an error does not cancel the other calls.
ReportNoCancel(s) ==
    /\ pc[s] = "report" /\ mu = Nobody
    /\ e' = IF Failed(s) /\ e = Nobody THEN s ELSE e
    /\ UNCHANGED cancelled
    /\ replyDone' = (replyDone \/ outcome[s] = "ok")
    /\ pc' = [pc EXCEPT ![s] = "ended"]
    /\ UNCHANGED <<at, outcome, mu, main, poolVars>>

\* The second critical section: the first error is kept and cancels the
\* context of the other calls, the first success sets replyDone.
Report(s) ==
    /\ pc[s] = "report" /\ mu = Nobody
    /\ e' = IF Failed(s) /\ e = Nobody THEN s ELSE e
    /\ cancelled' = (cancelled \/ (Failed(s) /\ e = Nobody))
    /\ replyDone' = (replyDone \/ outcome[s] = "ok")
    /\ pc' = [pc EXCEPT ![s] = "ended"]
    /\ UNCHANGED <<at, outcome, mu, main, poolVars>>

\* wg.Wait() returns.
Return ==
    /\ main = "waiting" /\ \A s \in Servers : pc[s] = "ended"
    /\ main' = "returned"
    /\ UNCHANGED <<pc, at, outcome, mu, e, replyDone, cancelled, poolVars>>

-----------------------------------------------------------------------------
Next ==
    \/ \E t \in Tasks :
          \/ Choose(t) \/ Dial(t) \/ Connect(t) \/ Make(t)
          \/ DialReturns(t) \/ DialTimesOut(t) \/ Sent(t) \/ CallReturns(t)
    \/ \E s \in Servers : LockToCheck(s) \/ Check(s) \/ Report(s) \/ ClientDies(s)
    \/ Return \/ Close

Spec == Init /\ [][Next]_vars

\* Goroutines are scheduled, the mutexes are handed to those that keep asking,
\* and connecting ends, as does the wait for the client if Option.ConnectTimeout
\* bounds it: the server need not answer the goroutine that makes the client.
\* Nothing makes Client.send return.  In its select a call has to come back only
\* when its context is cancelled: what it does then needs Client.mu, which on a
\* client that is used through Client.Call alone nobody keeps.
Fairness ==
    /\ WF_vars(Return)
    /\ \A t \in Tasks :
          /\ SF_vars(Dial(t)) /\ WF_vars(Connect(t))
          /\ WF_vars(DialReturns(t) \/ DialTimesOut(t))
          /\ WF_vars(Cancelled(t) /\ CallReturns(t))
    /\ \A s \in Servers :
          SF_vars(LockToCheck(s)) /\ WF_vars(Check(s)) /\ SF_vars(Report(s))

FairSpec == Spec /\ Fairness

\* The same, for sends that end and services that always answer.
AnsweringSpec == FairSpec /\ \A t \in Tasks : WF_vars(Sent(t)) /\ WF_vars(CallReturns(t))

-----------------------------------------------------------------------------
(* Properties. *)

\* Every variable keeps to its type.
TypeOK ==
    /\ pc \in [Tasks -> {"start", "check", "dial", "dialing", "awaiting", "sending",
                     "waiting", "report", "ended"}]
    /\ at \in [Tasks -> Servers \cup {Nobody}]
    /\ outcome \in [Tasks -> {"none", "ok", "error", "cancelled"}]
    /\ mu \in Servers \cup {Nobody} /\ e \in Servers \cup {Nobody}
    /\ replyDone \in BOOLEAN /\ cancelled \in BOOLEAN
    /\ main \in {"waiting", "returned"}
    /\ xmu \in Tasks \cup {Nobody}
    /\ maker \in [Tasks -> {"none", "making", "client", "error"}]
    /\ clients \in [Servers -> {"none", "alive", "dead"}]
    /\ open \in [Servers -> Nat]

\* Every connection opened and not closed is the one in the map, or the one that
\* the task holding xc.mu waits for: however dial, Close, the death of clients,
\* errors and timeouts interleave, no two are kept to one server, and none is
\* left open by a dial that has failed.
NoConnectionLost ==
    \A s \in Servers :
       open[s] = Cardinality({t \in Tasks : pc[t] = "awaiting" /\ at[t] = s})
                 + IF clients[s] = "none" THEN 0 ELSE 1

\* "If the call fails on any server, the whole fails": Broadcast returns an
\* error if and only if a call has failed, in whatever order the calls return.
FailureReported ==
    main = "returned" => (e # Nobody <=> \E s \in Servers : Failed(s))

\* The error Broadcast returns is the cause: one a call has given by itself.
\* The calls that Broadcast cancels because of it fail as well, and race for the
\* same e, but never get there first; and a success cancels no other call.
ErrorIsCause == e # Nobody => outcome[e] = "error"

\* Once every goroutine of Broadcast is past its first critical section and one
\* call has failed, Broadcast returns, even if the other servers never answer,
\* neither a call nor the making of a client (if ConnectTimeout is set):
\* provided no Client.send blocks for ever, which no context interrupts.
SendsEnd == \A s \in Servers : []<>(pc[s] # "sending")
Settled ==
    /\ e # Nobody /\ mu = Nobody
    /\ \A s \in Servers : pc[s] \notin {"start", "check"}
FailFast == SendsEnd => (Settled ~> main = "returned")

\* "... until all service calls have returned" (Broadcast): then it returns.
Returns == <>(main = "returned")
=============================================================================
