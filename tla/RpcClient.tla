----------------------------- MODULE RpcClient -----------------------------
(***************************************************************************)
(* geerpc/client.go: one Client on one connection.  Each user goroutine    *)
(* that starts a call runs Client.send (registerCall, GobCodec.Write,      *)
(* removeCall, Call.done); one background goroutine runs Client.receive    *)
(* and, when that loop breaks, terminateCalls.                             *)
(*                                                                         *)
(* Two mutexes: headMutex is held for the whole of send; mu protects       *)
(* seq/pending/closing/shutdown and is held across a blocking operation    *)
(* only by terminateCalls (which sends on Done channels), so every other   *)
(* critical section of mu is one atomic step guarded by MuFree.            *)
(*                                                                         *)
(* The other end of the connection is the PeerXxx actions here; RpcServer  *)
(* takes their place in RpcConnection.                                     *)
(***************************************************************************)
EXTENDS RpcWire, Sequences, FiniteSets

CONSTANTS SyncCalls,   \* calls made with Client.Call; the others use Client.Go
          Deadlined,   \* synchronous calls whose context may be done
          BadArgs,     \* calls whose arguments gob may fail to encode
          OddReply,    \* calls whose reply is not an *int
          Chans,       \* Done channels
          DoneOf,      \* the Done channel of each call
          Cap,         \* the capacity of each Done channel
          Faults,      \* which of the ways to break the connection may happen
          Twice        \* calls the peer may answer twice; the others at most once

ASSUME ClientAssumption ==
    /\ SyncCalls \subseteq Calls
    /\ Deadlined \subseteq SyncCalls
    /\ DoneOf \in [Calls -> Chans]
    /\ Cap \in [Chans -> Nat \ {0}]     \* Go panics on an unbuffered channel
    /\ \A c \in SyncCalls, d \in Calls :  \* Call makes a channel of its own
          DoneOf[c] = DoneOf[d] => c = d
    /\ \A c \in SyncCalls : Cap[DoneOf[c]] = 1
    /\ Twice \subseteq Calls
    /\ Faults \subseteq {"userClose", "peerClose", "peerTruncate"}

VARIABLES
    pc,         \* where the goroutine of each call is inside send and Call
    headMutex,  \* the call whose send holds headMutex, or NoCall
    seq,        \* Client.seq
    pending,    \* Client.pending
    closing,    \* Client.closing
    shutdown,   \* Client.shutdown
    seqOf,      \* Call.Seq
    err,        \* Call.Error
    reply,      \* whose result is stored at Call.Reply
    doneCh,     \* contents of the Done channels
    result,     \* what Call returned, or the receiver of Done saw
    wbuf,       \* GobCodec.buf: values encoded and not flushed
    bufErr,     \* the sticky error of the bufio.Writer
    rcv,        \* where receive is
    rpos,       \* how much of s2c receive has consumed
    rhead,      \* receive: h
    rcall,      \* receive: call
    rerr,       \* receive: err # nil
    todo,       \* calls terminateCalls has still to complete
    c2s, s2c,   \* the two directions of the connection
    cEnd, sEnd  \* the client's, the server's end has been closed

callVars == <<pc, headMutex, seqOf, result>>
tableVars == <<seq, pending, closing, shutdown>>
doneVars == <<err, reply, doneCh>>
bufVars  == <<wbuf, bufErr>>
rcvVars  == <<rcv, rpos, rhead, rcall, rerr, todo>>
wireVars == <<c2s, s2c, cEnd, sEnd>>
vars == <<callVars, tableVars, doneVars, bufVars, rcvVars, wireVars>>

-----------------------------------------------------------------------------
(* Helpers. *)

MuFree == rcv # "notify"

\* registerCall and removeCall on the map: pending[s] = c; delete(pending, s).
Put(s, c) == [t \in DOMAIN pending \cup {s} |-> IF t = s THEN c ELSE pending[t]]
Delete(s) == [t \in DOMAIN pending \ {s} |-> pending[t]]
PendingCalls == {pending[s] : s \in DOMAIN pending}

\* The entry of the map, or nil.
LookedUp(s) == IF s \in DOMAIN pending THEN pending[s] ELSE NoCall

\* c.Done <- c: blocks while the channel is full.
SendDone(c) ==
    /\ Len(doneCh[DoneOf[c]]) < Cap[DoneOf[c]]
    /\ doneCh' = [doneCh EXCEPT ![DoneOf[c]] = Append(@, c)]

\* bufio.Writer.Flush to the connection.  What is written to a connection the
\* peer has closed is lost, with or without an error.
FlushOK(units) ==
    /\ ~cEnd
    /\ wbuf' = <<>>
    /\ c2s' = IF sEnd THEN c2s ELSE c2s \o units
    /\ UNCHANGED bufErr
FlushFails ==
    /\ cEnd \/ sEnd
    /\ wbuf' = <<>>
    /\ bufErr' = TRUE
    /\ UNCHANGED c2s

Init ==
    /\ pc = [c \in Calls |-> "idle"]
    /\ headMutex = NoCall
    /\ seq = 1
    /\ pending = [s \in {} |-> NoCall]
    /\ closing = FALSE /\ shutdown = FALSE
    /\ seqOf = [c \in Calls |-> 0]
    /\ err = [c \in Calls |-> "none"]
    /\ reply = [c \in Calls |-> NoCall]
    /\ doneCh = [ch \in Chans |-> <<>>]
    /\ result = [c \in Calls |-> "none"]
    /\ wbuf = <<>> /\ bufErr = FALSE
    /\ rcv = "header" /\ rpos = 0 /\ rhead = HeaderUnit(0, NoCall, FALSE)
    /\ rcall = NoCall /\ rerr = FALSE /\ todo = {}
    /\ c2s = <<>> /\ s2c = <<>> /\ cEnd = FALSE /\ sEnd = FALSE

-----------------------------------------------------------------------------
(* Client.send, in the goroutine of call c. *)

\* Call or Go is invoked and reaches headMutex.Lock.
Invoke(c) ==
    /\ pc[c] = "idle"
    /\ pc' = [pc EXCEPT ![c] = "lock"]
    /\ UNCHANGED <<headMutex, seqOf, result, tableVars, doneVars, bufVars,
                   rcvVars, wireVars>>

\* Mutant: send does not take headMutex.
LockHeadFree(c) ==
    /\ pc[c] = "lock"
    /\ headMutex' = c
    /\ pc' = [pc EXCEPT ![c] = "register"]
    /\ UNCHANGED <<seqOf, result, tableVars, doneVars, bufVars, rcvVars,
                   wireVars>>

LockHead(c) ==
    /\ pc[c] = "lock" /\ headMutex = NoCall
    /\ headMutex' = c
    /\ pc' = [pc EXCEPT ![c] = "register"]
    /\ UNCHANGED <<seqOf, result, tableVars, doneVars, bufVars, rcvVars,
                   wireVars>>

\* Mutant: registerCall does not look at shutdown.
RegisterBlind(c) ==
    /\ pc[c] = "register" /\ MuFree
    /\ \/ /\ closing
          /\ err' = [err EXCEPT ![c] = "shutdown"]
          /\ pc' = [pc EXCEPT ![c] = "done"]
          /\ UNCHANGED <<seqOf, seq, pending>>
       \/ /\ ~closing
          /\ seqOf' = [seqOf EXCEPT ![c] = seq]
          /\ seq' = seq + 1
          /\ pending' = Put(seq, c)
          /\ pc' = [pc EXCEPT ![c] = "header"]
          /\ UNCHANGED err
    /\ UNCHANGED <<headMutex, result, closing, shutdown, reply, doneCh, bufVars,
                   rcvVars, wireVars>>

\* Mutant: registerCall forgets c.seq++.
RegisterSameSeq(c) ==
    /\ pc[c] = "register" /\ MuFree
    /\ \/ /\ closing \/ shutdown
          /\ err' = [err EXCEPT ![c] = "shutdown"]
          /\ pc' = [pc EXCEPT ![c] = "done"]
          /\ UNCHANGED <<seqOf, seq, pending>>
       \/ /\ ~closing /\ ~shutdown
          /\ seqOf' = [seqOf EXCEPT ![c] = seq]
          /\ seq' = seq
          /\ pending' = Put(seq, c)
          /\ pc' = [pc EXCEPT ![c] = "header"]
          /\ UNCHANGED err
    /\ UNCHANGED <<headMutex, result, closing, shutdown, reply, doneCh, bufVars,
                   rcvVars, wireVars>>

\* registerCall; on ErrShutdown the call is completed at once.
Register(c) ==
    /\ pc[c] = "register" /\ MuFree
    /\ \/ /\ closing \/ shutdown
          /\ err' = [err EXCEPT ![c] = "shutdown"]
          /\ pc' = [pc EXCEPT ![c] = "done"]
          /\ UNCHANGED <<seqOf, seq, pending>>
       \/ /\ ~closing /\ ~shutdown
          /\ seqOf' = [seqOf EXCEPT ![c] = seq]
          /\ seq' = seq + 1
          /\ pending' = Put(seq, c)
          /\ pc' = [pc EXCEPT ![c] = "header"]
          /\ UNCHANGED err
    /\ UNCHANGED <<headMutex, result, closing, shutdown, reply, doneCh, bufVars,
                   rcvVars, wireVars>>

\* GobCodec.Write, first half: the shared header is filled in and encoded into
\* the buffer; the sticky error of an earlier flush makes that fail.
WriteHeader(c) ==
    /\ pc[c] = "header"
    /\ \/ /\ bufErr
          /\ pc' = [pc EXCEPT ![c] = "remove"]
          /\ UNCHANGED wbuf
       \/ /\ ~bufErr
          /\ wbuf' = Append(wbuf, HeaderUnit(seqOf[c], c, FALSE))
          /\ pc' = [pc EXCEPT ![c] = "body"]
    /\ UNCHANGED <<headMutex, seqOf, result, tableVars, doneVars, bufErr,
                   rcvVars, wireVars>>

\* GobCodec.Write, second half: encode the arguments and flush.  Arguments
\* that cannot be encoded leave the header alone in the stream, and the codec
\* closes the connection.
WriteBody(c) ==
    /\ pc[c] = "body"
    /\ \/ /\ FlushOK(Append(wbuf, BodyUnit(c)))
          /\ pc' = [pc EXCEPT ![c] = "sent"]
          /\ headMutex' = NoCall
          /\ UNCHANGED cEnd
       \/ /\ c \in BadArgs
          /\ FlushOK(wbuf)
          /\ cEnd' = TRUE
          /\ pc' = [pc EXCEPT ![c] = "remove"]
          /\ UNCHANGED headMutex
       \/ /\ FlushFails
          /\ pc' = [pc EXCEPT ![c] = "remove"]
          /\ UNCHANGED <<headMutex, cEnd>>
    /\ UNCHANGED <<seqOf, result, tableVars, doneVars, rcvVars, s2c, sEnd>>

\* Write failed: removeCall, and complete the call if it was still pending.
Remove(c) ==
    /\ pc[c] = "remove" /\ MuFree
    /\ pending' = Delete(seqOf[c])
    /\ \/ /\ LookedUp(seqOf[c]) # NoCall
          /\ err' = [err EXCEPT ![c] = "write"]
          /\ pc' = [pc EXCEPT ![c] = "done"]
          /\ UNCHANGED headMutex
       \/ /\ LookedUp(seqOf[c]) = NoCall
          /\ pc' = [pc EXCEPT ![c] = "sent"]
          /\ headMutex' = NoCall
          /\ UNCHANGED err
    /\ UNCHANGED <<seqOf, result, seq, closing, shutdown, reply, doneCh, bufVars,
                   rcvVars, wireVars>>

\* call.done() inside send, still under headMutex, and the return of send.
Finish(c) ==
    /\ pc[c] = "done"
    /\ SendDone(c)
    /\ pc' = [pc EXCEPT ![c] = "sent"]
    /\ headMutex' = NoCall
    /\ UNCHANGED <<seqOf, result, tableVars, err, reply, bufVars, rcvVars,
                   wireVars>>

-----------------------------------------------------------------------------
(* The rest of Client.Call, and the user of Client.Go. *)

\* <-Done.  Client.Call receives in its select, after send; the user of Go
\* may receive from its channel at any time.
Take(c) ==
    /\ doneCh[DoneOf[c]] # <<>> /\ Head(doneCh[DoneOf[c]]) = c
    /\ c \in SyncCalls => pc[c] = "sent"
    /\ doneCh' = [doneCh EXCEPT ![DoneOf[c]] = Tail(@)]
    /\ result' = [result EXCEPT ![c] = IF err[c] = "none" THEN "ok" ELSE err[c]]
    /\ pc' = IF c \in SyncCalls THEN [pc EXCEPT ![c] = "returned"] ELSE pc
    /\ UNCHANGED <<headMutex, seqOf, tableVars, err, reply, bufVars, rcvVars,
                   wireVars>>

\* select takes ctx.Done(), perhaps with Done ready too.
Expire(c) ==
    /\ c \in Deadlined /\ pc[c] = "sent"
    /\ pc' = [pc EXCEPT ![c] = "cancel"]
    /\ UNCHANGED <<headMutex, seqOf, result, tableVars, doneVars, bufVars,
                   rcvVars, wireVars>>

\* Mutant: Call returns on ctx.Done() without removeCall.
CancelKeeps(c) ==
    /\ pc[c] = "cancel" /\ MuFree
    /\ UNCHANGED pending
    /\ result' = [result EXCEPT ![c] = "timeout"]
    /\ pc' = [pc EXCEPT ![c] = "returned"]
    /\ UNCHANGED <<headMutex, seqOf, seq, closing, shutdown, doneVars, bufVars,
                   rcvVars, wireVars>>

\* removeCall(call.Seq) (Seq is 0 if the call was never registered), return.
Cancel(c) ==
    /\ pc[c] = "cancel" /\ MuFree
    /\ pending' = Delete(seqOf[c])
    /\ result' = [result EXCEPT ![c] = "timeout"]
    /\ pc' = [pc EXCEPT ![c] = "returned"]
    /\ UNCHANGED <<headMutex, seqOf, seq, closing, shutdown, doneVars, bufVars,
                   rcvVars, wireVars>>

\* Client.Close; a second Close only returns ErrShutdown.
Close ==
    /\ "userClose" \in Faults
    /\ MuFree /\ ~closing
    /\ closing' = TRUE
    /\ cEnd' = TRUE
    /\ UNCHANGED <<callVars, seq, pending, shutdown, doneVars, bufVars, rcvVars,
                   c2s, s2c, sEnd>>

-----------------------------------------------------------------------------
(* Client.receive.  Once either end is closed a read may fail even though    *)
(* values were sent: they may not have reached the decoder's buffer.         *)

ReadFails(kind) == cEnd \/ sEnd \/ Mismatch(s2c, rpos, kind)

ReadHeader ==
    /\ rcv = "header"
    /\ \/ /\ Ready(s2c, rpos, "header")
          /\ rhead' = s2c[rpos + 1]
          /\ rpos' = rpos + 1
          /\ rcv' = "lookup"
       \/ /\ ReadFails("header")
          /\ rcv' = "terminate"
          /\ UNCHANGED <<rhead, rpos>>
    /\ UNCHANGED <<callVars, tableVars, doneVars, bufVars, rcall, rerr, todo,
                   wireVars>>

\* Mutant: removeCall does not delete the entry.
LookUpKeeps ==
    /\ rcv = "lookup"
    /\ rcall' = LookedUp(rhead.seq)
    /\ UNCHANGED pending
    /\ rcv' = "body"
    /\ UNCHANGED <<callVars, seq, closing, shutdown, doneVars, bufVars, rpos,
                   rhead, rerr, todo, wireVars>>

\* Mutant: responses are taken to come back in the order of the requests.
LookUpAny ==
    /\ rcv = "lookup"
    /\ \E s \in DOMAIN pending :
          /\ \A t \in DOMAIN pending : s <= t
          /\ rcall' = pending[s]
          /\ pending' = Delete(s)
    /\ rcv' = "body"
    /\ UNCHANGED <<callVars, seq, closing, shutdown, doneVars, bufVars, rpos,
                   rhead, rerr, todo, wireVars>>

\* call := c.removeCall(h.Seq)
LookUp ==
    /\ rcv = "lookup"
    /\ rcall' = LookedUp(rhead.seq)
    /\ pending' = Delete(rhead.seq)
    /\ rcv' = "body"
    /\ UNCHANGED <<callVars, seq, closing, shutdown, doneVars, bufVars, rpos,
                   rhead, rerr, todo, wireVars>>

\* Mutant: the nil call is completed like any other.
DiscardBodyCompletes ==
    /\ rcv = "body" /\ rcall = NoCall
    /\ \/ /\ Ready(s2c, rpos, "body")
          /\ rpos' = rpos + 1
          /\ rcv' = "done"
       \/ /\ ReadFails("body")
          /\ rcv' = "terminate"
          /\ UNCHANGED rpos
    /\ UNCHANGED <<callVars, tableVars, doneVars, bufVars, rhead, rcall, rerr,
                   todo, wireVars>>

\* Mutant: the body of a stale response is left in the stream.
DiscardBodySkipped ==
    /\ rcv = "body" /\ rcall = NoCall
    /\ \/ /\ Ready(s2c, rpos, "body")
          /\ UNCHANGED rpos
          /\ rcv' = "header"
       \/ /\ ReadFails("body")
          /\ rcv' = "terminate"
          /\ UNCHANGED rpos
    /\ UNCHANGED <<callVars, tableVars, doneVars, bufVars, rhead, rcall, rerr,
                   todo, wireVars>>

\* case call == nil: the response is stale, its body is read and dropped.
DiscardBody ==
    /\ rcv = "body" /\ rcall = NoCall
    /\ \/ /\ Ready(s2c, rpos, "body")
          /\ rpos' = rpos + 1
          /\ rcv' = "header"
       \/ /\ ReadFails("body")
          /\ rcv' = "terminate"
          /\ UNCHANGED rpos
    /\ UNCHANGED <<callVars, tableVars, doneVars, bufVars, rhead, rcall, rerr,
                   todo, wireVars>>

\* case h.Error != "": the body is dropped, an error reading it ends the loop.
ReadErrorBody ==
    /\ rcv = "body" /\ rcall # NoCall /\ rhead.failed
    /\ err' = [err EXCEPT ![rcall] = "server"]
    /\ rcv' = "done"
    /\ \/ /\ Ready(s2c, rpos, "body")
          /\ rpos' = rpos + 1
          /\ rerr' = FALSE
       \/ /\ ReadFails("body")
          /\ rerr' = TRUE
          /\ UNCHANGED rpos
    /\ UNCHANGED <<callVars, tableVars, reply, doneCh, bufVars, rhead, rcall,
                   todo, wireVars>>

\* default: the body is decoded into call.Reply; the log statement that
\* follows asserts that Reply is an *int and panics, ending the process,
\* when it is not.
ReadReply ==
    /\ rcv = "body" /\ rcall # NoCall /\ ~rhead.failed
    /\ rcv' = IF rcall \in OddReply THEN "panicked" ELSE "done"
    /\ \/ /\ Ready(s2c, rpos, "body")
          /\ reply' = [reply EXCEPT ![rcall] = s2c[rpos + 1].call]
          /\ rpos' = rpos + 1
          /\ rerr' = FALSE
          /\ UNCHANGED err
       \/ /\ ReadFails("body")
          /\ err' = [err EXCEPT ![rcall] = "decode"]
          /\ rerr' = TRUE
          /\ UNCHANGED <<rpos, reply>>
    /\ UNCHANGED <<callVars, tableVars, doneCh, bufVars, rhead, rcall, todo,
                   wireVars>>

\* call.done() and the test of the loop.
CompleteCall ==
    /\ rcv = "done"
    /\ SendDone(rcall)
    /\ rcv' = IF rerr THEN "terminate" ELSE "header"
    /\ rcall' = NoCall
    /\ UNCHANGED <<callVars, tableVars, err, reply, bufVars, rpos, rhead, rerr,
                   todo, wireVars>>

\* Mutant: terminateCalls only sets shutdown.
TerminateSilent ==
    /\ rcv = "terminate"
    /\ shutdown' = TRUE
    /\ todo' = {}
    /\ rcv' = "notify"
    /\ UNCHANGED <<callVars, seq, pending, closing, doneVars, bufVars, rpos,
                   rhead, rcall, rerr, wireVars>>

\* terminateCalls takes mu and walks through pending, which it leaves as is.
TerminateBegin ==
    /\ rcv = "terminate"
    /\ shutdown' = TRUE
    /\ todo' = PendingCalls
    /\ rcv' = "notify"
    /\ UNCHANGED <<callVars, seq, pending, closing, doneVars, bufVars, rpos,
                   rhead, rcall, rerr, wireVars>>

\* One round of its loop, in any order.
Notify(c) ==
    /\ rcv = "notify" /\ c \in todo
    /\ err' = [err EXCEPT ![c] = "lost"]
    /\ SendDone(c)
    /\ todo' = todo \ {c}
    /\ UNCHANGED <<callVars, tableVars, reply, bufVars, rcv, rpos, rhead, rcall,
                   rerr, wireVars>>

TerminateEnd ==
    /\ rcv = "notify" /\ todo = {}
    /\ rcv' = "exited"
    /\ UNCHANGED <<callVars, tableVars, doneVars, bufVars, rpos, rhead, rcall,
                   rerr, todo, wireVars>>

-----------------------------------------------------------------------------
(* The peer: what any server may do with the requests it has received. *)

Answers(s) ==
    Cardinality({i \in DOMAIN s2c : s2c[i].kind = "header" /\ s2c[i].seq = s})

\* The request at position i of c2s has arrived whole and may be answered.
Answerable(i) ==
    /\ ~sEnd
    /\ c2s[i].kind = "header"
    /\ i + 1 \in DOMAIN c2s
    /\ Answers(c2s[i].seq) < IF c2s[i].call \in Twice THEN 2 ELSE 1

\* Answers in any order, right or in error; lost if the client has closed.
PeerAnswer ==
    /\ \E i \in DOMAIN c2s, failed \in BOOLEAN :
          /\ Answerable(i)
          /\ s2c' = IF cEnd THEN s2c
                    ELSE s2c \o <<HeaderUnit(c2s[i].seq, c2s[i].call, failed),
                                  BodyUnit(IF failed THEN NoCall
                                           ELSE c2s[i].call)>>
    /\ UNCHANGED <<callVars, tableVars, doneVars, bufVars, rcvVars, c2s, cEnd,
                   sEnd>>

\* A result gob cannot encode: the header goes out and the codec closes.
PeerTruncate ==
    /\ "peerTruncate" \in Faults
    /\ \E i \in DOMAIN c2s :
          /\ Answerable(i)
          /\ s2c' = IF cEnd THEN s2c
                    ELSE Append(s2c, HeaderUnit(c2s[i].seq, c2s[i].call, FALSE))
    /\ sEnd' = TRUE
    /\ UNCHANGED <<callVars, tableVars, doneVars, bufVars, rcvVars, c2s, cEnd>>

\* The server closes the connection, or the network drops it.
PeerClose ==
    /\ "peerClose" \in Faults /\ ~sEnd
    /\ sEnd' = TRUE
    /\ UNCHANGED <<callVars, tableVars, doneVars, bufVars, rcvVars, c2s, s2c,
                   cEnd>>

-----------------------------------------------------------------------------
Send(c) ==
    \/ Invoke(c) \/ LockHead(c) \/ Register(c) \/ WriteHeader(c)
    \/ WriteBody(c) \/ Remove(c) \/ Finish(c)

User(c) == Take(c) \/ Expire(c) \/ Cancel(c)

Receive ==
    \/ ReadHeader \/ LookUp \/ DiscardBody \/ ReadErrorBody \/ ReadReply
    \/ CompleteCall \/ TerminateBegin \/ TerminateEnd
    \/ \E c \in Calls : Notify(c)

Client ==
    \/ \E c \in Calls : Send(c) \/ User(c)
    \/ Receive
    \/ Close

Peer == PeerAnswer \/ PeerTruncate \/ PeerClose

\* A panic in receive ends the process: nothing follows.
Next == rcv # "panicked" /\ (Client \/ Peer)

Spec == Init /\ [][Next]_vars

\* The Go scheduler runs every goroutine that can run, and the users of Go
\* keep receiving from their channels.  Nothing is asked of the peer, of
\* Close or of deadlines, and no call has to be made.
Fairness ==
    /\ \A c \in Calls :
          /\ WF_vars(rcv # "panicked" /\ Send(c) /\ pc[c] # "idle")
          /\ WF_vars(rcv # "panicked" /\ (Take(c) \/ Cancel(c)))
    /\ WF_vars(Receive)

FairSpec == Spec /\ Fairness
-----------------------------------------------------------------------------
(* Properties. *)

Sending == {"register", "header", "body", "remove", "done"}
PcStates == Sending \cup {"idle", "lock", "sent", "cancel", "returned"}
RcvStates == {"header", "lookup", "body", "done", "terminate", "notify",
              "exited", "panicked"}
ErrStates == {"none", "shutdown", "write", "lost", "server", "decode"}

\* Every variable keeps to its type.
TypeOK ==
    /\ pc \in [Calls -> PcStates]
    /\ headMutex \in Calls \cup {NoCall}
    /\ seq \in Nat \ {0}
    /\ DOMAIN pending \subseteq 1 .. (seq - 1)
    /\ \A s \in DOMAIN pending : pending[s] \in Calls
    /\ closing \in BOOLEAN /\ shutdown \in BOOLEAN
    /\ seqOf \in [Calls -> Nat]
    /\ err \in [Calls -> ErrStates]
    /\ reply \in [Calls -> Calls \cup {NoCall}]
    /\ doneCh \in [Chans -> Seq(Calls)]
    /\ result \in [Calls -> ErrStates \cup {"ok", "timeout"}]
    /\ wbuf \in Seq(Unit) /\ bufErr \in BOOLEAN
    /\ rcv \in RcvStates /\ rpos \in 0 .. Len(s2c) /\ rhead \in Unit
    /\ rcall \in Calls \cup {NoCall} /\ rerr \in BOOLEAN
    /\ rcv = "done" => rcall # NoCall
    /\ todo \in SUBSET Calls
    /\ c2s \in Seq(Unit) /\ s2c \in Seq(Unit)
    /\ cEnd \in BOOLEAN /\ sEnd \in BOOLEAN

InDone(c) == \E i \in DOMAIN doneCh[DoneOf[c]] : doneCh[DoneOf[c]][i] = c

\* A call whose goroutine has registered it and waits, or is going to wait, for
\* its completion is always in somebody's hands: in its Done channel, with
\* receive, in the list terminateCalls is working through, or in pending while
\* receive is still going to look there.  No caller waits for a completion
\* that nobody will send.
Owned(c) ==
    \/ InDone(c)
    \/ rcv \in {"body", "done", "panicked"} /\ rcall = c
    \/ rcv \notin {"notify", "exited"} /\ c \in PendingCalls
    \/ rcv = "notify" /\ c \in todo
NoOrphan ==
    \A c \in Calls :
        pc[c] \in {"header", "body", "remove", "sent"} /\ result[c] = "none"
            => Owned(c)

\* Responses are matched to calls by sequence number although they come back
\* in any order, late or twice: a Reply only ever receives the result of its
\* own call, and a call that reports success has received it.
MatchedReply ==
    \A c \in Calls :
        /\ reply[c] \in {NoCall, c}
        /\ result[c] = "ok" => reply[c] = c

\* headMutex keeps the two gob values of a request together and the requests
\* in the order of their sequence numbers; a header can be without arguments
\* only as the last thing sent on a connection the codec has closed.
RequestFrames ==
    \A i \in DOMAIN c2s :
        IF c2s[i].kind = "body"
        THEN i > 1 /\ c2s[i - 1].kind = "header" /\ c2s[i - 1].call = c2s[i].call
        ELSE /\ i = Len(c2s) => cEnd
             /\ i < Len(c2s) => c2s[i + 1].kind = "body"
             /\ \A j \in 1 .. (i - 1) :
                    c2s[j].kind = "header" => c2s[j].seq < c2s[i].seq

\* A response no call waits for any more (its Call timed out, or it was already
\* answered) is skipped whole: when receive expects a header, a header is next.
StreamInSync ==
    rcv = "header" /\ rpos < Len(s2c) => s2c[rpos + 1].kind = "header"

\* As long as receive runs, no finished call, in particular none that timed
\* out, is left behind in pending.
NoLeak ==
    \A c \in Calls : result[c] # "none" /\ ~shutdown => c \notin PendingCalls

\* Once a caller has got its result without error nobody touches its Call
\* again: no late response, no terminateCalls, no second completion.
OkIsFinal ==
    [][\A c \in Calls : result[c] = "ok" =>
           /\ reply'[c] = reply[c]
           /\ err'[c] = "none"
           /\ result'[c] = "ok"]_vars

\* The completions of c that have been sent, or are about to be.
Completions(c) ==
    Cardinality({i \in DOMAIN doneCh[DoneOf[c]] : doneCh[DoneOf[c]][i] = c})
    + Cardinality({x \in {1} : pc[c] = "done"})
    + Cardinality({x \in {1} : rcv = "done" /\ rcall = c})
    + Cardinality({x \in {1} : result[c] \notin {"none", "timeout"}})

\* "When a call ends, it is written to its own Done channel" (Call.done): once.
DoneOnce == \A c \in Calls : Completions(c) <= 1

\* Whichever side closes the connection, every caller that waits for a
\* response gets a result.
WaitersReleased ==
    \A c \in Calls :
        (cEnd \/ sEnd) /\ pc[c] = "sent" ~> result[c] # "none"
=============================================================================
