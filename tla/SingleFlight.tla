---------------------------- MODULE SingleFlight ----------------------------
(***************************************************************************)
(* geecache/singleflight: SingleCall.Do.  Callers that ask for a key while *)
(* a call for it is registered in m wait for that call and share its       *)
(* result; otherwise they register a call and run fn themselves.           *)
(*                                                                         *)
(* A `call' object is identified with the caller that created it.  fn asks *)
(* a peer (Group.load): it takes time and returns the version of the key   *)
(* that the peer held at some moment in between.  Critical sections of mu  *)
(* do not block and are single steps.                                      *)
(***************************************************************************)
EXTENDS Naturals, FiniteSets

CONSTANTS Goroutines,   \* goroutines, each calling Do once
          FlightKeys,
          Asked,        \* the key each caller asks for
          NoCaller,     \* no entry in m
          MaxChanges,   \* bound on the changes of the data behind fn
          MayPanic      \* may fn panic (net/http recovers in a handler) ?

ASSUME FlightAssumption ==
    /\ Asked \in [Goroutines -> FlightKeys]
    /\ NoCaller \notin Goroutines
    /\ MaxChanges \in Nat
    /\ MayPanic \in BOOLEAN

VARIABLES pc,       \* where each caller is in Do
          m,        \* SingleCall.m: the caller that created the call of a key
          call,     \* the call object a caller runs or waits for
          done,     \* calls whose WaitGroup has been released
          val,      \* call.val: the version fn has returned
          version,  \* the current version of each key, behind fn
          atStart,  \* history: version of the key when the caller entered Do
          gone      \* history: callers that had returned by then

flightVars == <<pc, m, call, done, val, version, atStart, gone>>

FlightInit ==
    /\ pc = [p \in Goroutines |-> "idle"]
    /\ m = [k \in FlightKeys |-> NoCaller]
    /\ call = [p \in Goroutines |-> NoCaller]
    /\ done = {}
    /\ val = [p \in Goroutines |-> 0]
    /\ version = [k \in FlightKeys |-> 0]
    /\ atStart = [p \in Goroutines |-> 0]
    /\ gone = [p \in Goroutines |-> {}]

\* Do is entered.
Enter(p) ==
    /\ pc[p] = "idle"
    /\ pc' = [pc EXCEPT ![p] = "lock"]
    /\ atStart' = [atStart EXCEPT ![p] = version[Asked[p]]]
    /\ gone' = [gone EXCEPT ![p] = {q \in Goroutines : pc[q] = "returned"}]
    /\ UNCHANGED <<m, call, done, val, version>>

\* Mutant: the entry is used without the ok of the lookup.
JoinNil(p) ==
    /\ pc[p] = "lock"
    /\ call' = [call EXCEPT ![p] = m[Asked[p]]]
    /\ pc' = [pc EXCEPT ![p] = "wait"]
    /\ UNCHANGED <<m, done, val, version, atStart, gone>>

\* Under mu: join the registered call ...
JoinCall(p) ==
    /\ pc[p] = "lock" /\ m[Asked[p]] # NoCaller
    /\ call' = [call EXCEPT ![p] = m[Asked[p]]]
    /\ pc' = [pc EXCEPT ![p] = "wait"]
    /\ UNCHANGED <<m, done, val, version, atStart, gone>>

\* Mutant: looking up and registering are not one critical section.
StartAlways(p) ==
    /\ pc[p] = "lock"
    /\ call' = [call EXCEPT ![p] = p]
    /\ m' = [m EXCEPT ![Asked[p]] = p]
    /\ pc' = [pc EXCEPT ![p] = "fn"]
    /\ UNCHANGED <<done, val, version, atStart, gone>>

\* ... or register one: wg.Add(1), m[key] = c.
StartCall(p) ==
    /\ pc[p] = "lock" /\ m[Asked[p]] = NoCaller
    /\ call' = [call EXCEPT ![p] = p]
    /\ m' = [m EXCEPT ![Asked[p]] = p]
    /\ pc' = [pc EXCEPT ![p] = "fn"]
    /\ UNCHANGED <<done, val, version, atStart, gone>>

\* Inside fn, the peer reads the value.
FnReads(p) ==
    /\ pc[p] = "fn"
    /\ val' = [val EXCEPT ![p] = version[Asked[p]]]
    /\ pc' = [pc EXCEPT ![p] = "fnReturns"]
    /\ UNCHANGED <<m, call, done, version, atStart, gone>>

\* Mutant: wg.Done is not called.
FnDoneForgets(p) ==
    /\ pc[p] = "fnReturns"
    /\ UNCHANGED done
    /\ pc' = [pc EXCEPT ![p] = "delete"]
    /\ UNCHANGED <<m, call, val, version, atStart, gone>>

\* c.val, c.err = fn(); c.wg.Done()
FnDone(p) ==
    /\ pc[p] = "fnReturns"
    /\ done' = done \cup {p}
    /\ pc' = [pc EXCEPT ![p] = "delete"]
    /\ UNCHANGED <<m, call, val, version, atStart, gone>>

\* fn panics: neither wg.Done nor delete is deferred.
FnPanics(p) ==
    /\ MayPanic /\ pc[p] = "fn"
    /\ pc' = [pc EXCEPT ![p] = "panicked"]
    /\ UNCHANGED <<m, call, done, val, version, atStart, gone>>

\* Mutant: the entry is not deleted.
DeleteForgotten(p) ==
    /\ pc[p] = "delete"
    /\ pc' = [pc EXCEPT ![p] = "returned"]
    /\ UNCHANGED <<m, call, done, val, version, atStart, gone>>

\* delete(sc.m, key) under mu, and return.
DeleteEntry(p) ==
    /\ pc[p] = "delete"
    /\ m' = [m EXCEPT ![Asked[p]] = NoCaller]
    /\ pc' = [pc EXCEPT ![p] = "returned"]
    /\ UNCHANGED <<call, done, val, version, atStart, gone>>

\* Mutant: wg.Add(1) comes too late for the waiters to wait.
AwakeEarly(p) ==
    /\ pc[p] = "wait"
    /\ pc' = [pc EXCEPT ![p] = "returned"]
    /\ UNCHANGED <<m, call, done, val, version, atStart, gone>>

\* c.wg.Wait() returns; c.val is the result.
Awake(p) ==
    /\ pc[p] = "wait" /\ call[p] \in done
    /\ pc' = [pc EXCEPT ![p] = "returned"]
    /\ UNCHANGED <<m, call, done, val, version, atStart, gone>>

\* The data behind fn changes.
ChangeData(k) ==
    /\ version[k] < MaxChanges
    /\ version' = [version EXCEPT ![k] = @ + 1]
    /\ UNCHANGED <<pc, m, call, done, val, atStart, gone>>

Do(p) ==
    \/ JoinCall(p) \/ StartCall(p) \/ FnReads(p) \/ FnDone(p) \/ FnPanics(p)
    \/ DeleteEntry(p) \/ Awake(p)

FlightNext ==
    \/ \E p \in Goroutines : Enter(p) \/ Do(p)
    \/ \E k \in FlightKeys : ChangeData(k)

FlightSpec == FlightInit /\ [][FlightNext]_flightVars

\* Every caller inside Do is scheduled; fn returns or panics.
FlightFairness == \A p \in Goroutines : WF_flightVars(Do(p))

FairFlightSpec == FlightSpec /\ FlightFairness

-----------------------------------------------------------------------------
(* Properties. *)

Running(p) == pc[p] \in {"fn", "fnReturns"}

\* Every variable keeps to its type.
FlightTypeOK ==
    /\ pc \in [Goroutines -> {"idle", "lock", "wait", "fn", "fnReturns", "delete",
                           "panicked", "returned"}]
    /\ m \in [FlightKeys -> Goroutines \cup {NoCaller}]
    /\ call \in [Goroutines -> Goroutines \cup {NoCaller}]
    /\ \A p \in Goroutines : pc[p] = "wait" => call[p] # NoCaller
    /\ done \in SUBSET Goroutines
    /\ val \in [Goroutines -> Nat]
    /\ version \in [FlightKeys -> Nat]
    /\ atStart \in [Goroutines -> Nat]
    /\ gone \in [Goroutines -> SUBSET Goroutines]

\* At any time fn runs at most once per key: no two callers are asking the
\* peer for the same key, however entering, finishing and deleting interleave.
OneFlight ==
    \A p, q \in Goroutines :
        Running(p) /\ Running(q) /\ Asked[p] = Asked[q] => p = q

\* A result is shared, never cached: a caller gets the value of a call for its
\* own key whose leader had not yet returned when the caller came in.
NoStaleFlight ==
    \A p \in Goroutines :
        call[p] # NoCaller => Asked[call[p]] = Asked[p] /\ call[p] \notin gone[p]

\* Hence the value a caller returns with is no older than the version the key
\* had when the leader of its flight entered Do.
NotOlderThanFlight ==
    \A p \in Goroutines :
        pc[p] = "returned" => val[call[p]] >= atStart[call[p]]

\* Nobody waits for a call that is no longer under way: it is registered or
\* finished, so that its leader will release the waiters or has done so.
WaitersHaveLeader ==
    \A p \in Goroutines :
        pc[p] = "wait" => call[p] \in done \/ m[Asked[p]] = call[p]

\* Everybody who enters Do returns, unless its fn panics or it waits for a call
\* whose fn panicked: a panic strands the callers of one flight and all those
\* who join that flight later, and nobody else.
StuckInCall(p) == pc[p] = "wait" /\ pc[call[p]] = "panicked"
EveryoneReturns ==
    \A p \in Goroutines :
        pc[p] = "lock" ~> pc[p] \in {"returned", "panicked"} \/ StuckInCall(p)
=============================================================================
