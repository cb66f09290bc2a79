------------------------------ MODULE RpcCalls ------------------------------
(***************************************************************************)
(* What geerpc promises the user of a Client about one call: the service   *)
(* method is started at most once, and the call succeeds only if the       *)
(* method has been run to its end and reported no error.  A call may fail  *)
(* at any time, also while its method is running or before it is started;  *)
(* then the user does not know whether it ran.                             *)
(***************************************************************************)
CONSTANT Calls

VARIABLES exec,    \* the service method of each call
          outcome  \* what the user has been told

vars == <<exec, outcome>>

Init ==
    /\ exec = [c \in Calls |-> "no"]
    /\ outcome = [c \in Calls |-> "none"]

Start(c) ==
    /\ exec[c] = "no"
    /\ exec' = [exec EXCEPT ![c] = "running"]
    /\ UNCHANGED outcome

Return(c) ==
    /\ exec[c] = "running"
    /\ \E how \in {"ok", "error"} : exec' = [exec EXCEPT ![c] = how]
    /\ UNCHANGED outcome

Succeed(c) ==
    /\ outcome[c] = "none" /\ exec[c] = "ok"
    /\ outcome' = [outcome EXCEPT ![c] = "ok"]
    /\ UNCHANGED exec

Fail(c) ==
    /\ outcome[c] = "none"
    /\ outcome' = [outcome EXCEPT ![c] = "failed"]
    /\ UNCHANGED exec

Next == \E c \in Calls : Start(c) \/ Return(c) \/ Succeed(c) \/ Fail(c)

Spec == Init /\ [][Next]_vars
=============================================================================
