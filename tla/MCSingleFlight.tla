--------------------------- MODULE MCSingleFlight ---------------------------
(***************************************************************************)
(* A small instance of SingleFlight: three callers of one key, so that     *)
(* there can be a leader, a waiter and one who comes too late.             *)
(***************************************************************************)
EXTENDS SingleFlight

CONSTANTS p1, p2, p3, k1   \* model values

MCGoroutines == {p1, p2, p3}
MCFlightKeys == {k1}
MCAsked == [p \in Goroutines |-> k1]
=============================================================================
