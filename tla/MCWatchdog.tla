----------------------------- MODULE MCWatchdog -----------------------------
(* An instance of the watchdog and the plan handlers for TLC. *)
EXTENDS Watchdog

CONSTANTS p1, alice

OnePlan == {p1}

OwnedByAlice == [p \in Plans |-> alice]

=============================================================================
