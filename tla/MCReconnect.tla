---------------------------- MODULE MCReconnect -----------------------------
(* A small instance of Reconnect: the default policy scaled down, and one  *)
(* that gives up.  Delays are 2, then 4, the cap, spread by a fourth.      *)
EXTENDS Reconnect

Default == [InitialDelay |-> 2, MaxDelay |-> 4, Jitter |-> 3, ResetAfter |-> 6, MaxAttempts |-> 0]
MCPolicies == {Default, [Default EXCEPT !.MaxAttempts = 2]}
=============================================================================
