---------------------------- MODULE MCStrategies ----------------------------
(* A small instance of Strategies: two arms that cross at different bars.  *)
EXTENDS Strategies

MCArms == <<[fast |-> 1, slow |-> 2], [fast |-> 2, slow |-> 3]>>
=============================================================================
