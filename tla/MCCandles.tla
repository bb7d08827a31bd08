------------------------------ MODULE MCCandles -----------------------------
(* A small instance of Candles: decimals of 7 bits with digits 0 .. 3, one *)
(* price written at two scales, and quantities whose sum does not always   *)
(* fit.  For every such decimal TLC also evaluates what Decimals says.     *)
EXTENDS Candles

ASSUME Arithmetic == ArithmeticSound

MCPrices == {[u |-> 4, s |-> 0], [u |-> 16, s |-> 1], [u |-> 13, s |-> 1]}
MCQuantities ==
  <<[u |-> 5, s |-> 1], [u |-> 3, s |-> 2], [u |-> 59, s |-> 1], [u |-> 1, s |-> 0]>>
=============================================================================
