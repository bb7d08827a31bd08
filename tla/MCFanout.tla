------------------------------ MODULE MCFanout ------------------------------
(* A small instance of Fanout: dash follows everything, cli what it named. *)
EXTENDS Fanout

MCFilter == [c \in Conns |-> IF c = "cli" THEN {"BTC"} ELSE {}]
=============================================================================
