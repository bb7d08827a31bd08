------------------------------- MODULE Market -------------------------------
(***************************************************************************)
(* What the engines that trade on the bus's ticks have in common.          *)
(***************************************************************************)
EXTENDS Integers, FiniteSets

CONSTANTS
  Instruments,
  Prices,     (* prices the market trades at                               *)
  None        (* nothing: no price, position, arm, signal or file          *)

ASSUME MarketAssumption ==
  /\ IsFiniteSet(Instruments)
  /\ Prices \subseteq Nat \ {0}
  /\ None \notin Nat
=============================================================================
