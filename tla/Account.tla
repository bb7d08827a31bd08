------------------------------ MODULE Account -------------------------------
(***************************************************************************)
(* What a trading engine promises the strategy that drives it: one long    *)
(* position per instrument, opened by a buy and closed whole by a sell,    *)
(* and after a restart the positions that were saved last, or none.        *)
(* Strategies is written on top of it; PaperTrading implements it.         *)
(***************************************************************************)
CONSTANT Instruments

VARIABLES held,  (* instruments with a position                            *)
          saved  (* those the next process will find                       *)

accountVars == <<held, saved>>

AccountInit == held = {} /\ saved = {}

(* A buy of what is held, and a sell of what is not, change nothing. *)
Buy(i)  == held' = held \cup {i} /\ UNCHANGED saved
Sell(i) == held' = held \ {i} /\ UNCHANGED saved

Save == saved' = held /\ UNCHANGED held

(* A state that cannot be read is taken for an empty one. *)
Resume == held' \in {saved, {}} /\ UNCHANGED saved

AccountNext == (\E i \in Instruments : Buy(i) \/ Sell(i)) \/ Save \/ Resume

AccountSpec == AccountInit /\ [][AccountNext]_accountVars
=============================================================================
