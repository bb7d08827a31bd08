------------------------------ MODULE MCStore -------------------------------
(* A small instance of Store: three trades of one instrument on two days,  *)
(* two of them at one time, and one of another instrument with the time    *)
(* and the id of a third.                                                  *)
EXTENDS Store

Trade(i, n, t) == [inst |-> i, id |-> n, time |-> t]
MCTrades == {Trade("a", 1, 0), Trade("a", 2, 1), Trade("a", 3, 1), Trade("b", 2, 1)}

MCConfigs == {[Ticks |-> 1, Raw |-> 0, MaxBytes |-> 2], [Ticks |-> 0, Raw |-> 1, MaxBytes |-> 1]}

Query(i, s, e, d, n) == [inst |-> i, start |-> s, end |-> e, desc |-> d, limit |-> n]
MCQueries ==
  {Query("a", 0, 0, FALSE, 0), Query("a", 1, 2, TRUE, 1), Query(None, 0, 0, TRUE, 0),
   Query(None, 0, 0, FALSE, 3)}
=============================================================================
