------------------------------- MODULE MCBus --------------------------------
(* Small instances of Bus: the subscriptions of the configurations, one of *)
(* each policy, with queues of depth 1 or 2 that overflow after a few      *)
(* ticks.  ws1 and ws2 share a name; sample follows one instrument.        *)
EXTENDS Bus

MCName      == [h \in Handles |-> IF h \in {"ws1", "ws2"} THEN "ws" ELSE h]
MCPolicy    == [h \in Handles |->
                 CASE h \in {"ws1", "paper"} -> "coalesce"
                   [] h \in {"ws2", "replay"} -> "block"
                   [] h = "sample" -> "drop_newest"
                   [] h = "candles" -> "drop_oldest"]
MCCapacity  == [h \in Handles |-> IF h = "candles" THEN 2 ELSE 1]
MCFilter    == [h \in Handles |-> IF h = "sample" THEN {"BTC"} ELSE {}]
=============================================================================
