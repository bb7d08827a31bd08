---------------------------- MODULE LiveTrading -----------------------------
(***************************************************************************)
(* The live trading engine (internal/consumer/live) and the Alpaca client  *)
(* it submits orders through (internal/broker/alpaca), against an exchange *)
(* that fills, cancels or forgets orders at its own pace and a network     *)
(* that loses answers.                                                     *)
(*                                                                         *)
(* The engine is one goroutine: Ping, syncHeldPositions, then a loop that  *)
(* applies one signal at a time, Balances, PlaceOrder and the GetOrder     *)
(* polls being steps of their own.  A signal is any the strategy could     *)
(* give.  A buy is sized at Size units, as equity and strength would have  *)
(* it; the failure count, prices and commissions are left out.             *)
(*                                                                         *)
(* The exchange is external and modelled from how the client uses it:      *)
(* an accepted order fills by units and ends in a terminal status; a sell  *)
(* of more than is there is refused ("insufficient balance", broker.go).   *)
(***************************************************************************)
EXTENDS Naturals, Sequences, FiniteSets, Functions

CONSTANTS
  Instruments,
  Size,       (* units a buy asks for                   *)
  MaxOrders,  (* bound: orders the exchange accepts     *)
  MaxRuns,    (* bound: times the engine is started     *)
  None        (* no order                               *)

ASSUME LiveAssumption ==
  Size \in Nat \ {0} /\ MaxOrders \in Nat /\ MaxRuns \in Nat /\ None \notin Nat

VARIABLES
  phase,    (* where the engine goroutine is                          *)
  runs,     (* times the process has been started                     *)
  held,     (* Engine.held                                            *)
  request,  (* the order about to be placed, or None                  *)
  polled,   (* number of the order awaitFill polls, or None           *)
  fillLog,  (* Engine.fillLog, of this run: order numbers and units   *)
  orders,   (* the exchange's orders, in the order it accepted them   *)
  pos,      (* pos[i]: the position the exchange holds for us         *)
  blind     (* history: instruments traded without the engine's notice *)

engineVars == <<phase, runs, held, request, polled, fillLog>>
exchangeVars == <<orders, pos>>
vars == <<engineVars, exchangeVars, blind>>

Open == {"new", "partially_filled"}
Closed == {"filled", "canceled", "expired", "rejected", "done_for_day"}

Init ==
  /\ phase = "ping"
  /\ runs = 1
  /\ held = [i \in Instruments |-> FALSE]
  /\ request = None
  /\ polled = None
  /\ fillLog = << >>
  /\ orders = << >>
  /\ pos = [i \in Instruments |-> 0]
  /\ blind = {}

-----------------------------------------------------------------------------
(* The exchange. *)

(* The open sell orders of i, and the units of it they have claimed. *)
Sells(i) == {k \in DOMAIN orders : orders[k].inst = i /\ orders[k].side = "sell"
                                     /\ orders[k].status \in Open}
Left == [k \in DOMAIN orders |-> orders[k].qty - orders[k].filled]
Claimed(i) == SumFunctionOnSet(Left, Sells(i))

Accepts(r) ==
  /\ Len(orders) < MaxOrders
  /\ r.side = "sell" => Claimed(r.inst) + r.qty <= pos[r.inst]

(* One more unit of order k is executed; the engine sees it only if k is   *)
(* the order it is polling.                                                *)
ExchangeFills(k) ==
  /\ orders[k].status \in Open
  /\ LET o == orders[k]
         n == o.filled + 1
     IN  /\ orders' = [orders EXCEPT
                         ![k].filled = n,
                         ![k].status = IF n = o.qty THEN "filled" ELSE "partially_filled"]
         /\ pos' = [pos EXCEPT ![o.inst] = IF o.side = "buy" THEN @ + 1 ELSE @ - 1]
         /\ blind' = IF polled = k THEN blind ELSE blind \cup {o.inst}
  /\ UNCHANGED engineVars

(* Order k ends without being filled, or without being filled completely. *)
ExchangeEnds(k) ==
  /\ orders[k].status \in Open
  /\ \E s \in Closed \ {"filled"} :
       /\ s = "rejected" => orders[k].filled = 0
       /\ orders' = [orders EXCEPT ![k].status = s]
  /\ UNCHANGED <<engineVars, pos, blind>>

-----------------------------------------------------------------------------
(* Engine.Run, before the loop. *)

Ping ==
  /\ phase = "ping"
  /\ phase' \in {"sync", "down"}
  /\ UNCHANGED <<runs, held, request, polled, fillLog, exchangeVars, blind>>

(* Mutant: the positions read are not kept. *)
SyncForgets ==
  /\ phase = "sync"
  /\ phase' = "idle"
  /\ blind' = {}
  /\ UNCHANGED <<runs, held, request, polled, fillLog, exchangeVars>>

(* syncHeldPositions: what the account holds, or nothing if the read fails. *)
Sync ==
  /\ phase = "sync"
  /\ phase' = "idle"
  /\ \/ /\ held' = [i \in Instruments |-> pos[i] > 0]
        /\ blind' = {}
     \/ /\ UNCHANGED held
        /\ blind' = Instruments
  /\ UNCHANGED <<runs, request, polled, fillLog, exchangeVars>>

-----------------------------------------------------------------------------
(* Signals.  A failed Balances call, and a buy with no equity, leave       *)
(* everything as it was.                                                   *)

buy(i) ==
  /\ phase = "idle"
  /\ ~held[i]
  /\ request' = [inst |-> i, side |-> "buy", qty |-> Size]
  /\ phase' = "place"
  /\ UNCHANGED <<runs, held, polled, fillLog, exchangeVars, blind>>

(* A sell is sized by the balance; one of nothing returns, with held as it *)
(* was.                                                                    *)
sell(i) ==
  /\ phase = "idle"
  /\ held[i]
  /\ pos[i] > 0
  /\ request' = [inst |-> i, side |-> "sell", qty |-> pos[i]]
  /\ phase' = "place"
  /\ UNCHANGED <<runs, held, polled, fillLog, exchangeVars, blind>>

-----------------------------------------------------------------------------
(* Submit. *)

NewOrder(r) == [inst |-> r.inst, side |-> r.side, qty |-> r.qty,
                filled |-> 0, status |-> "new"]

(* PlaceOrder is answered: awaitFill polls the order the exchange made. *)
Placed ==
  /\ phase = "place"
  /\ Accepts(request)
  /\ orders' = Append(orders, NewOrder(request))
  /\ polled' = Len(orders) + 1
  /\ request' = None
  /\ phase' = "poll"
  /\ UNCHANGED <<runs, held, fillLog, pos, blind>>

(* PlaceOrder fails: the exchange refuses, or its answer is lost after it  *)
(* has accepted.                                                           *)
PlaceFails ==
  /\ phase = "place"
  /\ \/ UNCHANGED orders
     \/ Accepts(request) /\ orders' = Append(orders, NewOrder(request))
  /\ request' = None
  /\ phase' = "idle"
  /\ UNCHANGED <<runs, held, polled, fillLog, pos, blind>>

(* Submit returns an error for the order being polled. *)
Fails ==
  /\ polled' = None
  /\ phase' = "idle"
  /\ blind' = IF orders[polled].filled > 0 THEN blind \cup {orders[polled].inst} ELSE blind
  /\ UNCHANGED <<runs, held, request, fillLog, exchangeVars>>

(* Mutant: a partial fill is taken for the final status. *)
terminalPartial(s) == s \in Closed \cup {"partially_filled"}

(* terminalStatuses. *)
terminal(s) == s \in Closed

(* GetOrder fails. *)
PollFails ==
  /\ phase = "poll"
  /\ Fails

(* awaitFill's 30 seconds are over, or ctx is, since a poll found the      *)
(* order open: it may still be, or have ended in the meantime.             *)
PollTimesOut ==
  /\ phase = "poll"
  /\ Fails

(* toFill refuses a terminal order. *)
ToFillRejects ==
  /\ phase = "poll"
  /\ terminal(orders[polled].status)
  /\ orders[polled].status \in {"rejected", "expired", "canceled"} \/ orders[polled].filled = 0
  /\ Fails

(* toFill accepts it, and submit records the fill: held is the side, and   *)
(* Partial is not looked at.                                               *)
SubmitFilled ==
  /\ phase = "poll"
  /\ LET o == orders[polled] IN
       /\ terminal(o.status)
       /\ o.status \notin {"rejected", "expired", "canceled"}
       /\ o.filled > 0
       /\ fillLog' = Append(fillLog, [order |-> polled, units |-> o.filled])
       /\ held' = [held EXCEPT ![o.inst] = o.side = "buy"]
       /\ blind' = IF o.side = "sell" /\ o.filled < o.qty THEN blind \cup {o.inst} ELSE blind
  /\ polled' = None
  /\ phase' = "idle"
  /\ UNCHANGED <<runs, request, exchangeVars>>

-----------------------------------------------------------------------------
(* The process stops at any point, or returns from Run; and is started     *)
(* again, with the state of a new Engine.                                  *)
Dies ==
  /\ phase # "down"
  /\ phase' = "down"
  /\ request' = None
  /\ polled' = None
  /\ UNCHANGED <<runs, held, fillLog, exchangeVars, blind>>

Restart ==
  /\ phase = "down"
  /\ runs < MaxRuns
  /\ runs' = runs + 1
  /\ phase' = "ping"
  /\ held' = [i \in Instruments |-> FALSE]
  /\ fillLog' = << >>
  /\ UNCHANGED <<request, polled, exchangeVars, blind>>

SubmitStep ==
  Placed \/ PlaceFails \/ PollFails \/ PollTimesOut \/ ToFillRejects \/ SubmitFilled

Next ==
  \/ Ping \/ Sync
  \/ \E i \in Instruments : buy(i) \/ sell(i)
  \/ SubmitStep
  \/ \E k \in DOMAIN orders : ExchangeFills(k) \/ ExchangeEnds(k)
  \/ Dies \/ Restart

Spec == Init /\ [][Next]_vars

-----------------------------------------------------------------------------
(* "Treating accepted as filled would report a position and a price the    *)
(* account doesn't actually have": a fill in the log is of an order the    *)
(* exchange is finished with, and its size is final.                       *)
FillsAreFinal ==
  \A k \in DOMAIN fillLog :
    LET o == orders[fillLog[k].order] IN
    /\ o.status \in Closed
    /\ o.filled = fillLog[k].units
    /\ o.filled > 0

(* What the engine believes is what the exchange holds, across buys,       *)
(* sells, rejections and restarts, except where an order was executed that *)
(* the engine had given up on, a sell ended partially filled, or the       *)
(* positions could not be read at start.                                   *)
BeliefIsExact ==
  phase = "idle" =>
    \A i \in Instruments \ blind : held[i] = (pos[i] > 0)

(* broker.go: "ClientID makes submission idempotent across a retry or a    *)
(* reconnect.  Without it, a timeout that actually succeeded turns into a  *)
(* duplicate position the next time the strategy fires."                   *)
NoDuplicatePosition == \A i \in Instruments : pos[i] <= Size
=============================================================================
