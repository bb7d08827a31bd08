------------------------- MODULE LiveTradingProofs --------------------------
(***************************************************************************)
(* Theorems about LiveTrading, for any instruments, any size of an order,  *)
(* and any number of orders and restarts.                                  *)
(***************************************************************************)
EXTENDS LiveTrading, Lemmas, TLAPS

Sides == {"buy", "sell"}
Phases == {"ping", "sync", "idle", "place", "poll", "down"}
Request == [inst : Instruments, side : Sides, qty : Nat \ {0}]
Order == [inst : Instruments, side : Sides, qty : Nat \ {0},
          filled : Nat, status : Open \cup Closed]

(* An open order has something left. *)
Sound(o) == o.filled <= o.qty /\ (o.status \in Open => o.filled < o.qty)

TypeInv ==
  /\ phase \in Phases
  /\ held \in [Instruments -> BOOLEAN]
  /\ phase = "place" => request \in Request
  /\ IF phase = "poll" THEN polled \in 1 .. Len(orders) ELSE polled = None
  /\ fillLog \in Seq([order : Nat, units : Nat])
  /\ \A k \in 1 .. Len(fillLog) : fillLog[k].order \in 1 .. Len(orders)
  /\ orders \in Seq(Order)
  /\ \A k \in 1 .. Len(orders) : Sound(orders[k])
  /\ pos \in [Instruments -> Int]

-----------------------------------------------------------------------------
(* Orders. *)

LEMMA NewOrderFacts ==
  ASSUME TypeInv, NEW r \in Request, orders' = Append(orders, NewOrder(r))
  PROVE  /\ orders' \in Seq(Order)
         /\ Len(orders') = Len(orders) + 1 /\ Len(orders) \in Nat
         /\ \A k \in 1 .. Len(orders) : orders'[k] = orders[k]
         /\ orders'[Len(orders) + 1] = NewOrder(r)
         /\ \A k \in 1 .. Len(orders') : Sound(orders'[k])
<1>1. NewOrder(r) \in Order /\ Sound(NewOrder(r))
  BY DEF NewOrder, Request, Order, Sides, Open, Closed, Sound
<1>2. orders \in Seq(Order)
  BY DEF TypeInv
<1>3. /\ orders' \in Seq(Order)
      /\ Len(orders') = Len(orders) + 1 /\ Len(orders) \in Nat
      /\ \A k \in 1 .. Len(orders) : orders'[k] = orders[k]
      /\ orders'[Len(orders) + 1] = NewOrder(r)
  BY <1>1, <1>2, AppendFacts
<1>4. \A k \in 1 .. Len(orders') : k \in 1 .. Len(orders) \/ k = Len(orders) + 1
  BY <1>3
<1>5. \A k \in 1 .. Len(orders') : Sound(orders'[k])
  BY <1>1, <1>3, <1>4 DEF TypeInv
<1>6. QED
  BY <1>3, <1>5

LEMMA FillFacts ==
  ASSUME TypeInv, NEW k \in DOMAIN orders, ExchangeFills(k)
  PROVE  LET o == orders[k] IN
         /\ k \in 1 .. Len(orders) /\ o \in Order /\ o.status \in Open
         /\ orders' \in Seq(Order) /\ Len(orders') = Len(orders)
         /\ \A j \in 1 .. Len(orders) : j # k => orders'[j] = orders[j]
         /\ orders'[k].inst = o.inst /\ orders'[k].side = o.side /\ orders'[k].qty = o.qty
         /\ orders'[k].filled = o.filled + 1
         /\ \A j \in 1 .. Len(orders') : Sound(orders'[j])
         /\ pos' = [pos EXCEPT ![o.inst] = IF o.side = "buy" THEN @ + 1 ELSE @ - 1]
<1> DEFINE o == orders[k]
           s == IF o.filled + 1 = o.qty THEN "filled" ELSE "partially_filled"
           p == [o EXCEPT !.filled = o.filled + 1, !.status = s]
<1>1. orders \in Seq(Order) /\ k \in 1 .. Len(orders) /\ o \in Order /\ Sound(o)
  BY DEF TypeInv
<1>2. /\ o.status \in Open /\ orders' = [orders EXCEPT ![k] = p]
      /\ pos' = [pos EXCEPT ![o.inst] = IF o.side = "buy" THEN @ + 1 ELSE @ - 1]
  BY <1>1 DEF ExchangeFills, Order
<1>3. s \in Open \cup Closed
  BY DEF Open, Closed
<1> HIDE DEF s
<1>4. /\ p \in Order /\ p.inst = o.inst /\ p.side = o.side /\ p.qty = o.qty
      /\ p.filled = o.filled + 1 /\ p.status = s
  <2> HIDE DEF o
  <2>1. o.filled + 1 \in Nat
    BY <1>1 DEF Order
  <2>2. /\ p.inst = o.inst /\ p.side = o.side /\ p.qty = o.qty
        /\ p.filled = o.filled + 1 /\ p.status = s
    BY <1>1 DEF Order
  <2>3. p \in Order
    BY <1>1, <1>3, <2>1 DEF Order
  <2>4. QED
    BY <2>2, <2>3
<1>5. Sound(p)
  BY <1>1, <1>2, <1>4 DEF Sound, Open, Order, s
<1> HIDE DEF p
<1>6. orders' \in Seq(Order) /\ Len(orders') = Len(orders) /\ orders'[k] = p
      /\ \A j \in 1 .. Len(orders) : j # k => orders'[j] = orders[j]
  BY <1>1, <1>2, <1>4
<1>7. \A j \in 1 .. Len(orders') : Sound(orders'[j])
  BY <1>5, <1>6 DEF TypeInv
<1>8. QED
  BY <1>1, <1>2, <1>4, <1>6, <1>7

LEMMA EndFacts ==
  ASSUME TypeInv, NEW k \in DOMAIN orders, ExchangeEnds(k)
  PROVE  LET o == orders[k] IN
         /\ k \in 1 .. Len(orders) /\ o \in Order /\ o.status \in Open
         /\ orders' \in Seq(Order) /\ Len(orders') = Len(orders)
         /\ \A j \in 1 .. Len(orders) : j # k => orders'[j] = orders[j]
         /\ orders'[k].inst = o.inst /\ orders'[k].side = o.side /\ orders'[k].qty = o.qty
         /\ orders'[k].filled = o.filled /\ orders'[k].status \notin Open
         /\ \A j \in 1 .. Len(orders') : Sound(orders'[j])
<1> DEFINE o == orders[k]
<1>1. orders \in Seq(Order) /\ k \in 1 .. Len(orders) /\ o \in Order /\ Sound(o)
  BY DEF TypeInv
<1>2. o.status \in Open
  BY DEF ExchangeEnds
<1>3. PICK s \in Closed \ {"filled"} : orders' = [orders EXCEPT ![k].status = s]
  BY DEF ExchangeEnds
<1> DEFINE p == [o EXCEPT !.status = s]
<1>4. /\ p \in Order /\ p.inst = o.inst /\ p.side = o.side /\ p.qty = o.qty
      /\ p.filled = o.filled /\ p.status = s
  BY <1>1, <1>3 DEF Order
<1>5. Sound(p) /\ p.status \notin Open
  BY <1>1, <1>3, <1>4 DEF Sound, Open, Closed
<1>6. orders' = [orders EXCEPT ![k] = p]
  BY <1>1, <1>3
<1> HIDE DEF p
<1>7. orders' \in Seq(Order) /\ Len(orders') = Len(orders) /\ orders'[k] = p
      /\ \A j \in 1 .. Len(orders) : j # k => orders'[j] = orders[j]
  BY <1>1, <1>4, <1>6
<1>8. \A j \in 1 .. Len(orders') : Sound(orders'[j])
  BY <1>5, <1>7 DEF TypeInv
<1>9. QED
  BY <1>1, <1>2, <1>4, <1>5, <1>7, <1>8

-----------------------------------------------------------------------------
(* Types, and the fills in the log. *)

LEMMA TypeInit == Init => TypeInv /\ FillsAreFinal
<1> SUFFICES ASSUME Init PROVE TypeInv /\ FillsAreFinal
  OBVIOUS
<1>1. held \in [Instruments -> BOOLEAN]
  BY Zenon DEF Init
<1>2. QED
  BY <1>1 DEF Init, TypeInv, FillsAreFinal, Phases

LEMMA TypeStep == TypeInv /\ FillsAreFinal /\ [Next]_vars => TypeInv' /\ FillsAreFinal'
<1> SUFFICES ASSUME TypeInv, FillsAreFinal, [Next]_vars PROVE TypeInv' /\ FillsAreFinal'
  OBVIOUS
<1> USE LiveAssumption DEF TypeInv, FillsAreFinal, Phases, exchangeVars, engineVars
<1>1. CASE Ping
  BY <1>1 DEF Ping
<1>2. CASE Sync
  <2>1. held' \in [Instruments -> BOOLEAN]
    <3>1. [i \in Instruments |-> pos[i] > 0] \in [Instruments -> BOOLEAN]
      <4>1. \A i \in Instruments : (pos[i] > 0) \in BOOLEAN
        OBVIOUS
      <4>2. QED
        BY <4>1, Zenon
    <3>2. QED
      BY <1>2, <3>1, Zenon DEF Sync
  <2>2. QED
    BY <1>2, <2>1 DEF Sync
<1>3. ASSUME NEW i \in Instruments, buy(i) PROVE TypeInv' /\ FillsAreFinal'
  BY <1>3 DEF buy, Request, Sides
<1>4. ASSUME NEW i \in Instruments, sell(i) PROVE TypeInv' /\ FillsAreFinal'
  BY <1>4 DEF sell, Request, Sides
<1>5. ASSUME request \in Request, orders' = Append(orders, NewOrder(request)),
             \/ phase' = "poll" /\ polled' = Len(orders) + 1
             \/ phase' = "idle" /\ polled' = None,
             UNCHANGED <<held, fillLog, pos>>
      PROVE  TypeInv' /\ FillsAreFinal'
  <2>1. /\ orders' \in Seq(Order)
        /\ Len(orders') = Len(orders) + 1 /\ Len(orders) \in Nat
        /\ \A k \in 1 .. Len(orders) : orders'[k] = orders[k]
        /\ \A k \in 1 .. Len(orders') : Sound(orders'[k])
    BY <1>5, NewOrderFacts
  <2>2. \A k \in 1 .. Len(fillLog) : fillLog[k].order \in 1 .. Len(orders')
    BY <2>1
  <2>3. IF phase' = "poll" THEN polled' \in 1 .. Len(orders') ELSE polled' = None
    BY <1>5, <2>1
  <2>4. phase' \in Phases /\ phase' # "place"
    BY <1>5
  <2>5. TypeInv'
    BY <1>5, <2>1, <2>2, <2>3, <2>4
  <2>6. FillsAreFinal'
    BY <1>5, <2>1
  <2>7. QED
    BY <2>5, <2>6
<1>6. CASE Placed
  BY <1>5, <1>6 DEF Placed
<1>7. CASE PlaceFails
  BY <1>5, <1>7 DEF PlaceFails
<1>8. CASE Fails
  BY <1>8 DEF Fails
<1>9. CASE SubmitFilled
  <2> DEFINE o == orders[polled]
             f == [order |-> polled, units |-> o.filled]
  <2>1. o \in Order /\ polled \in 1 .. Len(orders) /\ polled \in Nat
    BY <1>9 DEF SubmitFilled
  <2>2. /\ o.status \in Closed /\ o.filled > 0 /\ fillLog' = Append(fillLog, f)
        /\ held' = [held EXCEPT ![o.inst] = (o.side = "buy")]
        /\ phase' = "idle" /\ polled' = None /\ UNCHANGED <<orders, pos>>
    BY <1>9 DEF SubmitFilled, terminal
  <2>3. f \in [order : Nat, units : Nat] /\ f.order = polled /\ f.units = o.filled
    BY <2>1 DEF Order
  <2> HIDE DEF f
  <2>4. /\ fillLog' \in Seq([order : Nat, units : Nat]) /\ Len(fillLog') = Len(fillLog) + 1
        /\ Len(fillLog) \in Nat
        /\ \A k \in 1 .. Len(fillLog) : fillLog'[k] = fillLog[k]
        /\ fillLog'[Len(fillLog) + 1] = f
    BY <2>2, <2>3, AppendFacts
  <2>5. \A k \in 1 .. Len(fillLog') : k \in 1 .. Len(fillLog) \/ k = Len(fillLog) + 1
    BY <2>4
  <2>6. \A k \in 1 .. Len(fillLog') : fillLog'[k].order \in 1 .. Len(orders)
    BY <2>1, <2>3, <2>4, <2>5
  <2>7. held' \in [Instruments -> BOOLEAN]
    BY <2>2
  <2>8. TypeInv'
    BY <2>2, <2>4, <2>6, <2>7
  <2>9. \A k \in DOMAIN fillLog' : k \in 1 .. Len(fillLog) \/ k = Len(fillLog) + 1
    BY <2>4, <2>5
  <2>10. FillsAreFinal'
    <3>1. \A k \in 1 .. Len(fillLog) : fillLog'[k] = fillLog[k] /\ k \in DOMAIN fillLog
      <4>1. DOMAIN fillLog = 1 .. Len(fillLog)
        OBVIOUS
      <4>2. QED
        BY <2>4, <4>1
    <3>2. fillLog'[Len(fillLog) + 1].order = polled
          /\ fillLog'[Len(fillLog) + 1].units = orders[polled].filled
      BY <2>3, <2>4
    <3>3. QED
      BY <2>2, <2>9, <3>1, <3>2, SMTT(30)
  <2>11. QED
    BY <2>8, <2>10
<1>10. ASSUME NEW k \in DOMAIN orders, ExchangeFills(k) PROVE TypeInv' /\ FillsAreFinal'
  <2>1. UNCHANGED engineVars
    BY <1>10 DEF ExchangeFills
  <2>2. pos' \in [Instruments -> Int]
    <3>1. orders[k].inst \in Instruments
      BY <1>10, FillFacts DEF Order
    <3>2. pos[orders[k].inst] + 1 \in Int /\ pos[orders[k].inst] - 1 \in Int
      BY <3>1
    <3>3. QED
      BY <1>10, <3>1, <3>2, FillFacts
  <2>3. TypeInv'
    BY <1>10, <2>1, <2>2, FillFacts
  <2>4. orders[k].status \notin Closed
    BY <1>10, FillFacts DEF Open, Closed
  <2>5. FillsAreFinal'
    <3>1. \A j \in 1 .. Len(orders) : j # k => orders'[j] = orders[j]
      BY <1>10, FillFacts
    <3>2. ASSUME NEW j \in DOMAIN fillLog
          PROVE  fillLog[j].order # k /\ fillLog[j].order \in 1 .. Len(orders)
      BY <2>4
    <3>3. fillLog' = fillLog
      BY <2>1
    <3>4. QED
      BY <3>1, <3>2, <3>3
  <2>6. QED
    BY <2>3, <2>5
<1>11. ASSUME NEW k \in DOMAIN orders, ExchangeEnds(k) PROVE TypeInv' /\ FillsAreFinal'
  <2>1. UNCHANGED <<engineVars, pos>>
    BY <1>11 DEF ExchangeEnds
  <2>2. TypeInv'
    BY <1>11, <2>1, EndFacts
  <2>3. orders[k].status \notin Closed
    BY <1>11, EndFacts DEF Open, Closed
  <2>4. FillsAreFinal'
    <3>1. \A j \in 1 .. Len(orders) : j # k => orders'[j] = orders[j]
      BY <1>11, EndFacts
    <3>2. ASSUME NEW j \in DOMAIN fillLog
          PROVE  fillLog[j].order # k /\ fillLog[j].order \in 1 .. Len(orders)
      BY <2>3
    <3>3. fillLog' = fillLog
      BY <2>1
    <3>4. QED
      BY <3>1, <3>2, <3>3
  <2>5. QED
    BY <2>2, <2>4
<1>12. CASE Dies
  BY <1>12 DEF Dies
<1>13. CASE Restart
  <2>1. held' \in [Instruments -> BOOLEAN]
    BY <1>13, Zenon DEF Restart
  <2>2. QED
    BY <1>13, <2>1 DEF Restart
<1>14. CASE UNCHANGED vars
  BY <1>14 DEF vars
<1> HIDE LiveAssumption DEF TypeInv, FillsAreFinal
<1>15. QED
  BY <1>1, <1>2, <1>3, <1>4, <1>6, <1>7, <1>8, <1>9, <1>10, <1>11, <1>12, <1>13, <1>14
  DEF Next, SubmitStep, PollFails, PollTimesOut, ToFillRejects

(* A fill in the log is of an order the exchange is finished with, at its  *)
(* final size, whatever the exchange does to its other orders and however  *)
(* polls, timeouts and restarts interleave with it.                        *)
THEOREM FillsAreFinalHolds == Spec => []FillsAreFinal
  BY TypeInit, TypeStep, PTL DEF Spec

-----------------------------------------------------------------------------
(* The exchange never owes more than it holds: what the open sell orders   *)
(* of an instrument have claimed is there.                                 *)

Covered == \A i \in Instruments : Claimed(i) <= pos[i]

LEMMA LeftFacts ==
  ASSUME TypeInv, NEW i
  PROVE  /\ IsFiniteSet(Sells(i)) /\ Sells(i) \subseteq 1 .. Len(orders)
         /\ \A k \in Sells(i) : Left[k] = orders[k].qty - orders[k].filled /\ Left[k] \in Nat
<1>1. orders \in Seq(Order) /\ DOMAIN orders = 1 .. Len(orders) /\ Len(orders) \in Nat
  BY DEF TypeInv
<1>2. Sells(i) \subseteq 1 .. Len(orders)
  BY <1>1 DEF Sells
<1>3. IsFiniteSet(Sells(i))
  BY <1>1, <1>2, FiniteIndices
<1>4. ASSUME NEW k \in Sells(i)
      PROVE  Left[k] = orders[k].qty - orders[k].filled /\ Left[k] \in Nat
  <2>1. orders[k] \in Order /\ Sound(orders[k]) /\ orders[k].status \in Open
    BY <1>1 DEF Sells, TypeInv
  <2>2. Left[k] = orders[k].qty - orders[k].filled
    BY <1>1, <1>2 DEF Left
  <2>3. QED
    BY <2>1, <2>2 DEF Sound, Order
<1>5. QED
  BY <1>2, <1>3, <1>4

LEMMA ClaimedNat == ASSUME TypeInv, NEW i PROVE Claimed(i) \in Nat
  BY LeftFacts, SumNat DEF Claimed

(* A claim does not depend on what happens to other orders. *)
LEMMA ClaimedSame ==
  ASSUME TypeInv, TypeInv', NEW i, NEW S \in SUBSET Sells(i), S \subseteq Sells(i)',
         \A k \in S : orders'[k] = orders[k]
  PROVE  SumFunctionOnSet(Left', S) = SumFunctionOnSet(Left, S)
<1>1. \A k \in S : Left[k] = orders[k].qty - orders[k].filled
  BY LeftFacts
<1>2. \A k \in Sells(i)' : Left'[k] = orders'[k].qty - orders'[k].filled
  <2>1. DOMAIN orders' = 1 .. Len(orders')
    BY DEF TypeInv
  <2>2. QED
    BY <2>1 DEF Left, Sells
<1>3. \A k \in S : Left'[k] = Left[k]
  BY <1>1, <1>2
<1>4. IsFiniteSet(S)
  BY LeftFacts, FS_Subset
<1>5. QED
  BY <1>3, <1>4, SumSame

LEMMA ClaimedRemove ==
  ASSUME TypeInv, NEW i, NEW k \in Sells(i)
  PROVE  /\ Claimed(i) = Left[k] + SumFunctionOnSet(Left, Sells(i) \ {k})
         /\ Left[k] \in Nat /\ SumFunctionOnSet(Left, Sells(i) \ {k}) \in Nat
<1>1. /\ IsFiniteSet(Sells(i)) /\ IsFiniteSet(Sells(i) \ {k})
      /\ \A j \in Sells(i) : Left[j] \in Nat
  BY LeftFacts, FS_Subset
<1>2. \A j \in Sells(i) : Left[j] \in Int
  BY <1>1
<1>3. Claimed(i) = Left[k] + SumFunctionOnSet(Left, Sells(i) \ {k})
  BY <1>1, <1>2, SumRemove DEF Claimed
<1>4. SumFunctionOnSet(Left, Sells(i) \ {k}) \in Nat
  BY <1>1, SumNat
<1>5. QED
  BY <1>1, <1>3, <1>4

LEMMA ClaimedRemoveNext ==
  ASSUME TypeInv', NEW i, NEW k \in Sells(i)'
  PROVE  Claimed(i)' = Left'[k] + SumFunctionOnSet(Left', Sells(i)' \ {k})
<1>1. /\ DOMAIN orders' = 1 .. Len(orders') /\ Len(orders') \in Nat
      /\ \A j \in 1 .. Len(orders') : orders'[j] \in Order
  BY DEF TypeInv
<1>2. Sells(i)' \subseteq 1 .. Len(orders')
  BY <1>1 DEF Sells
<1>3. IsFiniteSet(Sells(i)')
  BY <1>1, <1>2, FiniteIndices
<1>4. \A j \in Sells(i)' : Left'[j] \in Int
  <2>1. \A j \in 1 .. Len(orders') : Left'[j] = orders'[j].qty - orders'[j].filled
    BY <1>1 DEF Left
  <2>2. QED
    BY <1>1, <1>2, <2>1 DEF Order
<1>5. QED
  BY <1>3, <1>4, SumRemove DEF Claimed

(* An order that is no open sell order of i, before or after. *)
LEMMA ClaimedOther ==
  ASSUME TypeInv, TypeInv', NEW i, NEW k, k \notin Sells(i), k \notin Sells(i)',
         1 .. Len(orders) \subseteq 1 .. Len(orders'),
         1 .. Len(orders') \subseteq (1 .. Len(orders)) \cup {k},
         \A j \in 1 .. Len(orders) : j # k => orders'[j] = orders[j]
  PROVE  Claimed(i)' = Claimed(i)
<1>1. DOMAIN orders = 1 .. Len(orders) /\ DOMAIN orders' = 1 .. Len(orders')
  BY DEF TypeInv
<1>2. Sells(i)' = Sells(i) /\ \A j \in Sells(i) : orders'[j] = orders[j]
  BY <1>1 DEF Sells
<1>3. SumFunctionOnSet(Left', Sells(i)) = SumFunctionOnSet(Left, Sells(i))
  BY <1>2, ClaimedSame
<1>4. QED
  BY <1>2, <1>3 DEF Claimed

LEMMA CoveredNew ==
  ASSUME TypeInv, TypeInv', Covered, request \in Request, Accepts(request),
         orders' = Append(orders, NewOrder(request)), pos' = pos
  PROVE  Covered'
<1> DEFINE k == Len(orders) + 1
<1>1. /\ Len(orders') = k /\ Len(orders) \in Nat
      /\ \A j \in 1 .. Len(orders) : orders'[j] = orders[j]
      /\ orders'[k] = NewOrder(request)
  BY NewOrderFacts
<1>2. \A i \in Instruments : k \notin Sells(i)
  BY <1>1, LeftFacts
<1>3. /\ 1 .. Len(orders) \subseteq 1 .. Len(orders')
      /\ 1 .. Len(orders') \subseteq (1 .. Len(orders)) \cup {k}
  BY <1>1
<1>4. ASSUME NEW i \in Instruments PROVE Claimed(i)' <= pos[i]
  <2>1. CASE request.side = "sell" /\ request.inst = i
    <3>1. DOMAIN orders = 1 .. Len(orders) /\ DOMAIN orders' = 1 .. Len(orders')
      BY DEF TypeInv
    <3>2. k \in Sells(i)' /\ Left'[k] = request.qty
      <4>1. k \in 1 .. Len(orders')
        BY <1>1
      <4>2. QED
        BY <1>1, <2>1, <3>1, <4>1 DEF Sells, Left, NewOrder, Open, Request
    <3>3. Sells(i)' \ {k} = Sells(i)
      BY <1>1, <1>2, <1>3, <3>1 DEF Sells
    <3>4. Claimed(i)' = Left'[k] + SumFunctionOnSet(Left', Sells(i)' \ {k})
      BY <3>2, ClaimedRemoveNext
    <3>5. SumFunctionOnSet(Left', Sells(i)) = Claimed(i)
      <4>1. Sells(i) \subseteq Sells(i)' /\ \A j \in Sells(i) : orders'[j] = orders[j]
        BY <1>1, <3>3, LeftFacts
      <4>2. QED
        BY <4>1, ClaimedSame DEF Claimed
    <3>6. Claimed(i)' = request.qty + Claimed(i)
      BY <3>2, <3>3, <3>4, <3>5
    <3>7. Claimed(i) \in Nat /\ request.qty \in Nat /\ Claimed(i) + request.qty <= pos[i]
      BY <2>1, ClaimedNat DEF Accepts, Request
    <3>8. QED
      BY <3>6, <3>7
  <2>2. CASE ~ (request.side = "sell" /\ request.inst = i)
    <3>1. k \notin Sells(i)'
      BY <1>1, <2>2 DEF Sells, NewOrder
    <3>2. Claimed(i)' = Claimed(i)
      BY <1>1, <1>2, <1>3, <3>1, ClaimedOther
    <3>3. QED
      BY <3>2 DEF Covered
  <2>3. QED
    BY <2>1, <2>2
<1>5. QED
  BY <1>4 DEF Covered

LEMMA CoveredFills ==
  ASSUME TypeInv, TypeInv', Covered, NEW k \in DOMAIN orders, ExchangeFills(k)
  PROVE  Covered'
<1> DEFINE o == orders[k]
<1>1. /\ k \in 1 .. Len(orders) /\ o \in Order /\ o.status \in Open
      /\ Len(orders') = Len(orders)
      /\ \A j \in 1 .. Len(orders) : j # k => orders'[j] = orders[j]
      /\ orders'[k].inst = o.inst /\ orders'[k].side = o.side /\ orders'[k].qty = o.qty
      /\ orders'[k].filled = o.filled + 1
      /\ pos' = [pos EXCEPT ![o.inst] = IF o.side = "buy" THEN @ + 1 ELSE @ - 1]
  BY FillFacts
<1>2. DOMAIN orders = 1 .. Len(orders) /\ DOMAIN orders' = 1 .. Len(orders')
  BY DEF TypeInv
<1>3. o.filled \in Nat /\ o.qty \in Nat /\ o.inst \in Instruments
      /\ \A i \in Instruments : pos[i] \in Int /\ Claimed(i) \in Nat /\ Claimed(i) <= pos[i]
  BY <1>1, ClaimedNat DEF Order, TypeInv, Covered
<1>4. ASSUME NEW i \in Instruments PROVE Claimed(i)' <= pos'[i]
  <2>1. CASE o.side = "sell" /\ o.inst = i
    <3> DEFINE rest == SumFunctionOnSet(Left, Sells(i) \ {k})
    <3>1. k \in Sells(i)
      BY <1>1, <1>2, <2>1 DEF Sells
    <3>2. Claimed(i) = Left[k] + rest /\ rest \in Nat /\ Left[k] = o.qty - o.filled
      BY <3>1, ClaimedRemove, LeftFacts
    <3>3. Sells(i)' \ {k} = Sells(i) \ {k}
      BY <1>1, <1>2 DEF Sells
    <3>4. SumFunctionOnSet(Left', Sells(i) \ {k}) = rest
      <4>1. /\ Sells(i) \ {k} \subseteq Sells(i) /\ Sells(i) \ {k} \subseteq Sells(i)'
            /\ \A j \in Sells(i) \ {k} : orders'[j] = orders[j]
        BY <1>1, <3>3, LeftFacts
      <4>2. QED
        BY <4>1, ClaimedSame
    <3>5. pos'[i] = pos[i] - 1
      BY <1>1, <1>3, <2>1 DEF TypeInv
    <3>6. CASE k \in Sells(i)'
      <4>1. Claimed(i)' = Left'[k] + rest
        BY <3>3, <3>4, <3>6, ClaimedRemoveNext
      <4>2. Left'[k] = o.qty - (o.filled + 1)
        BY <1>1, <1>2 DEF Left
      <4> HIDE DEF rest, o
      <4>3. QED
        BY <1>3, <3>2, <3>5, <4>1, <4>2
    <3>7. CASE k \notin Sells(i)'
      <4>1. Sells(i)' = Sells(i) \ {k}
        BY <3>3, <3>7
      <4>2. Claimed(i)' = rest
        BY <3>4, <4>1 DEF Claimed
      <4>3. o.filled < o.qty
        BY <1>1 DEF TypeInv, Sound
      <4> HIDE DEF rest, o
      <4>4. QED
        BY <1>3, <3>2, <3>5, <4>2, <4>3
    <3>8. QED
      BY <3>6, <3>7
  <2>2. CASE ~ (o.side = "sell" /\ o.inst = i)
    <3>1. k \notin Sells(i) /\ k \notin Sells(i)'
      BY <1>1, <2>2 DEF Sells
    <3>2. Claimed(i)' = Claimed(i)
      BY <1>1, <3>1, ClaimedOther
    <3>3. pos'[i] = pos[i] \/ pos'[i] = pos[i] + 1
      BY <1>1, <1>3, <2>2 DEF TypeInv, Order, Sides
    <3>4. QED
      BY <1>3, <3>2, <3>3
  <2>3. QED
    BY <2>1, <2>2
<1>5. QED
  BY <1>4 DEF Covered

LEMMA CoveredEnds ==
  ASSUME TypeInv, TypeInv', Covered, NEW k \in DOMAIN orders, ExchangeEnds(k)
  PROVE  Covered'
<1>1. /\ k \in 1 .. Len(orders) /\ Len(orders') = Len(orders)
      /\ \A j \in 1 .. Len(orders) : j # k => orders'[j] = orders[j]
      /\ orders'[k].status \notin Open
  BY EndFacts
<1>2. DOMAIN orders = 1 .. Len(orders) /\ DOMAIN orders' = 1 .. Len(orders')
  BY DEF TypeInv
<1>3. pos' = pos
  BY DEF ExchangeEnds
<1>4. ASSUME NEW i \in Instruments PROVE Claimed(i)' <= pos[i]
  <2> DEFINE rest == SumFunctionOnSet(Left, Sells(i) \ {k})
  <2>1. Sells(i)' = Sells(i) \ {k} /\ \A j \in Sells(i) \ {k} : orders'[j] = orders[j]
    BY <1>1, <1>2, LeftFacts DEF Sells
  <2>2. Claimed(i)' = rest
    <3>1. SumFunctionOnSet(Left', Sells(i) \ {k}) = rest
      BY <2>1, ClaimedSame
    <3>2. QED
      BY <2>1, <3>1 DEF Claimed
  <2>3. rest \in Nat /\ rest <= Claimed(i)
    <3>1. CASE k \in Sells(i)
      <4>1. Claimed(i) = Left[k] + rest /\ Left[k] \in Nat /\ rest \in Nat
        BY <3>1, ClaimedRemove
      <4> HIDE DEF rest
      <4>2. QED
        BY <4>1
    <3>2. CASE k \notin Sells(i)
      <4>1. Sells(i) \ {k} = Sells(i)
        BY <3>2
      <4>2. QED
        BY <4>1, ClaimedNat DEF Claimed
    <3>3. QED
      BY <3>1, <3>2
  <2> HIDE DEF rest
  <2>4. QED
    BY <2>2, <2>3, ClaimedNat DEF Covered, TypeInv
<1>5. QED
  BY <1>3, <1>4 DEF Covered

-----------------------------------------------------------------------------
(* What the engine believes. *)

Exact(i) == held[i] = (pos[i] > 0)

(* The inductive invariant: between orders the engine knows every position *)
(* but the blind ones; while it places and polls an order it also knows    *)
(* how the position is made up of the order's fills.                       *)
BeliefInv ==
  /\ phase \in {"idle", "place"} => \A i \in Instruments \ blind : Exact(i)
  /\ phase = "place" /\ request.inst \notin blind =>
       IF request.side = "buy" THEN ~held[request.inst]
       ELSE held[request.inst] /\ request.qty = pos[request.inst]
  /\ phase = "poll" =>
       LET o == orders[polled] IN
       \A i \in Instruments \ blind :
         IF i # o.inst THEN Exact(i)
         ELSE IF o.side = "buy" THEN ~held[i] /\ pos[i] = o.filled
         ELSE held[i] /\ pos[i] = o.qty - o.filled

LEMMA PosNat == ASSUME TypeInv, Covered PROVE \A i \in Instruments : pos[i] \in Nat
<1>1. TAKE i \in Instruments
<1>2. Claimed(i) \in Nat /\ Claimed(i) <= pos[i] /\ pos[i] \in Int
  BY ClaimedNat DEF Covered, TypeInv
<1>3. QED
  BY <1>2

LEMMA BeliefStep ==
  ASSUME TypeInv, TypeInv', Covered, BeliefInv, [Next]_vars
  PROVE  Covered' /\ BeliefInv'
<1> USE DEF BeliefInv, Exact
<1>1. ASSUME UNCHANGED <<orders, pos>> PROVE Covered'
  BY <1>1 DEF Covered, Claimed, Sells, Left
<1>2. ASSUME phase' \in {"ping", "sync", "down"} PROVE BeliefInv'
  BY <1>2
<1>3. CASE Ping \/ Dies \/ Restart
  BY <1>1, <1>2, <1>3 DEF Ping, Dies, Restart, exchangeVars
<1>4. CASE Sync
  <2>1. \A i \in Instruments \ blind' : held'[i] = (pos'[i] > 0)
    BY <1>4 DEF Sync, exchangeVars
  <2>2. QED
    BY <1>1, <1>4, <2>1 DEF Sync, exchangeVars
<1>5. ASSUME NEW i \in Instruments, buy(i) PROVE Covered' /\ BeliefInv'
  BY <1>1, <1>5 DEF buy, exchangeVars
<1>6. ASSUME NEW i \in Instruments, sell(i) PROVE Covered' /\ BeliefInv'
  BY <1>1, <1>6 DEF sell, exchangeVars
<1>7. CASE Placed
  <2> DEFINE n == Len(orders) + 1
  <2>1. /\ request \in Request /\ Accepts(request) /\ polled' = n /\ phase = "place"
        /\ orders' = Append(orders, NewOrder(request))
        /\ phase' = "poll" /\ UNCHANGED <<held, pos, blind>>
    BY <1>7 DEF Placed, TypeInv
  <2>2. orders'[n] = NewOrder(request)
    BY <2>1, NewOrderFacts
  <2>3. /\ orders'[polled'].inst = request.inst /\ orders'[polled'].side = request.side
        /\ orders'[polled'].qty = request.qty /\ orders'[polled'].filled = 0
    BY <2>1, <2>2 DEF NewOrder
  <2>4. Covered'
    BY <2>1, CoveredNew
  <2>5. \A i \in Instruments : pos[i] \in Nat /\ held[i] \in BOOLEAN
    BY PosNat DEF TypeInv
  <2>6. request.qty \in Nat /\ request.inst \in Instruments
    BY <2>1 DEF Request
  <2>7. BeliefInv'
    BY <2>1, <2>3, <2>5, <2>6
  <2>8. QED
    BY <2>4, <2>7
<1>8. CASE PlaceFails
  <2>1. BeliefInv'
    BY <1>8 DEF PlaceFails
  <2>2. CASE UNCHANGED orders
    BY <1>1, <1>8, <2>1, <2>2 DEF PlaceFails
  <2>3. CASE Accepts(request) /\ orders' = Append(orders, NewOrder(request))
    BY <1>8, <2>1, <2>3, CoveredNew DEF PlaceFails, TypeInv
  <2>4. QED
    BY <1>8, <2>2, <2>3 DEF PlaceFails
<1>9. ASSUME phase = "poll", Fails PROVE Covered' /\ BeliefInv'
  <2> DEFINE o == orders[polled]
  <2>1. o \in Order /\ o.filled \in Nat /\ o.qty \in Nat \ {0} /\ o.inst \in Instruments
    <3>1. o \in Order
      BY <1>9 DEF TypeInv
    <3> HIDE DEF o
    <3>2. QED
      BY <3>1 DEF Order
  <2>2. /\ phase' = "idle" /\ UNCHANGED <<held, pos, orders>>
        /\ blind' = IF o.filled > 0 THEN blind \cup {o.inst} ELSE blind
    BY <1>9 DEF Fails, exchangeVars
  <2>3. \A i \in Instruments : pos[i] \in Nat
    BY PosNat
  <2>4. ASSUME NEW i \in Instruments \ blind' PROVE Exact(i)'
    <3>1. CASE i # o.inst
      BY <1>9, <2>2, <2>4, <3>1
    <3>2. CASE i = o.inst
      <4>1. o.filled = 0 /\ i \notin blind
        BY <2>1, <2>2, <2>4, <3>2
      <4>2. IF o.side = "buy" THEN ~held[i] /\ pos[i] = o.filled
            ELSE held[i] /\ pos[i] = o.qty - o.filled
        BY <1>9, <3>2, <4>1
      <4>3. held[i] \in BOOLEAN
        BY DEF TypeInv
      <4> HIDE DEF o
      <4>4. CASE pos[i] = 0 /\ ~held[i]
        <5>1. ~ (pos[i] > 0)
          BY <4>4
        <5>2. QED
          BY <2>2, <4>3, <4>4, <5>1
      <4>5. CASE pos[i] = o.qty /\ held[i]
        <5>1. pos[i] > 0
          BY <2>1, <4>5
        <5>2. QED
          BY <2>2, <4>3, <4>5, <5>1
      <4>6. QED
        BY <2>1, <4>1, <4>2, <4>4, <4>5
    <3>3. QED
      BY <3>1, <3>2
  <2>5. QED
    BY <1>1, <2>2, <2>4
<1>10. CASE SubmitFilled
  <2> DEFINE o == orders[polled]
  <2>1. /\ phase = "poll" /\ phase' = "idle" /\ UNCHANGED <<pos, orders>> /\ o.filled > 0
        /\ held' = [held EXCEPT ![o.inst] = (o.side = "buy")]
        /\ blind' = IF o.side = "sell" /\ o.filled < o.qty THEN blind \cup {o.inst} ELSE blind
    BY <1>10 DEF SubmitFilled, exchangeVars
  <2>2. /\ o \in Order /\ o.filled \in Nat /\ o.qty \in Nat \ {0} /\ o.inst \in Instruments
        /\ o.side \in Sides /\ o.filled <= o.qty
    <3>1. o \in Order /\ Sound(o)
      BY <2>1 DEF TypeInv
    <3> HIDE DEF o
    <3>2. QED
      BY <3>1 DEF Order, Sound
  <2>3. \A i \in Instruments : pos[i] \in Nat
    BY PosNat
  <2>4. held \in [Instruments -> BOOLEAN]
    BY DEF TypeInv
  <2>5. ASSUME NEW i \in Instruments \ blind' PROVE Exact(i)'
    <3>1. CASE i # o.inst
      <4>1. held'[i] = held[i] /\ i \notin blind
        BY <2>1, <2>2, <2>4, <2>5, <3>1
      <4>2. QED
        BY <2>1, <2>5, <3>1, <4>1
    <3>2. CASE i = o.inst
      <4>1. i \notin blind /\ held'[i] = (o.side = "buy")
        BY <2>1, <2>2, <2>4, <2>5, <3>2
      <4>2. CASE o.side = "buy"
        BY <2>1, <2>2, <3>2, <4>1, <4>2
      <4>3. CASE o.side = "sell"
        <5>1. o.filled = o.qty
          BY <2>1, <2>2, <2>5, <3>2, <4>3
        <5>2. pos[i] = 0
          BY <2>1, <2>2, <3>2, <4>1, <4>3, <5>1
        <5>3. QED
          BY <2>1, <4>1, <4>3, <5>2
      <4>4. QED
        BY <2>2, <4>2, <4>3 DEF Sides
    <3>3. QED
      BY <3>1, <3>2
  <2>6. QED
    BY <1>1, <2>1, <2>5
<1>11. ASSUME NEW k \in DOMAIN orders, ExchangeFills(k) PROVE Covered' /\ BeliefInv'
  <2> DEFINE o == orders[k]
  <2>1. /\ UNCHANGED <<phase, held, request, polled>>
        /\ blind' = IF polled = k THEN blind ELSE blind \cup {o.inst}
    BY <1>11 DEF ExchangeFills, engineVars
  <2>2. /\ k \in 1 .. Len(orders) /\ o \in Order
        /\ \A j \in 1 .. Len(orders) : j # k => orders'[j] = orders[j]
        /\ orders'[k].inst = o.inst /\ orders'[k].side = o.side /\ orders'[k].qty = o.qty
        /\ orders'[k].filled = o.filled + 1
        /\ pos' = [pos EXCEPT ![o.inst] = IF o.side = "buy" THEN @ + 1 ELSE @ - 1]
    BY <1>11, FillFacts
  <2>3. o.filled \in Nat /\ o.qty \in Nat /\ o.inst \in Instruments /\ o.side \in Sides
        /\ pos \in [Instruments -> Int]
    BY <2>2 DEF Order, TypeInv
  <2>4. \A i \in Instruments : i # o.inst => pos'[i] = pos[i]
    BY <2>2, <2>3
  <2>5. CASE polled # k
    <3>1. \A i \in Instruments \ blind' : i # o.inst /\ i \notin blind /\ pos'[i] = pos[i]
      BY <2>1, <2>4, <2>5
    <3>2. phase = "poll" => orders'[polled] = orders[polled]
      BY <2>2, <2>5 DEF TypeInv
    <3>3. phase = "place" => request.inst \in Instruments
      BY DEF TypeInv, Request
    <3>4. BeliefInv'
      BY <2>1, <3>1, <3>2, <3>3
    <3>5. QED
      BY <1>11, <3>4, CoveredFills
  <2>6. CASE polled = k
    <3>1. phase = "poll" /\ blind' = blind
      BY <2>1, <2>2, <2>6, LiveAssumption DEF TypeInv
    <3>2. pos'[o.inst] = IF o.side = "buy" THEN pos[o.inst] + 1 ELSE pos[o.inst] - 1
      BY <2>2, <2>3
    <3>3. ASSUME NEW i \in Instruments \ blind, i = o.inst
          PROVE  IF o.side = "buy" THEN ~held[i] /\ pos'[i] = o.filled + 1
                 ELSE held[i] /\ pos'[i] = o.qty - (o.filled + 1)
      BY <2>3, <2>6, <3>1, <3>2, <3>3
    <3> HIDE DEF o
    <3>4. BeliefInv'
      BY <2>1, <2>2, <2>4, <2>6, <3>1, <3>3 DEF o
    <3>5. QED
      BY <1>11, <3>4, CoveredFills
  <2>7. QED
    BY <2>5, <2>6
<1>12. ASSUME NEW k \in DOMAIN orders, ExchangeEnds(k) PROVE Covered' /\ BeliefInv'
  <2>1. UNCHANGED <<phase, held, request, polled, pos, blind>>
    BY <1>12 DEF ExchangeEnds, engineVars
  <2>2. phase = "poll" => /\ orders'[polled].inst = orders[polled].inst
                          /\ orders'[polled].side = orders[polled].side
                          /\ orders'[polled].qty = orders[polled].qty
                          /\ orders'[polled].filled = orders[polled].filled
    BY <1>12, EndFacts DEF TypeInv
  <2>3. BeliefInv'
    BY <2>1, <2>2
  <2>4. QED
    BY <1>12, <2>3, CoveredEnds
<1>13. CASE UNCHANGED vars
  BY <1>1, <1>13 DEF vars, engineVars, exchangeVars
<1> HIDE DEF BeliefInv
<1>14. CASE PollFails \/ PollTimesOut \/ ToFillRejects
  BY <1>9, <1>14 DEF PollFails, PollTimesOut, ToFillRejects
<1>15. QED
  BY <1>3, <1>4, <1>5, <1>6, <1>7, <1>8, <1>10, <1>11, <1>12, <1>13, <1>14
  DEF Next, SubmitStep

LEMMA BeliefInit == Init => Covered /\ BeliefInv
<1> SUFFICES ASSUME Init PROVE Covered /\ BeliefInv
  OBVIOUS
<1>1. \A i : Sells(i) = {}
  BY DEF Init, Sells
<1>2. Covered
  BY <1>1, SumEmpty DEF Init, Covered, Claimed
<1>3. QED
  BY <1>2 DEF Init, BeliefInv

(* What the engine believes is what the exchange holds, across buys,       *)
(* sells, rejections and restarts, for any size of an order and any        *)
(* number of them, except where an order was executed that the engine had  *)
(* given up on, a sell ended partially filled, or the positions could not  *)
(* be read at start.                                                       *)
THEOREM BeliefIsExactHolds == Spec => []BeliefIsExact
<1>1. BeliefInv => BeliefIsExact
  BY DEF BeliefInv, BeliefIsExact, Exact
<1>2. TypeInv /\ FillsAreFinal /\ Covered /\ BeliefInv /\ [Next]_vars
        => (TypeInv /\ FillsAreFinal /\ Covered /\ BeliefInv)'
  BY TypeStep, BeliefStep
<1>3. QED
  BY <1>1, <1>2, TypeInit, BeliefInit, PTL DEF Spec
=============================================================================
