--------------------------- MODULE TradingProofs ----------------------------
(***************************************************************************)
(* Theorems about PaperTrading and Strategies, for any instruments, prices,*)
(* rates, precisions, arms and windows.                                    *)
(***************************************************************************)
EXTENDS PaperTrading, Strategies, Lemmas, TLAPS

-----------------------------------------------------------------------------
(* Arithmetic of the account. *)

LEMMA DivNat ==
  ASSUME NEW n \in Nat, NEW d \in Nat \ {0}
  PROVE  /\ n \div d \in Nat
         /\ d * (n \div d) <= n
         /\ n < d * (n \div d) + d
  OBVIOUS

LEMMA RoundNat ==
  ASSUME NEW n \in Nat, NEW d \in Nat \ {0}
  PROVE  /\ Round(n, d) \in Nat
         /\ 2 * d * Round(n, d) <= 2 * n + d
         /\ 2 * n + d < 2 * d * Round(n, d) + 2 * d
<1>1. 2 * n + d \in Nat /\ 2 * d \in Nat \ {0}
  OBVIOUS
<1>2. QED
  BY <1>1, DivNat DEF Round

LEMMA MulLess ==
  ASSUME NEW d \in Nat \ {0}, NEW x \in Int, NEW y \in Int, d * x < d * y
  PROVE  x < y
<1>1. SUFFICES ASSUME y <= x PROVE FALSE
  OBVIOUS
<1>2. d * (x - y) >= 0
  BY <1>1
<1>3. d * (x - y) = d * x - d * y
  OBVIOUS
<1>4. QED
  BY <1>2, <1>3

LEMMA MulNat ==
  ASSUME NEW m \in Nat, NEW n \in Nat
  PROVE  m * n \in Nat /\ (m # 0 /\ n # 0 => m * n # 0)
  OBVIOUS

(* A fee is no more than what it is taken of. *)
LEMMA RoundFee ==
  ASSUME NEW n \in Nat, NEW x \in Nat, x <= n * 1000
  PROVE  Round(x, 1000) \in Nat /\ Round(x, 1000) <= n
<1>1. Round(x, 1000) \in Nat /\ 2 * 1000 * Round(x, 1000) <= 2 * x + 1000
  BY RoundNat
<1>2. QED
  BY <1>1

LEMMA FeeOf ==
  ASSUME NEW n \in Nat, NEW r \in 0 .. 1000
  PROVE  n * r \in Nat /\ n * r <= n * 1000
<1>1. n * (1000 - r) >= 0
  OBVIOUS
<1>2. n * (1000 - r) = n * 1000 - n * r
  OBVIOUS
<1>3. QED
  BY <1>1, <1>2

(* A price per unit, rounded, times the quantity, rounded, is the total it *)
(* was computed from, as long as there are no more units than the product  *)
(* has parts.                                                              *)
LEMMA RoundTrip ==
  ASSUME NEW t \in Nat, NEW u \in Nat \ {0}, NEW q \in Nat \ {0}, q <= u
  PROVE  Round(Round(t * u, q) * q, u) = t
<1> DEFINE a == Round(t * u, q)
           b == Round(a * q, u)
<1>1. t * u \in Nat
  BY MulNat
<1>2. a \in Nat /\ 2 * q * a <= 2 * (t * u) + q /\ 2 * (t * u) + q < 2 * q * a + 2 * q
  BY <1>1, RoundNat
<1>3. a * q \in Nat
  BY <1>2, MulNat
<1>4. b \in Nat /\ 2 * u * b <= 2 * (a * q) + u /\ 2 * (a * q) + u < 2 * u * b + 2 * u
  BY <1>3, RoundNat
<1>5. b = t
  <2> HIDE DEF a, b
  <2> DEFINE X == a * q
             Y == t * u
             Z == u * b
  <2>1. X \in Nat /\ Y \in Nat /\ Z \in Nat
    BY <1>1, <1>2, <1>3, <1>4, MulNat
  <2>2. 2 * q * a = 2 * X /\ 2 * u * b = 2 * Z
    BY <1>2, <1>4
  <2>3. u * t = Y /\ u * (t + 1) = Y + u /\ u * (b + 1) = Z + u
    BY <1>4
  <2>4. 2 * X <= 2 * Y + q /\ 2 * Y + q < 2 * X + 2 * q
    BY <1>2, <2>2
  <2>5. 2 * Z <= 2 * X + u /\ 2 * X + u < 2 * Z + 2 * u
    BY <1>4, <2>2
  <2>6. Y < Z + u
    <3> HIDE DEF X, Y, Z
    <3> QED BY <2>1, <2>4, <2>5
  <2>7. t < b + 1
    BY <1>4, <2>3, <2>6, MulLess
  <2>8. CASE q < u
    <3>1. Z < Y + u
      <4> HIDE DEF X, Y, Z
      <4> QED BY <2>1, <2>4, <2>5, <2>8
    <3>2. b < t + 1
      BY <1>4, <2>3, <3>1, MulLess
    <3>3. QED
      BY <1>4, <2>7, <3>2
  <2>9. CASE q = u
    <3>1. u * a = X
      BY <1>2, <2>9
    <3>2. X < Y + u
      <4> HIDE DEF X, Y, Z
      <4> QED BY <2>1, <2>4, <2>9
    <3>3. a < t + 1
      BY <1>2, <2>3, <3>1, <3>2, MulLess
    <3>4. u * a <= u * t
      BY <1>2, <3>3
    <3>5. Z < Y + u
      <4>1. X <= Y
        BY <2>3, <3>1, <3>4
      <4> HIDE DEF X, Y, Z
      <4> QED BY <2>1, <2>5, <4>1
    <3>6. b < t + 1
      BY <1>4, <2>3, <3>5, MulLess
    <3>7. QED
      BY <1>4, <2>7, <3>6
  <2>10. QED
    BY <2>8, <2>9
<1>6. QED
  BY <1>5

-----------------------------------------------------------------------------
(* The account's operations on a book. *)

Marks == [Instruments -> Prices \cup {None}]

Costs(b) == SumFunctionOnSet([i \in Instruments |-> Cost(b.positions[i])], Held(b))

LEMMA NotionalNat ==
  ASSUME NEW p \in Nat, NEW q \in Nat
  PROVE  Notional(p, q) \in Nat
<1>1. p * q \in Nat /\ PriceUnit * QtyUnit \in Nat \ {0}
  BY MulNat, PaperAssumption
<1>2. QED
  BY <1>1, RoundNat DEF Notional

LEMMA BookFacts ==
  ASSUME NEW b \in Books
  PROVE  /\ Held(b) \subseteq Instruments /\ IsFiniteSet(Held(b))
         /\ \A i \in Held(b) : b.positions[i] \in Position /\ Cost(b.positions[i]) \in Nat
<1>1. Held(b) \subseteq Instruments /\ IsFiniteSet(Held(b))
  BY MarketAssumption, FS_Subset DEF Held
<1>2. ASSUME NEW i \in Held(b)
      PROVE  b.positions[i] \in Position /\ Cost(b.positions[i]) \in Nat
  <2>1. b.positions \in [Instruments -> Position \cup {None}]
    BY DEF Books
  <2>2. b.positions[i] \in Position
    BY <2>1 DEF Held
  <2>3. b.positions[i].avgEntry \in Nat /\ b.positions[i].quantity \in Nat
    BY <2>2 DEF Position
  <2>4. QED
    BY <2>2, <2>3, NotionalNat DEF Cost
<1>3. QED
  BY <1>1, <1>2

LEMMA EquityNat ==
  ASSUME NEW b \in Books, NEW ms \in Marks
  PROVE  equity(b, ms) \in Nat
<1> DEFINE f == [i \in Instruments |-> IF ms[i] = None THEN Cost(b.positions[i])
                                       ELSE Notional(ms[i], b.positions[i].quantity)]
<1>1. ASSUME NEW i \in Held(b) PROVE f[i] \in Nat
  <2>1. /\ b.positions[i] \in Position /\ Cost(b.positions[i]) \in Nat
        /\ i \in Instruments
    BY BookFacts
  <2>2. CASE ms[i] = None
    BY <2>1, <2>2
  <2>3. CASE ms[i] # None
    <3>1. ms[i] \in Nat /\ b.positions[i].quantity \in Nat
      BY <2>1, <2>3, MarketAssumption DEF Marks, Position
    <3>2. QED
      BY <2>1, <2>3, <3>1, NotionalNat
  <2>4. QED
    BY <2>2, <2>3
<1>2. SumFunctionOnSet(f, Held(b)) \in Nat
  <2> HIDE DEF f
  <2> QED BY <1>1, BookFacts, SumNat
<1>3. b.cash \in Nat
  BY DEF Books
<1>4. QED
  BY <1>2, <1>3 DEF equity, positionValue

(* What Affordable lets through costs no more than the cash there is. *)
PerMille == 0 .. 1000
Orders == [qty : Nat, fee : Nat, total : Nat]

LEMMA OrderNat ==
  ASSUME NEW b \in Books, NEW ms \in Marks, NEW ref \in Prices, NEW strength \in PerMille
  PROVE  Order(b, ms, ref, strength) \in Orders
<1> DEFINE price  == applyRate(ref, 1000 + Slippage)
           sizing == Sizing(b, ms, strength)
           budget == Round(sizing * 1000, 1000 + Fee)
           qty    == Round(budget * PriceUnit * QtyUnit, price)
           fee    == Round(Notional(price, qty) * Fee, 1000)
<1>1. ref \in Nat \ {0} /\ Slippage \in Nat /\ Fee \in 0 .. 1000 /\ Fraction \in Nat
  BY MarketAssumption, PaperAssumption, SMTT(30)
<1>2. price \in Nat \ {0}
  <2>1. ref * (1000 + Slippage) \in Nat
    BY <1>1, MulNat
  <2>2. ref * (1000 + Slippage) >= 1000
    <3>1. ref * Slippage >= 0 /\ ref * (1000 + Slippage) = ref * 1000 + ref * Slippage
      BY <1>1
    <3>2. QED
      BY <1>1, <3>1
  <2> DEFINE x == ref * (1000 + Slippage)
  <2>3. price \in Nat /\ 2 * x + 1000 < 2 * 1000 * price + 2 * 1000
    BY <2>1, RoundNat, SMTT(30) DEF applyRate
  <2> HIDE DEF x, price
  <2>4. QED
    BY <2>1, <2>2, <2>3 DEF x
<1>3. sizing \in Nat
  <2>1. equity(b, ms) \in Nat /\ b.cash \in Nat
    BY EquityNat DEF Books
  <2>2. equity(b, ms) * Fraction \in Nat
    BY <1>1, <2>1, MulNat
  <2>3. equity(b, ms) * Fraction * strength \in Nat
    <3>1. strength \in Nat
      BY DEF PerMille
    <3>2. QED
      BY <2>2, <3>1, MulNat
  <2>4. Round(equity(b, ms) * Fraction * strength, 1000 * 1000) \in Nat
    <3> DEFINE n == equity(b, ms) * Fraction * strength
               d == 1000 * 1000
    <3>1. n \in Nat /\ d \in Nat \ {0}
      BY <2>3, SMT
    <3> HIDE DEF n, d
    <3>2. Round(n, d) \in Nat
      BY <3>1, RoundNat
    <3>3. QED
      BY <3>2, SMT DEF n, d
  <2>5. QED
    BY <2>1, <2>4, MinPair DEF Sizing
<1>4. budget \in Nat
  <2> HIDE DEF sizing
  <2> DEFINE n == sizing * 1000
             d == 1000 + Fee
  <2>1. n \in Nat /\ d \in Nat \ {0}
    BY <1>1, <1>3
  <2> HIDE DEF n, d
  <2>2. Round(n, d) \in Nat
    BY <2>1, RoundNat
  <2>3. QED
    BY <2>2 DEF n, d
<1>5. qty \in Nat
  <2> HIDE DEF budget, price
  <2>1. budget * PriceUnit \in Nat
    BY <1>4, PaperAssumption, MulNat
  <2>2. budget * PriceUnit * QtyUnit \in Nat
    BY <2>1, PaperAssumption, MulNat
  <2>3. QED
    BY <1>2, <2>2, RoundNat
<1>6. fee \in Nat /\ Notional(price, qty) \in Nat
  <2> HIDE DEF qty, price
  <2>1. Notional(price, qty) \in Nat
    BY <1>2, <1>5, NotionalNat
  <2> DEFINE n == Notional(price, qty) * Fee
  <2>2. n \in Nat
    BY <1>1, <2>1, MulNat
  <2> HIDE DEF n
  <2>3. Round(n, 1000) \in Nat
    BY <2>2, RoundNat
  <2>4. QED
    BY <2>1, <2>3 DEF n
<1>7. Order(b, ms, ref, strength) = [qty |-> qty, fee |-> fee, total |-> Notional(price, qty) + fee]
  BY DEF Order
<1> HIDE DEF qty, fee, price
<1>8. QED
  BY <1>5, <1>6, <1>7 DEF Orders

(* A position joins the book: what it costs is what was paid, if it is not *)
(* of more than PriceUnit whole coins.                                     *)
LEMMA BoughtFacts ==
  ASSUME NEW b \in Books, NEW i \in Instruments, NEW o \in Orders,
         b.positions[i] = None, Affordable(b, o)
  PROVE  /\ bought(b, i, o) \in Books
         /\ i \notin Held(b) /\ Held(bought(b, i, o)) = Held(b) \cup {i}
         /\ \A j \in Held(b) : bought(b, i, o).positions[j] = b.positions[j]
         /\ bought(b, i, o).positions[i].quantity = o.qty
         /\ o.qty <= PriceUnit * QtyUnit => Cost(bought(b, i, o).positions[i]) = o.total
<1> DEFINE c == bought(b, i, o)
           u == PriceUnit * QtyUnit
           n == o.total * PriceUnit * QtyUnit
           pos == [quantity |-> o.qty, avgEntry |-> Round(n, o.qty)]
<1>1. o.qty \in Nat \ {0} /\ o.fee \in Nat /\ o.total \in Nat /\ o.total <= b.cash
  BY DEF Orders, Affordable
<1>2. n \in Nat /\ n = o.total * u /\ u \in Nat \ {0}
  <2>1. o.total * PriceUnit \in Nat
    BY <1>1, PaperAssumption, MulNat
  <2>2. n \in Nat /\ u \in Nat \ {0}
    BY <2>1, PaperAssumption, MulNat
  <2>3. n = o.total * u
    BY <1>1, PaperAssumption
  <2>4. QED
    BY <2>2, <2>3
<1>3. pos \in Position
  <2>1. Round(n, o.qty) \in Nat
    <3> HIDE DEF n
    <3> QED BY <1>1, <1>2, RoundNat
  <2> HIDE DEF n
  <2> QED BY <1>1, <2>1 DEF Position
<1>4. c = [b EXCEPT !.cash = @ - o.total, !.fees = @ + o.fee, !.positions[i] = pos,
                    !.trades = @ + 1]
  BY DEF bought
<1> HIDE DEF c, pos
<1>5. /\ b.positions \in [Instruments -> Position \cup {None}]
      /\ b.cash \in Nat /\ b.fees \in Nat /\ b.trades \in Nat
  BY DEF Books
<1>6. [b.positions EXCEPT ![i] = pos] \in [Instruments -> Position \cup {None}]
  BY <1>3, <1>5
<1>7. c \in Books
  <2> DEFINE ps == [b.positions EXCEPT ![i] = pos]
             cash == b.cash - o.total
             fees == b.fees + o.fee
             trades == b.trades + 1
  <2>1. cash \in Nat /\ fees \in Nat /\ trades \in Nat
    BY <1>1, <1>5
  <2>2. c = [b EXCEPT !.cash = cash, !.fees = fees, !.positions = ps, !.trades = trades]
    BY <1>4 DEF Books
  <2> HIDE DEF ps, cash, fees, trades
  <2>3. QED
    BY <1>6, <2>1, <2>2 DEF Books, ps
<1>8. c.positions = [b.positions EXCEPT ![i] = pos]
  BY <1>4 DEF Books
<1>9. pos # None
  BY <1>3, NothingAssumption
<1>10. i \notin Held(b) /\ Held(c) = Held(b) \cup {i}
  BY <1>5, <1>8, <1>9 DEF Held
<1>11. /\ \A j \in Held(b) : c.positions[j] = b.positions[j]
       /\ c.positions[i] = pos
  BY <1>5, <1>8, <1>10 DEF Held
<1>12. ASSUME o.qty <= u PROVE Cost(pos) = o.total
  <2>1. Cost(pos) = Round(Round(n, o.qty) * o.qty, u)
    BY DEF Cost, Notional, pos
  <2>2. Round(Round(o.total * u, o.qty) * o.qty, u) = o.total
    <3> HIDE DEF u
    <3> QED BY <1>1, <1>2, <1>12, RoundTrip, SMTT(30)
  <2>3. QED
    <3> HIDE DEF n, u
    <3> QED BY <1>2, <2>1, <2>2
<1>13. QED
  BY <1>7, <1>10, <1>11, <1>12 DEF c, pos

LEMMA BuyFacts ==
  ASSUME NEW b \in Books, NEW ms \in Marks, NEW i \in Instruments,
         NEW ref \in Prices, NEW strength \in PerMille
  PROVE  \/ buy(b, ms, i, ref, strength) = b
         \/ \E o \in Orders : /\ b.positions[i] = None /\ Affordable(b, o)
                             /\ buy(b, ms, i, ref, strength) = bought(b, i, o)
<1> DEFINE o == Order(b, ms, ref, strength)
<1> HIDE DEF o
<1>1. o \in Orders
  BY OrderNat DEF o
<1>2. \/ buy(b, ms, i, ref, strength) = b
      \/ /\ b.positions[i] = None /\ Affordable(b, o)
         /\ buy(b, ms, i, ref, strength) = bought(b, i, o)
  BY DEF buy, o
<1>3. QED
  BY <1>1, <1>2

(* A position leaves the book. *)
LEMMA SellFacts ==
  ASSUME NEW b \in Books, NEW i \in Instruments, NEW ref \in Prices, b.positions[i] # None
  PROVE  LET c == sell(b, i, ref)
             gain == c.realized - b.realized
         IN  /\ c \in Books
             /\ Held(c) = Held(b) \ {i}
             /\ \A j \in Held(c) : c.positions[j] = b.positions[j]
             /\ gain \in Int /\ c.cash = b.cash + gain + Cost(b.positions[i])
             /\ c.trades = b.trades + 1
             /\ c.wins + c.losses = b.wins + b.losses + 1
<1> DEFINE p        == b.positions[i]
           notional == Notional(applyRate(ref, 1000 - Slippage), p.quantity)
           fee      == Round(notional * Fee, 1000)
           gain     == notional - fee - Cost(p)
           c        == sell(b, i, ref)
           nopos    == [b.positions EXCEPT ![i] = None]
<1>1. /\ b.positions \in [Instruments -> Position \cup {None}]
      /\ b.cash \in Nat /\ b.fees \in Nat /\ b.trades \in Nat
      /\ b.realized \in Int /\ b.wins \in Nat /\ b.losses \in Nat
  BY DEF Books
<1>2. p \in Position /\ p.quantity \in Nat
  BY <1>1 DEF Position
<1>3. Cost(p) \in Nat
  BY BookFacts DEF Held
<1>4. applyRate(ref, 1000 - Slippage) \in Nat
  <2> DEFINE n == ref * (1000 - Slippage)
  <2>1. 1000 - Slippage \in Nat /\ ref \in Nat
    BY MarketAssumption, PaperAssumption
  <2>2. n \in Nat
    BY <2>1, MulNat
  <2> HIDE DEF n
  <2>3. Round(n, 1000) \in Nat
    BY <2>2, RoundNat
  <2>4. QED
    BY <2>3 DEF n, applyRate
<1>5. notional \in Nat
  <2> DEFINE r == applyRate(ref, 1000 - Slippage)
             q == p.quantity
  <2>1. r \in Nat /\ q \in Nat
    BY <1>2, <1>4
  <2> HIDE DEF r, q
  <2>2. Notional(r, q) \in Nat
    BY <2>1, NotionalNat
  <2>3. QED
    BY <2>2 DEF r, q
<1>6. fee \in Nat /\ fee <= notional
  <2> HIDE DEF notional
  <2> DEFINE x == notional * Fee
  <2>1. x \in Nat /\ x <= notional * 1000
    BY <1>5, PaperAssumption, FeeOf
  <2> HIDE DEF x
  <2>2. Round(x, 1000) \in Nat /\ Round(x, 1000) <= notional
    BY <1>5, <2>1, RoundFee
  <2>3. QED
    BY <2>2 DEF x
<1>7. c = [b EXCEPT !.cash = @ + notional - fee, !.fees = @ + fee, !.realized = @ + gain,
                    !.wins = IF gain >= 0 THEN @ + 1 ELSE @,
                    !.losses = IF gain < 0 THEN @ + 1 ELSE @,
                    !.positions[i] = None, !.trades = @ + 1]
  BY DEF sell
<1>8. gain \in Int
  <2> HIDE DEF notional, fee, p
  <2> QED BY <1>3, <1>5, <1>6
<1>9. nopos \in [Instruments -> Position \cup {None}]
  BY <1>1
<1>10. b.cash + notional - fee = b.cash + gain + Cost(p) /\ b.cash + notional - fee \in Nat
  <2> HIDE DEF notional, fee, p
  <2> QED BY <1>1, <1>3, <1>5, <1>6
<1> HIDE DEF c, notional, fee, gain, nopos
<1>11. /\ c.cash = b.cash + notional - fee /\ c.positions = nopos /\ c.trades = b.trades + 1
       /\ c.realized = b.realized + gain
       /\ c.wins = (IF gain >= 0 THEN b.wins + 1 ELSE b.wins)
       /\ c.losses = (IF gain < 0 THEN b.losses + 1 ELSE b.losses)
  BY <1>7 DEF Books, nopos
<1>12. c \in Books
  <2> DEFINE cash == b.cash + notional - fee
             fees == b.fees + fee
             realized == b.realized + gain
             wins == IF gain >= 0 THEN b.wins + 1 ELSE b.wins
             losses == IF gain < 0 THEN b.losses + 1 ELSE b.losses
             trades == b.trades + 1
  <2>1. /\ cash \in Nat /\ fees \in Nat /\ realized \in Int
        /\ wins \in Nat /\ losses \in Nat /\ trades \in Nat
    BY <1>1, <1>6, <1>8, <1>10
  <2>2. c = [b EXCEPT !.cash = cash, !.fees = fees, !.realized = realized, !.wins = wins,
                      !.losses = losses, !.positions = nopos, !.trades = trades]
    BY <1>7 DEF Books, nopos
  <2> HIDE DEF cash, fees, realized, wins, losses, trades
  <2>3. QED
    BY <1>9, <2>1, <2>2 DEF Books
<1>13. Held(c) = Held(b) \ {i} /\ \A j \in Held(c) : c.positions[j] = b.positions[j]
  BY <1>1, <1>11 DEF Held, nopos
<1>14. c.wins + c.losses = b.wins + b.losses + 1
  BY <1>1, <1>8, <1>11
<1>15. c.realized - b.realized = gain
  BY <1>1, <1>8, <1>11
<1>16. QED
  BY <1>8, <1>10, <1>11, <1>12, <1>13, <1>14, <1>15 DEF c

(* A mark moves only the watermark and the worst fall from it. *)
LEMMA MarkedFacts ==
  ASSUME NEW b \in Books, NEW ms \in Marks
  PROVE  LET c == marked(b, ms)
         IN  /\ c \in Books /\ c.positions = b.positions /\ c.cash = b.cash
             /\ c.realized = b.realized /\ c.trades = b.trades
             /\ c.wins = b.wins /\ c.losses = b.losses
<1> DEFINE e    == equity(b, ms)
           peak == Max({b.peak, e})
           dd   == [lost |-> peak - e, of |-> peak]
           worst == IF dd.lost * b.maxDD.of > b.maxDD.lost * dd.of THEN dd ELSE b.maxDD
           c    == marked(b, ms)
<1>1. e \in Nat /\ b.peak \in Nat \ {0} /\ b.maxDD \in [lost : Nat, of : Nat \ {0}]
  BY EquityNat DEF Books
<1> HIDE DEF e
<1>2. peak \in Nat \ {0} /\ peak >= e
  BY <1>1, MaxPair
<1> HIDE DEF peak
<1>3. dd \in [lost : Nat, of : Nat \ {0}]
  BY <1>1, <1>2
<1> HIDE DEF dd
<1>4. worst \in [lost : Nat, of : Nat \ {0}]
  BY <1>1, <1>3
<1>5. c = [b EXCEPT !.peak = peak, !.maxDD = worst]
  BY DEF marked, e, peak, dd, worst
<1> HIDE DEF worst, c
<1>6. QED
  BY <1>2, <1>4, <1>5 DEF Books, c

-----------------------------------------------------------------------------
(* Types of the paper engine. *)

LEMMA NewBookFacts ==
  NewBook \in Books /\ Held(NewBook) = {} /\ Balanced(NewBook) /\ Counted(NewBook)
<1>1. NewBook \in Books
  BY PaperAssumption DEF NewBook, Books
<1>2. Held(NewBook) = {}
  BY DEF NewBook, Held
<1>3. NewBook.cash = StartingCash /\ NewBook.realized = 0
      /\ NewBook.trades = 0 /\ NewBook.wins = 0 /\ NewBook.losses = 0
  BY DEF NewBook
<1>4. Balanced(NewBook)
  BY <1>2, <1>3, SumEmpty, PaperAssumption DEF Balanced
<1>5. Counted(NewBook)
  BY <1>2, <1>3, FS_EmptySet DEF Counted
<1>6. QED
  BY <1>1, <1>2, <1>4, <1>5

LEMMA RestoreFacts ==
  ASSUME NEW f \in Books \cup {None, Torn}
  PROVE  /\ restore(f) \in Books
         /\ f \in {None, Torn} => restore(f) = NewBook
         /\ f \notin {None, Torn} => restore(f) = f
  BY NewBookFacts DEF restore

(* Apply is a purchase, a sale, or nothing. *)
LEMMA ApplyFacts ==
  ASSUME TypeOK, Apply
  PROVE  \/ book' = book
         \/ \E i \in Instruments, o \in Orders :
              book.positions[i] = None /\ Affordable(book, o) /\ book' = bought(book, i, o)
         \/ \E i \in Instruments, p \in Prices :
              book.positions[i] # None /\ book' = sell(book, i, p)
<1> DEFINE i == sig.inst
<1>1. /\ sig \in Signal /\ book \in Books
      /\ last \in Marks /\ marks \in Marks
  BY DEF TypeOK, Apply, Marks
<1>2. i \in Instruments /\ sig.strength \in 0 .. 1000
  BY <1>1 DEF Signal
<1>3. CASE last[i] = None
  BY <1>3 DEF Apply
<1>4. CASE last[i] # None /\ sig.action = "buy"
  <2>1. last[i] \in Prices
    BY <1>1, <1>2, <1>4 DEF Marks
  <2>2. book' = buy(book, marks, i, last[i], sig.strength)
    BY <1>4 DEF Apply
  <2> DEFINE c == buy(book, marks, i, last[i], sig.strength)
  <2>3. \/ c = book
        \/ \E o \in Orders : /\ book.positions[i] = None /\ Affordable(book, o)
                            /\ c = bought(book, i, o)
    <3> DEFINE ref == last[i]
               strength == sig.strength
    <3>1. ref \in Prices /\ strength \in PerMille /\ i \in Instruments
      BY <1>2, <2>1 DEF PerMille
    <3> HIDE DEF i, ref, strength
    <3>2. \/ buy(book, marks, i, ref, strength) = book
          \/ \E o \in Orders : /\ book.positions[i] = None /\ Affordable(book, o)
                              /\ buy(book, marks, i, ref, strength) = bought(book, i, o)
      BY <1>1, <3>1, BuyFacts
    <3>3. QED
      BY <3>2 DEF ref, strength
  <2>4. QED
    BY <1>2, <2>2, <2>3
<1>5. CASE last[i] # None /\ sig.action # "buy"
  <2>1. last[i] \in Prices
    BY <1>1, <1>2, <1>5 DEF Marks
  <2>2. book' = sell(book, i, last[i])
    BY <1>5 DEF Apply
  <2>3. CASE book.positions[i] = None
    BY <2>2, <2>3 DEF sell
  <2>4. QED
    BY <1>2, <2>1, <2>2, <2>3
<1>6. QED
  BY <1>3, <1>4, <1>5

LEMMA ApplyBook == ASSUME TypeOK, Apply PROVE book' \in Books
<1>1. book \in Books
  BY DEF TypeOK
<1>2. QED
  BY <1>1, ApplyFacts, BoughtFacts, SellFacts

LEMMA PaperTypeInit == Init => TypeOK
<1> SUFFICES ASSUME Init PROVE TypeOK
  OBVIOUS
<1>2. /\ last = [i \in Instruments |-> None] /\ market = [i \in Instruments |-> None]
      /\ marks = [i \in Instruments |-> None] /\ book \in Books
      /\ phase = "loop" /\ runs = 1 /\ moves = 0 /\ sig = None /\ disk = None /\ tmp = None
  BY NewBookFacts DEF Init, NoMarks
<1>3. stopping \in BOOLEAN /\ failed \in BOOLEAN
  BY DEF Init
<1>4. QED
  BY <1>2, <1>3 DEF TypeOK

LEMMA PaperTypeStep == TypeOK /\ [Next]_vars => TypeOK'
<1> SUFFICES ASSUME TypeOK, [Next]_vars PROVE TypeOK'
  OBVIOUS
<1>0. /\ book \in Books /\ market \in Marks /\ last \in Marks /\ marks \in Marks
      /\ disk \in Books \cup {None, Torn} /\ tmp \in Books \cup {None, Torn}
      /\ runs \in Nat /\ moves \in Nat /\ stopping \in BOOLEAN /\ failed \in BOOLEAN
      /\ phase \in {"loop", "wait", "rename", "gone", "dead"}
      /\ sig \in (IF phase = "wait" THEN Signal ELSE {None})
  BY DEF TypeOK, Marks
<1>1. ASSUME NEW i \in Instruments, NEW p \in Prices, MarketMoves(i, p) PROVE TypeOK'
  <2>1. market' \in Marks
    BY <1>0, <1>1 DEF MarketMoves, Marks
  <2>2. QED
    BY <1>0, <1>1, <2>1 DEF MarketMoves, TypeOK, Marks
<1>2. ASSUME NEW i \in Instruments, Receive(i) PROVE TypeOK'
  <2>1. last' \in Marks
    BY <1>0, <1>2 DEF Receive, Marks
  <2>2. QED
    BY <1>0, <1>2, <2>1 DEF Receive, TypeOK, Marks
<1>3. CASE Mark
  <2>1. book' \in Books
    BY <1>0, <1>3, MarkedFacts DEF Mark
  <2>2. QED
    BY <1>0, <1>3, <2>1 DEF Mark, TypeOK, Marks
<1>4. ASSUME NEW i \in Instruments, NEW a \in {"buy", "sell"}, NEW s \in 0 .. 1000,
             Evaluate(i, a, s)
      PROVE  TypeOK'
  <2>1. sig' \in Signal
    BY <1>4 DEF Evaluate, Signal
  <2>2. QED
    BY <1>0, <1>4, <2>1 DEF Evaluate, TypeOK, Marks
<1>5. CASE Apply
  <2>1. book' \in Books
    BY <1>5, ApplyBook
  <2>2. QED
    BY <1>0, <1>5, <2>1 DEF Apply, TypeOK, Marks
<1>6. CASE WaitCancelled
  BY <1>0, <1>6 DEF WaitCancelled, TypeOK, Marks
<1>7. CASE Stop
  BY <1>0, <1>7 DEF Stop, TypeOK, Marks
<1>8. CASE SaveWrites
  BY <1>0, <1>8 DEF SaveWrites, TypeOK, Marks
<1>9. CASE SaveRenames
  BY <1>0, <1>9 DEF SaveRenames, AfterSave, TypeOK, Marks
<1>10. CASE SaveFails
  BY <1>0, <1>10 DEF SaveFails, AfterSave, TypeOK, Marks
<1>11. CASE Dies
  BY <1>0, <1>11 DEF Dies, TypeOK, Marks
<1>12. CASE Restart
  <2>1. book' \in Books
    BY <1>0, <1>12, RestoreFacts, NewBookFacts DEF Restart
  <2>2. last' \in Marks /\ marks' \in Marks
    BY <1>12 DEF Restart, NoMarks, Marks
  <2>3. stopping' \in BOOLEAN /\ failed' \in BOOLEAN
    BY <1>12 DEF Restart
  <2>4. /\ runs' \in Nat /\ phase' = "loop" /\ sig' = None /\ moves' = moves
        /\ market' = market /\ disk' = disk /\ tmp' = tmp
    BY <1>0, <1>12 DEF Restart
  <2>5. QED
    BY <1>0, <2>1, <2>2, <2>3, <2>4 DEF TypeOK, Marks
<1>13. CASE UNCHANGED vars
  BY <1>0, <1>13 DEF vars, TypeOK, Marks
<1>14. QED
  <2>1. Strengths \subseteq 0 .. 1000 /\ 1000 \in 0 .. 1000
    BY PaperAssumption, SMT
  <2>2. CASE Working
    BY <1>2, <1>3, <1>4, <1>5, <1>6, <1>7, <2>1, <2>2, SMTT(30) DEF Working
  <2>3. QED
    BY <1>1, <1>8, <1>9, <1>10, <1>11, <1>12, <1>13, <2>2 DEF Next

(* The account never spends money it does not have, whatever the prices,   *)
(* rates and precisions, and every book, price and file has its type.      *)
THEOREM PaperTypeCorrect == Spec => []TypeOK
  BY PaperTypeInit, PaperTypeStep, PTL DEF Spec

-----------------------------------------------------------------------------
(* The state file. *)

(* What is about to be renamed is the whole book, as it is. *)
FileInv == TypeOK /\ StateFileIsWhole /\ (phase = "rename" => tmp = book)

LEMMA FileInit == Init => FileInv
<1> SUFFICES ASSUME Init PROVE FileInv
  OBVIOUS
<1>1. phase = "loop" /\ disk = None
  BY DEF Init
<1>2. QED
  BY <1>1, PaperTypeInit, NothingAssumption DEF FileInv, StateFileIsWhole

LEMMA FileStep == FileInv /\ [Next]_vars => FileInv'
<1> SUFFICES ASSUME FileInv, [Next]_vars PROVE FileInv'
  OBVIOUS
<1>0. TypeOK' /\ TypeOK /\ book \in Books
  BY PaperTypeStep DEF FileInv, TypeOK
<1>1. /\ disk # Torn /\ (phase = "gone" /\ ~failed => disk = book)
      /\ (phase = "rename" => tmp = book)
  BY DEF FileInv, StateFileIsWhole
<1>2. SUFFICES /\ disk' # Torn /\ (phase' = "gone" /\ ~failed' => disk' = book')
               /\ (phase' = "rename" => tmp' = book')
  BY <1>0, <1>2 DEF FileInv, StateFileIsWhole
<1>3. ASSUME NEW i \in Instruments, NEW p \in Prices, MarketMoves(i, p)
      PROVE  UNCHANGED <<phase, failed, disk, tmp, book>>
  BY <1>3 DEF MarketMoves
<1>4. CASE Working
  <2>1. disk' = disk /\ phase' \in {"loop", "wait"}
    BY <1>4 DEF Working, Receive, Mark, Evaluate, Apply, WaitCancelled, Stop
  <2>2. QED
    BY <1>1, <2>1
<1>5. CASE SaveWrites
  BY <1>1, <1>5 DEF SaveWrites
<1>6. CASE SaveRenames
  BY <1>0, <1>1, <1>6, NothingAssumption DEF SaveRenames, AfterSave
<1>7. CASE SaveFails
  BY <1>1, <1>7 DEF SaveFails, AfterSave
<1>8. CASE Dies
  BY <1>1, <1>8 DEF Dies
<1>9. CASE Restart
  BY <1>1, <1>9 DEF Restart
<1>10. CASE UNCHANGED vars
  BY <1>1, <1>10 DEF vars
<1>11. QED
  BY <1>1, <1>3, <1>4, <1>5, <1>6, <1>7, <1>8, <1>9, <1>10 DEF Next

(* Whenever the process dies, in whatever step of a save and however many  *)
(* saves failed, the state file is a whole book or absent; an engine that  *)
(* returned from a successful save left its last book in it.               *)
THEOREM StateFileIsWholeHolds == Spec => []StateFileIsWhole
<1>1. FileInv => StateFileIsWhole
  BY DEF FileInv
<1>2. QED
  BY <1>1, FileInit, FileStep, PTL DEF Spec

-----------------------------------------------------------------------------
(* The books. *)

(* No position is of more than PriceUnit whole coins; the code has 10^6.   *)
SmallPositions ==
  \A i \in Held(book) : book.positions[i].quantity <= PriceUnit * QtyUnit

LEMMA BalancedSame ==
  ASSUME NEW b \in Books, NEW c \in Books, c.positions = b.positions, c.cash = b.cash,
         c.realized = b.realized, c.trades = b.trades, c.wins = b.wins, c.losses = b.losses,
         Balanced(b), Counted(b)
  PROVE  Balanced(c) /\ Counted(c)
<1>1. Held(c) = Held(b)
  BY DEF Held
<1>2. QED
  BY <1>1 DEF Balanced, Counted

(* What a book says its positions cost, when one of them joins or leaves.  *)
LEMMA CostsStep ==
  ASSUME NEW b \in Books, NEW c \in Books, NEW i \in Held(c), Held(b) = Held(c) \ {i},
         \A j \in Held(b) : c.positions[j] = b.positions[j]
  PROVE  /\ Costs(b) \in Nat /\ Costs(c) = Cost(c.positions[i]) + Costs(b)
         /\ Cardinality(Held(b)) \in Nat
         /\ Cardinality(Held(c)) = Cardinality(Held(b)) + 1
<1> DEFINE f == [j \in Instruments |-> Cost(b.positions[j])]
           g == [j \in Instruments |-> Cost(c.positions[j])]
           S == Held(b)
<1>1. /\ Held(c) \subseteq Instruments /\ IsFiniteSet(Held(c)) /\ IsFiniteSet(S)
      /\ S \subseteq Instruments
      /\ \A j \in Held(c) : Cost(c.positions[j]) \in Nat
      /\ \A j \in S : Cost(b.positions[j]) \in Nat
  BY BookFacts
<1>2. /\ \A j \in Held(c) : g[j] \in Nat
      /\ \A j \in S : f[j] \in Nat /\ f[j] = g[j]
      /\ g[i] = Cost(c.positions[i])
  BY <1>1
<1>3. Costs(b) = SumFunctionOnSet(f, S) /\ Costs(c) = SumFunctionOnSet(g, Held(c))
  BY DEF Costs
<1> HIDE DEF f, g
<1>4. SumFunctionOnSet(f, S) \in Nat
  BY <1>1, <1>2, SumNat
<1>5. SumFunctionOnSet(f, S) = SumFunctionOnSet(g, S)
  BY <1>1, <1>2, SumSame
<1>6. SumFunctionOnSet(g, Held(c)) = g[i] + SumFunctionOnSet(g, Held(c) \ {i})
  BY <1>1, <1>2, SumRemove
<1>7. /\ Cardinality(S) \in Nat /\ Cardinality(Held(c)) \in Nat
      /\ Cardinality(S) = Cardinality(Held(c)) - 1
  BY <1>1, FS_CardinalityType, FS_RemoveElement
<1>8. QED
  BY <1>2, <1>3, <1>4, <1>5, <1>6, <1>7

LEMMA BalancedBuy ==
  ASSUME NEW b \in Books, NEW i \in Instruments, NEW o \in Orders, b.positions[i] = None,
         Affordable(b, o), o.qty <= PriceUnit * QtyUnit, Balanced(b), Counted(b)
  PROVE  Balanced(bought(b, i, o)) /\ Counted(bought(b, i, o))
<1> DEFINE c == bought(b, i, o)
<1>1. /\ c \in Books /\ i \notin Held(b) /\ Held(c) = Held(b) \cup {i}
      /\ \A j \in Held(b) : c.positions[j] = b.positions[j]
      /\ Cost(c.positions[i]) = o.total
  BY BoughtFacts
<1>2. /\ c.cash = b.cash - o.total /\ c.realized = b.realized /\ c.trades = b.trades + 1
      /\ c.wins = b.wins /\ c.losses = b.losses
  BY DEF bought, Books
<1>3. o.total \in Nat
  BY DEF Orders
<1>4. b.cash \in Nat /\ b.realized \in Int /\ b.trades \in Nat /\ b.wins \in Nat /\ b.losses \in Nat
  BY DEF Books
<1> HIDE DEF c
<1>5. Held(b) = Held(c) \ {i} /\ i \in Held(c)
  BY <1>1
<1>6. /\ Costs(b) \in Nat /\ Costs(c) = o.total + Costs(b)
      /\ Cardinality(Held(b)) \in Nat /\ Cardinality(Held(c)) = Cardinality(Held(b)) + 1
  <2>1. /\ Costs(b) \in Nat /\ Costs(c) = Cost(c.positions[i]) + Costs(b)
        /\ Cardinality(Held(b)) \in Nat /\ Cardinality(Held(c)) = Cardinality(Held(b)) + 1
    BY <1>1, <1>5, CostsStep
  <2>2. QED
    BY <1>1, <2>1
<1>7. b.cash + Costs(b) = StartingCash + b.realized
  BY DEF Balanced, Costs
<1>8. c.cash + Costs(c) = StartingCash + c.realized
  BY <1>2, <1>3, <1>4, <1>6, <1>7
<1>9. Counted(c)
  BY <1>2, <1>4, <1>6 DEF Counted
<1>10. QED
  BY <1>8, <1>9 DEF c, Balanced, Costs

LEMMA BalancedSell ==
  ASSUME NEW b \in Books, NEW i \in Instruments, NEW p \in Prices, b.positions[i] # None,
         Balanced(b), Counted(b)
  PROVE  Balanced(sell(b, i, p)) /\ Counted(sell(b, i, p))
<1> DEFINE c == sell(b, i, p)
           gain == c.realized - b.realized
<1>1. /\ c \in Books /\ Held(c) = Held(b) \ {i}
      /\ \A j \in Held(c) : c.positions[j] = b.positions[j]
      /\ gain \in Int /\ c.cash = b.cash + gain + Cost(b.positions[i])
      /\ c.trades = b.trades + 1
      /\ c.wins + c.losses = b.wins + b.losses + 1
  BY SellFacts
<1>2. i \in Held(b) /\ Cost(b.positions[i]) \in Nat
  BY BookFacts DEF Held
<1> HIDE DEF c
<1>3. /\ b.cash \in Nat /\ b.realized \in Int /\ b.trades \in Nat /\ b.wins \in Nat /\ b.losses \in Nat
      /\ c.cash \in Nat /\ c.realized \in Int /\ c.trades \in Nat /\ c.wins \in Nat /\ c.losses \in Nat
  BY <1>1 DEF Books
<1>4. /\ Costs(c) \in Nat /\ Costs(b) = Cost(b.positions[i]) + Costs(c)
      /\ Cardinality(Held(c)) \in Nat /\ Cardinality(Held(b)) = Cardinality(Held(c)) + 1
  BY <1>1, <1>2, CostsStep
<1>5. b.cash + Costs(b) = StartingCash + b.realized
  BY DEF Balanced, Costs
<1>6. c.cash + Costs(c) = StartingCash + c.realized
  BY <1>1, <1>2, <1>3, <1>4, <1>5, PaperAssumption, SMTT(30)
<1>7. Counted(c)
  <2> DEFINE m == Cardinality(Held(c))
             n == Cardinality(Held(b))
             v == c.wins + c.losses
             w == b.wins + b.losses
  <2>1. b.trades = 2 * w + n /\ c.trades = b.trades + 1 /\ v = w + 1 /\ n = m + 1
    BY <1>1, <1>4 DEF Counted
  <2>2. m \in Nat /\ n \in Nat /\ v \in Nat /\ w \in Nat
    BY <1>3, <1>4
  <2> HIDE DEF m, n, v, w
  <2>3. c.trades = 2 * v + m
    BY <1>3, <2>1, <2>2
  <2>4. QED
    BY <2>3 DEF Counted, m, v
<1>8. QED
  BY <1>6, <1>7 DEF c, Balanced, Costs

BooksInv == FileInv /\ BooksBalance

LEMMA BooksInit == Init => BooksInv
<1> SUFFICES ASSUME Init PROVE BooksInv
  OBVIOUS
<1>1. book = NewBook /\ disk = None
  BY DEF Init
<1>2. QED
  BY <1>1, FileInit, NewBookFacts DEF BooksInv, BooksBalance

LEMMA BooksStep ==
  ASSUME BooksInv, [Next]_vars, SmallPositions'
  PROVE  BooksInv'
<1>0. TypeOK /\ FileInv' /\ book \in Books /\ book' \in Books
      /\ disk \in Books \cup {None, Torn} /\ marks \in Marks /\ last \in Marks
  BY FileStep, PaperTypeStep DEF BooksInv, FileInv, TypeOK, Marks
<1>1. /\ Balanced(book) /\ Counted(book)
      /\ disk \notin {None, Torn} => Balanced(disk) /\ Counted(disk)
      /\ phase = "rename" => tmp = book
  BY DEF BooksInv, BooksBalance, FileInv
<1>2. SUFFICES /\ Balanced(book') /\ Counted(book')
               /\ disk' \notin {None, Torn} => Balanced(disk') /\ Counted(disk')
  BY <1>0, <1>2 DEF BooksInv, BooksBalance, Balanced, Counted, Held
<1>3. CASE UNCHANGED <<book, disk>>
  BY <1>1, <1>3
<1>4. CASE Mark
  <2>1. /\ book' = marked(book, last) /\ disk' = disk
    BY <1>4 DEF Mark
  <2>2. QED
    BY <1>0, <1>1, <2>1, MarkedFacts, BalancedSame
<1>5. CASE Apply
  <2>1. disk' = disk
    BY <1>5 DEF Apply
  <2>2. ASSUME NEW i \in Instruments, NEW o \in Orders, book.positions[i] = None,
               Affordable(book, o), book' = bought(book, i, o)
        PROVE  Balanced(book') /\ Counted(book')
    <3>1. i \in Held(book') /\ book'.positions[i].quantity = o.qty
      BY <1>0, <2>2, BoughtFacts
    <3>2. o.qty <= PriceUnit * QtyUnit
      BY <3>1 DEF SmallPositions, Held
    <3>3. QED
      BY <1>0, <1>1, <2>2, <3>2, BalancedBuy
  <2>3. ASSUME NEW i \in Instruments, NEW p \in Prices, book.positions[i] # None,
               book' = sell(book, i, p)
        PROVE  Balanced(book') /\ Counted(book')
    BY <1>0, <1>1, <2>3, BalancedSell
  <2>4. Balanced(book') /\ Counted(book')
    BY <1>0, <1>1, <1>5, <2>2, <2>3, ApplyFacts
  <2>5. QED
    BY <1>1, <2>1, <2>4
<1>6. CASE SaveRenames
  BY <1>1, <1>6 DEF SaveRenames
<1>7. CASE Restart
  <2>1. book' \in {restore(disk), NewBook} /\ disk' = disk
    BY <1>7 DEF Restart
  <2>2. QED
    BY <1>0, <1>1, <2>1, NewBookFacts, RestoreFacts
<1>8. CASE Working
  <2>1. Mark \/ Apply \/ UNCHANGED <<book, disk>>
    BY <1>8 DEF Working, Receive, Evaluate, WaitCancelled, Stop
  <2>2. QED
    BY <1>3, <1>4, <1>5, <2>1
<1>9. QED
  BY <1>3, <1>6, <1>7, <1>8
     DEF Next, MarketMoves, SaveWrites, SaveFails, Dies, vars

(* While no position is of more than PriceUnit whole coins, no money       *)
(* appears or disappears by the rounding of prices and costs, in the       *)
(* account or in the state file, and every trade is counted, through any   *)
(* number of fills, marks, saves, crashes and restarts.                    *)
THEOREM BooksBalanceHolds == Spec /\ []SmallPositions => []BooksBalance
<1>1. BooksInv => BooksBalance
  BY DEF BooksInv
<1>2. BooksInv /\ [Next]_vars /\ SmallPositions' => BooksInv'
  BY BooksStep
<1>3. QED
  BY <1>1, <1>2, BooksInit, PTL DEF Spec

-----------------------------------------------------------------------------
(* The account that Strategies is written on. *)

Saved == IF disk \in {None, Torn} THEN {} ELSE Held(disk)

LEMMA AccountStart == ASSUME Init PROVE Account!AccountInit
<1>1. book = NewBook /\ disk = None
  BY DEF Init
<1>2. QED
  BY <1>1, NewBookFacts DEF Account!AccountInit

LEMMA AccountStep ==
  ASSUME FileInv, [Next]_vars
  PROVE  [Account!AccountNext]_(Account!accountVars)
<1>0. TypeOK /\ book \in Books /\ disk \in Books \cup {None, Torn} /\ last \in Marks
      /\ (phase = "rename" => tmp = book)
  BY DEF FileInv, TypeOK, Marks
<1>1. CASE Held(book') = Held(book) /\ disk' = disk
  BY <1>1 DEF Account!accountVars, Held
<1>2. CASE Mark
  <2>1. book' = marked(book, last) /\ disk' = disk
    BY <1>2 DEF Mark
  <2>2. book'.positions = book.positions
    BY <1>0, <2>1, MarkedFacts
  <2>3. QED
    BY <1>1, <2>1, <2>2 DEF Held
<1>3. CASE Apply
  <2>1. disk' = disk
    BY <1>3 DEF Apply
  <2>2. ASSUME NEW i \in Instruments, Held(book') = Held(book) \cup {i}
        PROVE  Account!AccountNext
    BY <2>1, <2>2 DEF Account!AccountNext, Account!Buy, Held
  <2>3. ASSUME NEW i \in Instruments, Held(book') = Held(book) \ {i}
        PROVE  Account!AccountNext
    BY <2>1, <2>3 DEF Account!AccountNext, Account!Sell, Held
  <2>4. \/ book' = book
        \/ \E i \in Instruments : Held(book') = Held(book) \cup {i}
        \/ \E i \in Instruments : Held(book') = Held(book) \ {i}
    BY <1>0, <1>3, ApplyFacts, BoughtFacts, SellFacts
  <2>5. QED
    BY <1>1, <2>1, <2>2, <2>3, <2>4
<1>4. CASE SaveRenames
  <2>1. disk' = book /\ book' = book /\ book \notin {None, Torn}
    BY <1>0, <1>4, NothingAssumption DEF SaveRenames
  <2>2. QED
    BY <2>1 DEF Account!AccountNext, Account!Save, Held
<1>5. CASE Restart
  <2>1. book' \in {restore(disk), NewBook} /\ disk' = disk
    BY <1>5 DEF Restart
  <2>2. Held(book') \in {Saved, {}}
    BY <1>0, <2>1, NewBookFacts, RestoreFacts DEF Saved
  <2>3. QED
    BY <2>1, <2>2 DEF Account!AccountNext, Account!Resume, Held, Saved
<1>6. CASE Working
  <2>1. Mark \/ Apply \/ UNCHANGED <<book, disk>>
    BY <1>6 DEF Working, Receive, Evaluate, WaitCancelled, Stop
  <2>2. QED
    BY <1>1, <1>2, <1>3, <2>1
<1>7. QED
  BY <1>1, <1>4, <1>5, <1>6
     DEF Next, MarketMoves, SaveWrites, SaveFails, Dies, vars

(* The engine is the account Strategies builds on: a fill opens or closes  *)
(* one whole position, and wherever a process dies the next one has the    *)
(* positions of the latest complete save, or none.                         *)
THEOREM AccountRefinement == Spec => ImplementsAccount
<1>1. Init => Account!AccountInit
  BY AccountStart
<1>2. FileInv /\ [Next]_vars => [Account!AccountNext]_(Account!accountVars)
  BY AccountStep
<1>3. QED
  BY <1>1, <1>2, FileInit, FileStep, PTL
     DEF Spec, ImplementsAccount, Account!AccountSpec

-----------------------------------------------------------------------------
(* The bars a strategy reads. *)

LEMMA ClosedFacts ==
  ASSUME NEW S, NEW s \in Seq(S), s # << >>
  PROVE  /\ Closed(s) \in Seq(S)
         /\ Len(s) \in Nat \ {0} /\ Len(Closed(s)) = Len(s) - 1
         /\ \A k \in 1 .. (Len(s) - 1) : Closed(s)[k] = s[k]
<1> DEFINE n == Len(s) - 1
           one == 1
<1>1. Len(s) \in Nat \ {0}
  BY TailFacts
<1>2. n \in Nat /\ n <= Len(s) /\ one \in Nat \ {0} /\ one <= n + 1 /\ n - one + 1 = n
      /\ \A k \in 1 .. n : one + k - 1 = k
  BY <1>1
<1>3. Closed(s) = SubSeq(s, one, n)
  BY DEF Closed
<1> HIDE DEF n, one
<1>4. /\ SubSeq(s, one, n) \in Seq(S)
      /\ Len(SubSeq(s, one, n)) = n - one + 1
      /\ \A k \in 1 .. (n - one + 1) : SubSeq(s, one, n)[k] = s[one + k - 1]
  BY <1>2, SubSeqFacts
<1>5. /\ Closed(s) \in Seq(S) /\ Len(Closed(s)) = n
      /\ \A k \in 1 .. n : Closed(s)[k] = s[k]
  BY <1>2, <1>3, <1>4
<1>6. QED
  BY <1>1, <1>5 DEF n

LEMMA LastOfFacts ==
  ASSUME NEW S, NEW s \in Seq(S), NEW n \in Nat, NEW back \in Nat, n + back <= Len(s)
  PROVE  /\ LastOf(s, n, back) \in Seq(S)
         /\ Len(LastOf(s, n, back)) = n
         /\ \A k \in 1 .. n : LastOf(s, n, back)[k] = s[Len(s) - back - n + k]
<1> DEFINE a == Len(s) - back - n + 1
           b == Len(s) - back
<1>1. a \in Nat \ {0} /\ b \in Nat /\ a <= b + 1 /\ b <= Len(s) /\ b - a + 1 = n
  OBVIOUS
<1>2. \A k \in 1 .. n : a + k - 1 = Len(s) - back - n + k
  OBVIOUS
<1>3. LastOf(s, n, back) = SubSeq(s, a, b)
  BY DEF LastOf
<1> HIDE DEF a, b
<1>4. /\ SubSeq(s, a, b) \in Seq(S)
      /\ Len(SubSeq(s, a, b)) = b - a + 1
      /\ \A k \in 1 .. (b - a + 1) : SubSeq(s, a, b)[k] = s[a + k - 1]
  BY <1>1, SubSeqFacts
<1>5. QED
  BY <1>1, <1>2, <1>3, <1>4

IsWindow(S, w, s, n, back) ==
  /\ w \in Seq(S) /\ Len(w) = n
  /\ \A k \in 1 .. n : w[k] = s[Len(s) - back - n + k]

LEMMA LastOfWindow ==
  ASSUME NEW S, NEW s \in Seq(S), NEW n \in Nat, NEW back \in Nat, n + back <= Len(s)
  PROVE  IsWindow(S, LastOf(s, n, back), s, n, back)
  BY LastOfFacts, SMTT(40) DEF IsWindow

(* A tick of the bar in progress changes no completed bar. *)
LEMMA ClosedTick ==
  ASSUME NEW S, NEW s \in Seq(S), s # << >>, NEW p \in S
  PROVE  /\ [s EXCEPT ![Len(s)] = p] \in Seq(S)
         /\ Len([s EXCEPT ![Len(s)] = p]) = Len(s)
         /\ Closed([s EXCEPT ![Len(s)] = p]) = Closed(s)
<1> DEFINE t == [s EXCEPT ![Len(s)] = p]
<1>1. Len(s) \in Nat \ {0}
  BY TailFacts
<1>2. /\ t \in Seq(S) /\ Len(t) = Len(s)
      /\ \A k \in 1 .. (Len(s) - 1) : t[k] = s[k]
  BY <1>1
<1> HIDE DEF t
<1>3. t # << >>
  BY <1>1, <1>2
<1>4. /\ Closed(t) \in Seq(S) /\ Len(Closed(t)) = Len(s) - 1
      /\ \A k \in 1 .. (Len(s) - 1) : Closed(t)[k] = s[k]
  BY <1>2, <1>3, ClosedFacts
<1>5. Closed(t) = Closed(s)
  BY <1>1, <1>4, ClosedFacts, SeqEqual
<1>6. QED
  BY <1>2, <1>5 DEF t

(* The bars after a new one: the oldest may be dropped. *)
Extended(s, p) == {Append(s, p), Tail(Append(s, p))}

LEMMA ExtendedFacts ==
  ASSUME NEW S, NEW s \in Seq(S), NEW p \in S, NEW t \in Extended(s, p)
  PROVE  /\ t \in Seq(S) /\ Len(t) \in {Len(s), Len(s) + 1}
         /\ \A k \in 1 .. Len(s) : k > Len(s) + 1 - Len(t)
              => t[k - (Len(s) + 1 - Len(t))] = s[k]
<1> DEFINE u == Append(s, p)
<1>1. /\ u \in Seq(S) /\ Len(u) = Len(s) + 1 /\ Len(s) \in Nat
      /\ \A k \in 1 .. Len(s) : u[k] = s[k]
  BY AppendFacts
<1>2. u # << >> /\ t \in {u, Tail(u)}
  BY AppendNotEmpty DEF Extended
<1> HIDE DEF u
<1>3. CASE t = u
  BY <1>1, <1>3
<1>4. CASE t = Tail(u)
  <2>1. t \in Seq(S) /\ Len(t) = Len(s) /\ \A k \in 1 .. Len(s) : t[k] = u[k + 1]
    BY <1>1, <1>2, <1>4, TailFacts
  <2>2. ASSUME NEW k \in 1 .. Len(s), k > 1
        PROVE  t[k - 1] = s[k]
    <3> DEFINE j == k - 1
    <3>1. j \in 1 .. Len(s) /\ j + 1 = k
      BY <1>1, <2>2
    <3> HIDE DEF j
    <3>2. t[j] = u[k] /\ u[k] = s[k]
      BY <1>1, <2>1, <3>1
    <3>3. QED
      BY <3>2 DEF j
  <2>3. QED
    BY <1>1, <2>1, <2>2
<1>5. QED
  BY <1>2, <1>3, <1>4

(* What was the newest closed bar is the one before it. *)
LEMMA WindowMoves ==
  ASSUME NEW S, NEW s \in Seq(S), NEW p \in S, NEW t \in Extended(s, p),
         NEW n \in Nat, n + 2 <= Len(s)
  PROVE  LastOf(Closed(t), n, 1) = LastOf(Closed(s), n, 0)
<1> DEFINE d == Len(s) + 1 - Len(t)
<1>1. t \in Seq(S) /\ Len(t) \in Nat /\ Len(s) \in Nat /\ d \in {0, 1} /\ Len(t) = Len(s) + 1 - d
      /\ \A k \in 1 .. Len(s) : k > d => t[k - d] = s[k]
  <2>1. /\ t \in Seq(S) /\ Len(t) \in {Len(s), Len(s) + 1}
        /\ \A k \in 1 .. Len(s) : k > Len(s) + 1 - Len(t)
              => t[k - (Len(s) + 1 - Len(t))] = s[k]
    BY ExtendedFacts
  <2>2. Len(s) \in Nat /\ Len(t) \in Nat
    BY <2>1
  <2>3. Len(t) = Len(s) \/ Len(t) = Len(s) + 1
    BY <2>1
  <2>4. d \in {0, 1} /\ Len(t) = Len(s) + 1 - d
    BY <2>2, <2>3
  <2>5. \A k \in 1 .. Len(s) : k > d => t[k - d] = s[k]
    BY <2>1
  <2>6. QED
    BY <2>1, <2>2, <2>4, <2>5
<1> HIDE DEF d
<1>2. s # << >> /\ t # << >>
  BY <1>1
<1>3. /\ Closed(s) \in Seq(S) /\ Len(Closed(s)) = Len(s) - 1
      /\ \A k \in 1 .. (Len(s) - 1) : Closed(s)[k] = s[k]
  BY <1>2, ClosedFacts, ZenonT(40)
<1>4. /\ Closed(t) \in Seq(S) /\ Len(Closed(t)) = Len(s) - d
      /\ \A k \in 1 .. (Len(s) - d) : Closed(t)[k] = t[k]
  <2>1. Len(t) - 1 = Len(s) - d
    BY <1>1
  <2>2. QED
    BY <1>1, <1>2, <2>1, ClosedFacts
<1>5. ASSUME NEW k \in 1 .. n
      PROVE  Closed(t)[Len(Closed(t)) - 1 - n + k] = Closed(s)[Len(Closed(s)) - 0 - n + k]
  <2> DEFINE j == Len(s) - 1 - n + k
  <2>1. /\ j \in 1 .. (Len(s) - 1) /\ j \in 1 .. Len(s) /\ j > d
        /\ j - d \in 1 .. (Len(s) - d)
        /\ Len(Closed(t)) - 1 - n + k = j - d /\ Len(Closed(s)) - 0 - n + k = j
    BY <1>1, <1>3, <1>4
  <2> HIDE DEF j
  <2>2. QED
    BY <1>1, <1>3, <1>4, <2>1
<1> DEFINE a == 1
           b == 0
           u == Closed(t)
           v == Closed(s)
<1>6. /\ u \in Seq(S) /\ v \in Seq(S)
      /\ a \in Nat /\ b \in Nat /\ n + a <= Len(u) /\ n + b <= Len(v)
  BY <1>1, <1>3, <1>4
<1>7. \A k \in 1 .. n : u[Len(u) - a - n + k] = v[Len(v) - b - n + k]
  BY <1>5
<1> HIDE DEF a, b, u, v
<1>8. LastOf(u, n, a) = LastOf(v, n, b)
  <2>1. IsWindow(S, LastOf(u, n, a), u, n, a) /\ IsWindow(S, LastOf(v, n, b), v, n, b)
    BY <1>6, LastOfWindow
  <2>2. QED
    BY <1>7, <2>1, SeqEqual DEF IsWindow
<1>9. QED
  BY <1>8, ZenonT(40) DEF a, b, u, v

-----------------------------------------------------------------------------
(* The arms. *)

Arm == [fast : Nat \ {0}, slow : Nat]

LEMMA ArmFacts ==
  ASSUME NEW k \in DOMAIN Arms
  PROVE  /\ Arms[k] \in Arm /\ Arms[k].fast < Arms[k].slow
         /\ maxSlow \in Nat /\ Arms[k].slow <= maxSlow
<1> DEFINE D == DOMAIN Arms
           slow(j) == Arms[j].slow
           Above(j) == {l \in D : slow(l) > slow(j)}
           T == {Above(j) : j \in D}
<1>1. Arms \in Seq(Arm) /\ Len(Arms) \in Nat /\ D = 1 .. Len(Arms)
  BY StrategiesAssumption DEF Arm
<1>2. \A j \in D : Arms[j] \in Arm /\ slow(j) \in Nat
  <2>1. \A j \in D : Arms[j] \in Arm
    BY <1>1
  <2>2. \A arm \in Arm : arm.slow \in Nat
    BY DEF Arm
  <2>3. QED
    BY <2>1, <2>2
<1>3. IsFiniteSet(D)
  BY <1>1, FiniteIndices
<1>4. T \in SUBSET (SUBSET D) /\ T # {}
  OBVIOUS
<1>5. PICK m \in T : \A u \in T : u \subseteq m => u = m
  <2> HIDE DEF T, D
  <2>1. QED
    BY <1>3, <1>4, MinimalSubset
<1>6. PICK j \in D : m = Above(j)
  OBVIOUS
<1>7. ASSUME NEW l \in D, slow(l) > slow(j) PROVE FALSE
  <2>1. l \in m /\ l \notin Above(l) /\ Above(l) \in T
    BY <1>2, <1>6, <1>7
  <2>2. Above(l) \subseteq m
    <3>1. ASSUME NEW x \in Above(l) PROVE x \in Above(j)
      BY <1>2, <1>7
    <3>2. QED
      BY <3>1, <1>6
  <2>3. QED
    BY <1>5, <2>1, <2>2
<1>8. \A y \in {Arms[l].slow : l \in DOMAIN Arms} : slow(j) >= y
  BY <1>2, <1>7
<1>9. maxSlow \in {Arms[l].slow : l \in DOMAIN Arms}
      /\ \A y \in {Arms[l].slow : l \in DOMAIN Arms} : maxSlow >= y
  BY <1>8 DEF maxSlow, Max
<1>10. QED
  BY <1>2, <1>9, StrategiesAssumption

LEMMA SumOfSeq ==
  ASSUME NEW s \in Seq(Prices)
  PROVE  Sum(s) \in Int
<1>1. Len(s) \in Nat /\ DOMAIN s = 1 .. Len(s) /\ \A x \in DOMAIN s : s[x] \in Int
  <2>1. \A x \in DOMAIN s : s[x] \in Prices
    OBVIOUS
  <2>2. \A x \in Prices : x \in Int
    BY MarketAssumption
  <2>3. QED
    BY <2>1, <2>2
<1>2. IsFiniteSet(DOMAIN s)
  BY <1>1, FiniteIndices
<1>3. QED
  BY <1>1, <1>2, SumInt DEF Sum

LEMMA GapInt ==
  ASSUME NEW s \in Seq(Prices), NEW arm \in Arm, arm.fast < arm.slow,
         NEW back \in Nat, arm.slow + back <= Len(s)
  PROVE  Gap(s, arm, back) \in Int
<1>1. arm.fast \in Nat /\ arm.slow \in Nat /\ arm.fast + back <= Len(s)
  BY DEF Arm
<1>2. LastOf(s, arm.fast, back) \in Seq(Prices) /\ LastOf(s, arm.slow, back) \in Seq(Prices)
  BY <1>1, LastOfFacts
<1>3. Sum(LastOf(s, arm.fast, back)) \in Int /\ Sum(LastOf(s, arm.slow, back)) \in Int
  BY <1>2, SumOfSeq
<1>4. QED
  BY <1>1, <1>3 DEF Gap

(* The gap of an arm in a history that is long enough. *)
LEMMA GapFacts ==
  ASSUME NEW s \in Seq(Prices), NEW k \in DOMAIN Arms, Len(s) >= maxSlow + 2
  PROVE  /\ Gap(Closed(s), Arms[k], 0) \in Int /\ Gap(Closed(s), Arms[k], 1) \in Int
         /\ \A p \in Prices : \A t \in Extended(s, p) :
              Gap(Closed(t), Arms[k], 1) = Gap(Closed(s), Arms[k], 0)
<1> DEFINE arm == Arms[k]
<1>1. arm \in Arm /\ arm.fast < arm.slow /\ arm.slow <= maxSlow /\ maxSlow \in Nat
  BY ArmFacts
<1> HIDE DEF arm
<1>2. arm.fast \in Nat /\ arm.slow \in Nat /\ arm.slow + 2 <= Len(s) /\ arm.fast + 2 <= Len(s)
      /\ Len(s) \in Nat /\ s # << >>
  BY <1>1 DEF Arm
<1>3. Closed(s) \in Seq(Prices) /\ Len(Closed(s)) = Len(s) - 1
  BY <1>2, ClosedFacts
<1>4. arm.slow + 0 <= Len(Closed(s)) /\ arm.slow + 1 <= Len(Closed(s))
  BY <1>2, <1>3
<1>5. Gap(Closed(s), arm, 0) \in Int /\ Gap(Closed(s), arm, 1) \in Int
  BY <1>1, <1>3, <1>4, GapInt
<1>6. ASSUME NEW p \in Prices, NEW t \in Extended(s, p)
      PROVE  Gap(Closed(t), arm, 1) = Gap(Closed(s), arm, 0)
  <2>1. /\ LastOf(Closed(t), arm.fast, 1) = LastOf(Closed(s), arm.fast, 0)
        /\ LastOf(Closed(t), arm.slow, 1) = LastOf(Closed(s), arm.slow, 0)
    BY <1>2, WindowMoves
  <2>2. QED
    BY <2>1 DEF Gap
<1>7. QED
  BY <1>5, <1>6 DEF arm

(* What the bandit does about an instrument with position p. *)
LEMMA AdaptiveFacts ==
  ASSUME NEW s \in Seq(Prices), NEW p \in DOMAIN Arms \cup {None}, NEW r \in adaptive(s, p)
  PROVE  /\ r.sig \in {"buy", "sell", None} /\ r.pos \in DOMAIN Arms \cup {None}
         /\ r.sig = None => r.pos = p
         /\ r.sig = "buy" => /\ p = None /\ r.pos # None /\ Len(s) >= maxSlow + 2
                             /\ Gap(Closed(s), Arms[r.pos], 0) > 0
         /\ r.sig = "sell" => /\ p # None /\ r.pos = None
                              /\ Gap(Closed(s), Arms[p], 0) < 0
         /\ r.sig = None /\ p # None /\ Len(s) >= maxSlow + 2
              => ~ crossedDown(Closed(s), Arms[p])
<1> DEFINE eligible == {k \in DOMAIN Arms : crossedUp(Closed(s), Arms[k])}
<1>1. /\ None \notin DOMAIN Arms /\ None \notin {"buy", "sell"} /\ maxSlow \in Nat
      /\ Len(s) \in Nat
  <2>1. Len(Arms) \in Nat /\ DOMAIN Arms = 1 .. Len(Arms) /\ 1 \in DOMAIN Arms
    BY StrategiesAssumption
  <2>2. QED
    BY <2>1, ArmFacts, StrategiesAssumption, MarketAssumption
<1>2. CASE Len(s) < maxSlow + 2
  <2>1. r = [sig |-> None, pos |-> p]
    BY <1>2 DEF adaptive
  <2>2. QED
    BY <1>1, <1>2, <2>1
<1>3. CASE ~ (Len(s) < maxSlow + 2) /\ p # None /\ crossedDown(Closed(s), Arms[p])
  <2>1. r = [sig |-> "sell", pos |-> None]
    BY <1>3 DEF adaptive
  <2>2. QED
    BY <1>1, <1>3, <2>1 DEF crossedDown
<1>4. CASE ~ (Len(s) < maxSlow + 2) /\ p # None /\ ~ crossedDown(Closed(s), Arms[p])
  <2>1. r = [sig |-> None, pos |-> p]
    BY <1>4 DEF adaptive
  <2>2. QED
    BY <1>1, <1>4, <2>1
<1>5. CASE ~ (Len(s) < maxSlow + 2) /\ p = None
  <2>1. \/ r = [sig |-> None, pos |-> None]
        \/ \E k \in eligible : r = [sig |-> "buy", pos |-> k]
    BY <1>5 DEF adaptive
  <2>2. CASE r = [sig |-> None, pos |-> None]
    BY <1>1, <1>5, <2>2
  <2>3. ASSUME NEW k \in eligible, r = [sig |-> "buy", pos |-> k]
        PROVE  r.sig = "buy" /\ r.pos = k /\ k \in DOMAIN Arms /\ k # None
               /\ Gap(Closed(s), Arms[k], 0) > 0 /\ Len(s) >= maxSlow + 2
    BY <1>1, <1>5, <2>3 DEF crossedUp
  <2>4. QED
    BY <1>1, <1>5, <2>1, <2>2, <2>3
<1>6. QED
  BY <1>2, <1>3, <1>4, <1>5

-----------------------------------------------------------------------------
(* What the strategies keep. *)

StrategiesTypes ==
  /\ bars \in [Instruments -> Seq(Prices)]
  /\ open \in [Instruments -> DOMAIN Arms \cup {None}]
  /\ said \in [Instruments -> {"buy", "sell", None}]

(* What was said of an instrument is what its closed bars still say.       *)
SaidInv ==
  \A i \in Instruments :
    /\ kind = "momentum" => said[i] \in {None, momentum(bars[i])}
    /\ kind = "meanrev" => said[i] \in {None, meanrev(bars[i])}
    /\ kind = "adaptive" /\ said[i] = "buy"
         => open[i] # None /\ Gap(Closed(bars[i]), Arms[open[i]], 0) > 0

(* A position is above its arm's cross at the last bar that was evaluated. *)
Trend(i) ==
  open[i] # None =>
    /\ kind \in {"adaptive", "llm+adaptive"}
    /\ Len(bars[i]) >= maxSlow + 2
    /\ i \notin skipped =>
         Gap(Closed(bars[i]), Arms[open[i]], IF i \in fresh THEN 1 ELSE 0) >= 0

ExitInv == \A i \in Instruments : Trend(i)

StrategiesInv == StrategiesTypes /\ SaidInv /\ ExitInv

LEMMA NoneFacts ==
  None \notin DOMAIN Arms /\ None \notin {"buy", "sell"}
<1>1. Len(Arms) \in Nat /\ DOMAIN Arms = 1 .. Len(Arms)
  BY StrategiesAssumption
<1>2. QED
  BY <1>1, StrategiesAssumption, MarketAssumption

LEMMA RulesSay ==
  ASSUME NEW s
  PROVE  momentum(s) \in {"buy", "sell", None} /\ meanrev(s) \in {"buy", "sell", None}
<1>1. momentum(s) \in {"buy", "sell", None}
  BY DEF momentum
<1>2. meanrev(s) \in {"buy", "sell", None}
  BY DEF meanrev
<1>3. QED
  BY <1>1, <1>2

(* The rules read the number of bars and the closed ones. *)
LEMMA RulesReadClosed ==
  ASSUME NEW s, NEW t, Len(s) = Len(t), Closed(s) = Closed(t)
  PROVE  momentum(s) = momentum(t) /\ meanrev(s) = meanrev(t)
<1>1. momentum(s) = momentum(t)
  BY DEF momentum
<1>2. meanrev(s) = meanrev(t)
  BY DEF meanrev
<1>3. QED
  BY <1>1, <1>2

LEMMA StrategiesStart == StrategiesInit => StrategiesInv
<1> SUFFICES ASSUME StrategiesInit PROVE StrategiesInv
  OBVIOUS
<1>1. /\ bars = [i \in Instruments |-> << >>] /\ open = [i \in Instruments |-> None]
      /\ said = [i \in Instruments |-> None]
  BY DEF StrategiesInit
<1>2. StrategiesTypes
  BY <1>1 DEF StrategiesTypes
<1>3. SaidInv
  BY <1>1, NoneFacts DEF SaidInv
<1>4. ExitInv
  BY <1>1 DEF ExitInv, Trend
<1>5. QED
  BY <1>2, <1>3, <1>4 DEF StrategiesInv

(* Steps that leave the bars, the positions and what was said alone. *)
LEMMA QuietStep ==
  ASSUME StrategiesInv, UNCHANGED <<kind, bars, open, said, fresh, skipped>>
  PROVE  StrategiesInv'
  BY DEF StrategiesInv, StrategiesTypes, SaidInv, ExitInv, Trend

LEMMA TickStep ==
  ASSUME StrategiesInv, NEW i \in Instruments, NEW p \in Prices, TickInBar(i, p)
  PROVE  StrategiesInv'
<1>1. StrategiesTypes /\ SaidInv /\ ExitInv
  BY DEF StrategiesInv
<1>2. /\ UNCHANGED <<kind, open, said, fresh, skipped>>
      /\ bars[i] # << >>
      /\ bars' = [bars EXCEPT ![i] = [bars[i] EXCEPT ![Len(bars[i])] = p]]
  BY DEF TickInBar, historyVars
<1> DEFINE t == [bars[i] EXCEPT ![Len(bars[i])] = p]
<1>3. t \in Seq(Prices) /\ Len(t) = Len(bars[i]) /\ Closed(t) = Closed(bars[i])
  BY <1>1, <1>2, ClosedTick DEF StrategiesTypes
<1>4. bars' = [bars EXCEPT ![i] = t]
  BY <1>2
<1> HIDE DEF t
<1>5. \A j \in Instruments : Len(bars'[j]) = Len(bars[j]) /\ Closed(bars'[j]) = Closed(bars[j])
  BY <1>1, <1>3, <1>4 DEF StrategiesTypes
<1>6. StrategiesTypes'
  BY <1>1, <1>2, <1>3, <1>4 DEF StrategiesTypes
<1>7. SaidInv'
  <2>1. \A j \in Instruments : /\ momentum(bars'[j]) = momentum(bars[j])
                               /\ meanrev(bars'[j]) = meanrev(bars[j])
    BY <1>5, RulesReadClosed
  <2>2. QED
    BY <1>1, <1>2, <1>5, <2>1 DEF SaidInv
<1>8. ExitInv'
  BY <1>1, <1>2, <1>5 DEF ExitInv, Trend
<1>9. QED
  BY <1>6, <1>7, <1>8 DEF StrategiesInv

LEMMA NewBarStep ==
  ASSUME StrategiesInv, NEW i \in Instruments, NEW p \in Prices, NewBar(i, p)
  PROVE  StrategiesInv'
<1>1. StrategiesTypes /\ SaidInv /\ ExitInv
  BY DEF StrategiesInv
<1> DEFINE t == bars'[i]
<1>2. bars[i] \in Seq(Prices)
  BY <1>1 DEF StrategiesTypes
<1>3. /\ UNCHANGED <<kind, open>>
      /\ said' = [said EXCEPT ![i] = None]
      /\ fresh' = fresh \cup {i}
      /\ skipped' = IF i \in fresh THEN skipped \cup {i} ELSE skipped
      /\ bars' = [bars EXCEPT ![i] = t] /\ t \in Extended(bars[i], p)
  BY <1>1 DEF NewBar, Extended, StrategiesTypes
<1> HIDE DEF t
<1>4. t \in Seq(Prices) /\ Len(t) \in {Len(bars[i]), Len(bars[i]) + 1}
  BY <1>2, <1>3, ExtendedFacts
<1>5. StrategiesTypes'
  BY <1>1, <1>3, <1>4 DEF StrategiesTypes
<1>6. bars'[i] = t /\ said'[i] = None
      /\ \A j \in Instruments \ {i} : bars'[j] = bars[j] /\ said'[j] = said[j]
  BY <1>1, <1>3 DEF StrategiesTypes
<1>7. SaidInv'
  <2> SUFFICES ASSUME NEW j \in Instruments
               PROVE  /\ kind = "momentum" => said'[j] \in {None, momentum(bars'[j])}
                      /\ kind = "meanrev" => said'[j] \in {None, meanrev(bars'[j])}
                      /\ kind = "adaptive" /\ said'[j] = "buy"
                          => open[j] # None /\ Gap(Closed(bars'[j]), Arms[open[j]], 0) > 0
    BY <1>3 DEF SaidInv
  <2>1. CASE j = i
    BY <1>6, <2>1, NoneFacts
  <2>2. CASE j # i
    BY <1>1, <1>6, <2>2 DEF SaidInv
  <2>3. QED
    BY <2>1, <2>2
<1>8. ExitInv'
  <2>1. ASSUME NEW j \in Instruments, j # i PROVE Trend(j)'
    BY <1>1, <1>3, <1>6, <2>1 DEF ExitInv, Trend
  <2>2. Trend(i)'
    <3>1. SUFFICES ASSUME open[i] # None
                   PROVE  /\ kind \in {"adaptive", "llm+adaptive"}
                          /\ Len(t) >= maxSlow + 2
                          /\ i \notin skipped' => Gap(Closed(t), Arms[open[i]], 1) >= 0
      BY <1>3, <1>6 DEF Trend
    <3>2. /\ kind \in {"adaptive", "llm+adaptive"} /\ Len(bars[i]) >= maxSlow + 2
          /\ i \notin skipped /\ i \notin fresh
               => Gap(Closed(bars[i]), Arms[open[i]], 0) >= 0
      BY <1>1, <3>1 DEF ExitInv, Trend
    <3>3. open[i] \in DOMAIN Arms
      BY <1>1, <3>1 DEF StrategiesTypes
    <3>4. maxSlow \in Nat /\ Len(bars[i]) \in Nat
      BY <1>2, <3>3, ArmFacts
    <3>5. Gap(Closed(t), Arms[open[i]], 1) = Gap(Closed(bars[i]), Arms[open[i]], 0)
      BY <1>2, <1>3, <3>2, <3>3, GapFacts
    <3>6. i \notin skipped' => i \notin skipped /\ i \notin fresh
      BY <1>3
    <3>7. Len(t) >= maxSlow + 2
      BY <1>4, <3>2, <3>4
    <3>8. QED
      BY <3>2, <3>5, <3>6, <3>7
  <2>3. QED
    BY <2>1, <2>2 DEF ExitInv
<1>9. QED
  BY <1>5, <1>7, <1>8 DEF StrategiesInv

(* What an evaluation gives and records, for each instrument. *)
LEMMA EmitsFacts ==
  ASSUME StrategiesTypes, NEW f \in [Instruments -> {"buy", "sell", None}], Emits(f)
  PROVE  /\ said' \in [Instruments -> {"buy", "sell", None}]
         /\ \A i \in Instruments : said'[i] = IF f[i] = None THEN said[i] ELSE f[i]
         /\ fresh' = {}
  BY DEF StrategiesTypes, Emits

LEMMA PicksFacts ==
  ASSUME NEW g \in Picks
  PROVE  \A i \in Instruments : g[i] \in adaptive(bars[i], open[i])
  BY DEF Picks

(* The bandit's positions after an evaluation are above their crosses. *)
LEMMA PositionsFacts ==
  ASSUME StrategiesInv, kind \in {"adaptive", "llm+adaptive"}, NEW g \in Picks, Positions(g),
         UNCHANGED <<kind, bars>>, fresh' = {}
  PROVE  /\ open' \in [Instruments -> DOMAIN Arms \cup {None}]
         /\ \A i \in Instruments :
              /\ g[i].sig \in {"buy", "sell", None} /\ open'[i] = g[i].pos
              /\ g[i].sig = None => open'[i] = open[i]
              /\ g[i].sig = "buy" => /\ open[i] = None /\ open'[i] # None
                                     /\ Gap(Closed(bars[i]), Arms[open'[i]], 0) > 0
              /\ g[i].sig = "sell" => /\ open[i] # None /\ open'[i] = None
                                      /\ Gap(Closed(bars[i]), Arms[open[i]], 0) < 0
         /\ ExitInv'
<1>1. StrategiesTypes /\ ExitInv
  BY DEF StrategiesInv
<1>2. open' = [i \in Instruments |-> g[i].pos] /\ skipped' = {i \in skipped : open'[i] = open[i]}
  BY DEF Positions
<1>3. ASSUME NEW i \in Instruments
      PROVE  /\ open'[i] = g[i].pos /\ g[i].pos \in DOMAIN Arms \cup {None}
             /\ g[i].sig \in {"buy", "sell", None}
             /\ g[i].sig = None => open'[i] = open[i]
             /\ g[i].sig = "buy" => /\ open[i] = None /\ open'[i] # None
                                    /\ Len(bars[i]) >= maxSlow + 2
                                    /\ Gap(Closed(bars[i]), Arms[open'[i]], 0) > 0
             /\ g[i].sig = "sell" => /\ open[i] # None /\ open'[i] = None
                                     /\ Gap(Closed(bars[i]), Arms[open[i]], 0) < 0
             /\ g[i].sig = None /\ open[i] # None /\ Len(bars[i]) >= maxSlow + 2
                  => ~ crossedDown(Closed(bars[i]), Arms[open[i]])
  <2> DEFINE s == bars[i]
             p == open[i]
             r == g[i]
  <2>1. s \in Seq(Prices) /\ p \in DOMAIN Arms \cup {None} /\ r \in adaptive(s, p)
    BY <1>1, PicksFacts DEF StrategiesTypes
  <2>2. open'[i] = r.pos
    BY <1>2
  <2> HIDE DEF s, p, r
  <2>3. /\ r.sig \in {"buy", "sell", None} /\ r.pos \in DOMAIN Arms \cup {None}
        /\ r.sig = None => r.pos = p
        /\ r.sig = "buy" => /\ p = None /\ r.pos # None /\ Len(s) >= maxSlow + 2
                            /\ Gap(Closed(s), Arms[r.pos], 0) > 0
        /\ r.sig = "sell" => /\ p # None /\ r.pos = None
                             /\ Gap(Closed(s), Arms[p], 0) < 0
        /\ r.sig = None /\ p # None /\ Len(s) >= maxSlow + 2
             => ~ crossedDown(Closed(s), Arms[p])
    BY <2>1, AdaptiveFacts
  <2>4. QED
    BY <2>2, <2>3 DEF s, p, r
<1>4. ExitInv'
  <2> SUFFICES ASSUME NEW i \in Instruments PROVE Trend(i)'
    BY DEF ExitInv
  <2>1. SUFFICES ASSUME open'[i] # None
                 PROVE  /\ Len(bars[i]) >= maxSlow + 2
                        /\ i \notin skipped' => Gap(Closed(bars[i]), Arms[open'[i]], 0) >= 0
    BY DEF Trend
  <2>2. CASE g[i].sig = "buy"
    <3>1. /\ open'[i] \in DOMAIN Arms /\ Len(bars[i]) >= maxSlow + 2
          /\ Gap(Closed(bars[i]), Arms[open'[i]], 0) > 0
      BY <1>3, <2>1, <2>2
    <3>2. bars[i] \in Seq(Prices)
      BY <1>1 DEF StrategiesTypes
    <3>3. Gap(Closed(bars[i]), Arms[open'[i]], 0) \in Int
      BY <3>1, <3>2, GapFacts
    <3>4. QED
      BY <3>1, <3>3
  <2>3. CASE g[i].sig = None
    <3>1. open'[i] = open[i] /\ open[i] \in DOMAIN Arms /\ bars[i] \in Seq(Prices)
      BY <1>1, <1>3, <2>1, <2>3 DEF StrategiesTypes
    <3>2. /\ Len(bars[i]) >= maxSlow + 2
          /\ i \notin skipped =>
               Gap(Closed(bars[i]), Arms[open[i]], IF i \in fresh THEN 1 ELSE 0) >= 0
      BY <1>1, <2>1, <3>1 DEF ExitInv, Trend
    <3>3. ~ crossedDown(Closed(bars[i]), Arms[open[i]])
      BY <1>3, <2>1, <2>3, <3>1, <3>2
    <3>4. Gap(Closed(bars[i]), Arms[open[i]], 0) \in Int
      BY <3>1, <3>2, GapFacts
    <3>5. i \notin skipped' => i \notin skipped
      BY <1>2, <3>1
    <3>6. i \notin skipped' => Gap(Closed(bars[i]), Arms[open[i]], 0) >= 0
      <4>1. CASE i \in fresh
        BY <3>2, <3>3, <3>4, <3>5, <4>1 DEF crossedDown
      <4>2. CASE i \notin fresh
        BY <3>2, <3>5, <4>2
      <4>3. QED
        BY <4>1, <4>2
    <3>7. QED
      BY <3>1, <3>2, <3>6
  <2>4. CASE g[i].sig = "sell"
    BY <1>3, <2>1, <2>4
  <2>5. QED
    BY <1>3, <2>2, <2>3, <2>4
<1>5. open' \in [Instruments -> DOMAIN Arms \cup {None}]
  BY <1>2, <1>3
<1>6. QED
  BY <1>3, <1>4, <1>5

(* The stateless rules: nothing is open. *)
LEMMA EvaluateRuleStep ==
  ASSUME StrategiesInv, EvaluateRule
  PROVE  /\ StrategiesInv'
         /\ \A i \in Instruments : ~ Reverses(said[i], said'[i])
<1> DEFINE f == [i \in Instruments |-> IF kind = "momentum" THEN momentum(bars[i])
                                                            ELSE meanrev(bars[i])]
<1>1. StrategiesTypes /\ SaidInv /\ ExitInv
  BY DEF StrategiesInv
<1>2. kind \in {"momentum", "meanrev"} /\ Emits(f) /\ UNCHANGED <<kind, bars, open, skipped>>
  BY DEF EvaluateRule, marketVars
<1>3. f \in [Instruments -> {"buy", "sell", None}]
  BY RulesSay
<1>4. \A i \in Instruments : f[i] = IF kind = "momentum" THEN momentum(bars[i])
                                                         ELSE meanrev(bars[i])
  OBVIOUS
<1> HIDE DEF f
<1>5. /\ said' \in [Instruments -> {"buy", "sell", None}]
      /\ \A i \in Instruments : said'[i] = IF f[i] = None THEN said[i] ELSE f[i]
  BY <1>1, <1>2, <1>3, EmitsFacts
<1>6. ASSUME NEW i \in Instruments
      PROVE  said[i] \in {None, f[i]} /\ said'[i] \in {None, f[i]}
             /\ f[i] \in {"buy", "sell", None}
  <2>1. said[i] \in {None, f[i]}
    BY <1>1, <1>2, <1>4 DEF SaidInv
  <2>2. QED
    BY <1>3, <1>5, <2>1
<1>7. SaidInv'
  BY <1>2, <1>4, <1>6 DEF SaidInv
<1>8. ExitInv'
  BY <1>1, <1>2 DEF ExitInv, Trend
<1>9. StrategiesTypes'
  BY <1>1, <1>2, <1>5 DEF StrategiesTypes
<1>10. \A i \in Instruments : ~ Reverses(said[i], said'[i])
  BY <1>6, NoneFacts DEF Reverses
<1>11. QED
  BY <1>7, <1>8, <1>9, <1>10 DEF StrategiesInv

LEMMA EvaluateAdaptiveStep ==
  ASSUME StrategiesInv, EvaluateAdaptive
  PROVE  /\ StrategiesInv'
         /\ \A i \in Instruments : ~ Reverses(said[i], said'[i])
<1>1. StrategiesTypes /\ SaidInv /\ ExitInv
  BY DEF StrategiesInv
<1>2. kind = "adaptive" /\ UNCHANGED <<kind, bars>>
  BY DEF EvaluateAdaptive, marketVars
<1>3. PICK g \in Picks : Positions(g) /\ Emits([i \in Instruments |-> g[i].sig])
  BY DEF EvaluateAdaptive
<1> DEFINE f == [i \in Instruments |-> g[i].sig]
<1>4. fresh' = {}
  BY <1>3 DEF Emits
<1>5. /\ open' \in [Instruments -> DOMAIN Arms \cup {None}]
      /\ \A i \in Instruments :
           /\ g[i].sig \in {"buy", "sell", None}
           /\ g[i].sig = None => open'[i] = open[i]
           /\ g[i].sig = "buy" => /\ open[i] = None /\ open'[i] # None
                                  /\ Gap(Closed(bars[i]), Arms[open'[i]], 0) > 0
           /\ g[i].sig = "sell" => /\ open[i] # None /\ open'[i] = None
                                   /\ Gap(Closed(bars[i]), Arms[open[i]], 0) < 0
      /\ ExitInv'
  BY <1>2, <1>3, <1>4, PositionsFacts
<1>6. f \in [Instruments -> {"buy", "sell", None}] /\ Emits(f)
      /\ \A i \in Instruments : f[i] = g[i].sig
  BY <1>3, <1>5
<1> HIDE DEF f
<1>7. /\ said' \in [Instruments -> {"buy", "sell", None}]
      /\ \A i \in Instruments : said'[i] = IF f[i] = None THEN said[i] ELSE f[i]
  BY <1>1, <1>6, EmitsFacts
<1>8. StrategiesTypes'
  BY <1>1, <1>2, <1>5, <1>7 DEF StrategiesTypes
<1>9. ASSUME NEW i \in Instruments, said'[i] = "buy"
      PROVE  open'[i] # None /\ Gap(Closed(bars[i]), Arms[open'[i]], 0) > 0
  <2>1. CASE f[i] = None
    BY <1>1, <1>2, <1>5, <1>6, <1>7, <1>9, <2>1 DEF SaidInv
  <2>2. CASE f[i] # None
    BY <1>5, <1>6, <1>7, <1>9, <2>2
  <2>3. QED
    BY <2>1, <2>2
<1>10. SaidInv'
  BY <1>2, <1>9 DEF SaidInv
<1>11. ASSUME NEW i \in Instruments, Reverses(said[i], said'[i]) PROVE FALSE
  <2>1. said[i] = "buy" /\ said'[i] = "sell"
    BY <1>2, <1>11 DEF Reverses
  <2>2. /\ open[i] # None /\ Gap(Closed(bars[i]), Arms[open[i]], 0) > 0
        /\ Gap(Closed(bars[i]), Arms[open[i]], 0) < 0
    BY <1>1, <1>2, <1>5, <1>6, <1>7, <2>1, NoneFacts DEF SaidInv
  <2>3. /\ open[i] \in DOMAIN Arms /\ bars[i] \in Seq(Prices) /\ Len(bars[i]) >= maxSlow + 2
    BY <1>1, <2>2 DEF StrategiesTypes, ExitInv, Trend
  <2>4. Gap(Closed(bars[i]), Arms[open[i]], 0) \in Int
    BY <2>3, GapFacts
  <2>5. QED
    BY <2>2, <2>4
<1>12. QED
  BY <1>5, <1>8, <1>10, <1>11 DEF StrategiesInv

LEMMA PromptStep ==
  ASSUME StrategiesInv, Prompt
  PROVE  StrategiesInv'
<1>1. StrategiesTypes /\ SaidInv /\ ExitInv
  BY DEF StrategiesInv
<1>2. /\ kind \in {"llm", "llm+momentum", "llm+adaptive"} /\ UNCHANGED <<kind, bars, said>>
      /\ fresh' = {}
  BY DEF Prompt, marketVars
<1>3. SaidInv'
  BY <1>2 DEF SaidInv
<1>4. CASE kind = "llm+adaptive"
  <2>1. PICK g \in Picks : Positions(g)
    BY <1>4 DEF Prompt
  <2>2. open' \in [Instruments -> DOMAIN Arms \cup {None}] /\ ExitInv'
    BY <1>2, <1>4, <2>1, PositionsFacts
  <2>3. QED
    BY <1>1, <1>2, <1>3, <2>2 DEF StrategiesInv, StrategiesTypes
<1>5. CASE kind # "llm+adaptive"
  <2>1. UNCHANGED <<open, skipped>>
    BY <1>5 DEF Prompt
  <2>2. \A i \in Instruments : open[i] = None
    BY <1>1, <1>2, <1>5 DEF ExitInv, Trend
  <2>3. ExitInv'
    BY <2>1, <2>2 DEF ExitInv, Trend
  <2>4. QED
    BY <1>1, <1>2, <1>3, <2>1, <2>3 DEF StrategiesInv, StrategiesTypes
<1>6. QED
  BY <1>4, <1>5

LEMMA NewProcessStep ==
  ASSUME NewProcess
  PROVE  StrategiesInv'
<1>1. /\ bars' = [i \in Instruments |-> << >>] /\ open' = [i \in Instruments |-> None]
      /\ said' = [i \in Instruments |-> None]
  BY DEF NewProcess
<1>2. StrategiesTypes'
  BY <1>1 DEF StrategiesTypes
<1>3. SaidInv'
  BY <1>1, NoneFacts DEF SaidInv
<1>4. ExitInv'
  BY <1>1 DEF ExitInv, Trend
<1>5. QED
  BY <1>2, <1>3, <1>4 DEF StrategiesInv

(* What no step does to what was said. *)
LEMMA NoReversal ==
  ASSUME NEW i \in Instruments, NEW a, NEW b, a = b \/ b = None
  PROVE  ~ Reverses(a, b)
  BY NoneFacts DEF Reverses

LEMMA StrategiesStep ==
  ASSUME StrategiesInv, [StrategiesNext]_strategiesVars
  PROVE  /\ StrategiesInv'
         /\ \A i \in Instruments : kind \in Rules => ~ Reverses(said[i], said'[i])
<1> DEFINE Steady == \A i \in Instruments : kind \in Rules => ~ Reverses(said[i], said'[i])
<1>1. ASSUME said' = said PROVE Steady
  BY <1>1, NoReversal
<1>2. ASSUME NEW i \in Instruments, NEW p \in Prices, TickInBar(i, p)
      PROVE  StrategiesInv' /\ Steady
  <2>1. said' = said
    BY <1>2 DEF TickInBar, historyVars
  <2>2. QED
    BY <1>1, <1>2, <2>1, TickStep
<1>3. ASSUME NEW i \in Instruments, NEW p \in Prices, NewBar(i, p)
      PROVE  StrategiesInv' /\ Steady
  <2>1. \A j \in Instruments : said'[j] \in {said[j], None}
    BY <1>3 DEF NewBar, StrategiesInv, StrategiesTypes
  <2>2. Steady
    BY <2>1, NoReversal
  <2>3. QED
    BY <1>3, <2>2, NewBarStep
<1>4. CASE EvaluateRule
  BY <1>4, EvaluateRuleStep
<1>5. CASE EvaluateAdaptive
  BY <1>5, EvaluateAdaptiveStep
<1>6. CASE Prompt
  <2>1. said' = said
    BY <1>6 DEF Prompt
  <2>2. QED
    BY <1>1, <1>6, <2>1, PromptStep
<1>7. CASE NewProcess
  <2>1. \A j \in Instruments : said'[j] = None
    BY <1>7 DEF NewProcess
  <2>2. Steady
    BY <2>1, NoReversal
  <2>3. QED
    BY <1>7, <2>2, NewProcessStep
<1>8. CASE UNCHANGED <<kind, bars, open, said, fresh, skipped>>
  BY <1>1, <1>8, QuietStep
<1>9. ASSUME NEW i \in Instruments, Priced(i)
      PROVE  UNCHANGED <<kind, bars, open, said, fresh, skipped>>
  BY <1>9 DEF Priced, historyVars
<1>10. ASSUME NEW n \in 0 .. MaxAnswer, NEW a \in [1 .. n -> Entries], Answer(a)
       PROVE  UNCHANGED <<kind, bars, open, said, fresh, skipped>>
  BY <1>10 DEF Answer, marketVars, historyVars
<1>11. ASSUME Execute \/ Refuse \/ NoSignals \/ Cancelled \/ SaveAccount \/ Down
       PROVE  UNCHANGED <<kind, bars, open, said, fresh, skipped>>
  BY <1>11 DEF Execute, Refuse, NoSignals, Cancelled, SaveAccount, Down, marketVars, historyVars
<1>12. ASSUME UNCHANGED strategiesVars
       PROVE  UNCHANGED <<kind, bars, open, said, fresh, skipped>>
  BY <1>12 DEF strategiesVars, marketVars, historyVars
<1>13. QED
  BY <1>2, <1>3, <1>4, <1>5, <1>6, <1>7, <1>8, <1>9, <1>10, <1>11, <1>12 DEF StrategiesNext

(* A rule does not change its mind about an instrument before its next bar *)
(* is complete, for any rule, arms, windows, prices and instruments: the   *)
(* rules read closed bars only, and the bandit remembers what it bought.   *)
THEOREM OneDecisionPerBarHolds == StrategiesSpec => OneDecisionPerBar
<1>1. StrategiesInv /\ [StrategiesNext]_strategiesVars
        => StrategiesInv'
           /\ [\A i \in Instruments : kind \in Rules => ~ Reverses(said[i], said'[i])]_strategiesVars
  BY StrategiesStep
<1>2. QED
  BY <1>1, StrategiesStart, PTL DEF StrategiesSpec, OneDecisionPerBar

(* A position whose every bar was evaluated is not below its arm's cross,  *)
(* for any arms: the evaluation that sees the cross closes it.             *)
THEOREM ExitNotMissedHolds == StrategiesSpec => []ExitNotMissed
<1>1. StrategiesInv => ExitNotMissed
  BY DEF StrategiesInv, ExitInv, Trend, ExitNotMissed
<1>2. StrategiesInv /\ [StrategiesNext]_strategiesVars => StrategiesInv'
  BY StrategiesStep
<1>3. QED
  BY <1>1, <1>2, StrategiesStart, PTL DEF StrategiesSpec

-----------------------------------------------------------------------------
(* The bandit's positions and the account's. *)

LEMMA SetToSeqFacts ==
  ASSUME NEW S, IsFiniteSet(S)
  PROVE  /\ SetToSeq(S) \in Seq(S)
         /\ \A j, k \in DOMAIN SetToSeq(S) : SetToSeq(S)[j] = SetToSeq(S)[k] => j = k
         /\ \A x \in S : \E k \in DOMAIN SetToSeq(S) : SetToSeq(S)[k] = x
<1> DEFINE n == Cardinality(S)
           o == SetToSeq(S)
<1>1. n \in Nat /\ \E f : f \in Bijection(1 .. n, S)
  BY FS_CardinalityType DEF ExistsBijection
<1>2. PICK f : f \in Bijection(1 .. n, S)
  BY <1>1
<1>3. f \in [1 .. n -> S] /\ IsInjective(f)
  BY <1>2 DEF Bijection, Injection
<1>4. o \in [1 .. n -> S] /\ IsInjective(o)
  BY <1>3 DEF SetToSeq
<1> HIDE DEF o
<1>5. DOMAIN o = 1 .. n /\ \A j, k \in DOMAIN o : o[j] = o[k] => j = k
  BY <1>4 DEF IsInjective
<1>6. o \in Injection(1 .. n, S)
  BY <1>4 DEF Injection
<1>7. Cardinality(1 .. n) = n
  BY <1>1, FS_Interval
<1> HIDE DEF n
<1>8. o \in Surjection(1 .. n, S)
  BY <1>6, <1>7, FS_Injection DEF n
<1>9. \A x \in S : \E k \in DOMAIN o : o[k] = x
  BY <1>5, <1>8 DEF Surjection
<1>10. o \in Seq(S)
  BY <1>1, <1>4
<1>11. QED
  BY <1>5, <1>9, <1>10 DEF o

Advice == [inst : Instruments, action : {"buy", "sell"}]

(* The signals of an evaluation: one for each instrument that has one. *)
LEMMA SignalsFacts ==
  ASSUME NEW f \in [Instruments -> {"buy", "sell", None}]
  PROVE  /\ Signals(f) \in Seq(Advice)
         /\ \A j, k \in DOMAIN Signals(f) : Signals(f)[j].inst = Signals(f)[k].inst => j = k
         /\ \A k \in DOMAIN Signals(f) : Signals(f)[k].action = f[Signals(f)[k].inst]
         /\ \A i \in Instruments :
              f[i] # None => \E k \in DOMAIN Signals(f) : Signals(f)[k].inst = i
<1> DEFINE S == {i \in Instruments : f[i] # None}
           o == SetToSeq(S)
           t == Signals(f)
<1>1. IsFiniteSet(S)
  BY MarketAssumption, FS_Subset
<1>2. t = [k \in DOMAIN o |-> [inst |-> o[k], action |-> f[o[k]]]]
  BY DEF Signals
<1>3. \A x \in S : x \in Instruments /\ f[x] \in {"buy", "sell"}
  OBVIOUS
<1>4. \A i \in Instruments : f[i] # None => i \in S
  OBVIOUS
<1> HIDE DEF S
<1>5. /\ o \in Seq(S)
      /\ \A j, k \in DOMAIN o : o[j] = o[k] => j = k
      /\ \A x \in S : \E k \in DOMAIN o : o[k] = x
  BY <1>1, SetToSeqFacts
<1> HIDE DEF o, t
<1>6. Len(o) \in Nat /\ DOMAIN o = 1 .. Len(o) /\ \A k \in DOMAIN o : o[k] \in S
  BY <1>5
<1>7. DOMAIN t = DOMAIN o
      /\ \A k \in DOMAIN o : t[k] = [inst |-> o[k], action |-> f[o[k]]]
  BY <1>2
<1>8. \A k \in DOMAIN o : t[k] \in Advice /\ t[k].inst = o[k] /\ t[k].action = f[o[k]]
  <2> SUFFICES ASSUME NEW k \in DOMAIN o
               PROVE  t[k] \in Advice /\ t[k].inst = o[k] /\ t[k].action = f[o[k]]
    OBVIOUS
  <2>1. o[k] \in Instruments /\ f[o[k]] \in {"buy", "sell"}
    BY <1>3, <1>6
  <2>2. t[k] = [inst |-> o[k], action |-> f[o[k]]]
    BY <1>7
  <2>3. QED
    BY <2>1, <2>2 DEF Advice
<1>9. t \in Seq(Advice)
  <2>1. t \in [1 .. Len(o) -> Advice]
    BY <1>2, <1>6, <1>7, <1>8
  <2>2. QED
    BY <1>6, <2>1
<1>10. QED
  BY <1>4, <1>5, <1>7, <1>8, <1>9 DEF t

Signalled(i) == \E k \in DOMAIN sigs : sigs[k].inst = i

(* At most one signal of an instrument is to be applied, of what the       *)
(* bandit has recorded; the others agree with the account.                 *)
AgreeInv ==
  kind = "adaptive" =>
    /\ stage \in {"loop", "apply", "down"}
    /\ sigs \in Seq(Advice)
    /\ \A j, k \in DOMAIN sigs : sigs[j].inst = sigs[k].inst => j = k
    /\ stage # "apply" => sigs = << >>
    /\ stage # "down" =>
         /\ \A k \in DOMAIN sigs : sigs[k].action = "buy" <=> open[sigs[k].inst] # None
         /\ \A i \in Instruments \ excused : ~ Signalled(i) => (open[i] # None <=> i \in held)

LEMMA AgreeStart == StrategiesInit => AgreeInv
<1> SUFFICES ASSUME StrategiesInit PROVE AgreeInv
  OBVIOUS
<1>1. stage = "loop" /\ sigs = << >> /\ held = {} /\ \A i \in Instruments : open[i] = None
  BY DEF StrategiesInit, A!AccountInit
<1>2. sigs \in Seq(Advice) /\ DOMAIN sigs = {}
  BY <1>1
<1>3. QED
  BY <1>1, <1>2 DEF AgreeInv

LEMMA AgreeEvaluate ==
  ASSUME StrategiesInv, AgreeInv, EvaluateAdaptive
  PROVE  AgreeInv'
<1>1. /\ kind = "adaptive" /\ stage = "loop" /\ UNCHANGED <<kind, bars, held, excused>>
  BY DEF EvaluateAdaptive, marketVars
<1>2. PICK g \in Picks : Positions(g) /\ Emits([i \in Instruments |-> g[i].sig])
  BY DEF EvaluateAdaptive
<1> DEFINE f == [i \in Instruments |-> g[i].sig]
<1>3. fresh' = {} /\ sigs' = Signals(f) /\ stage' = "apply"
  BY <1>2 DEF Emits
<1>4. \A i \in Instruments :
        /\ g[i].sig \in {"buy", "sell", None}
        /\ g[i].sig = None => open'[i] = open[i]
        /\ g[i].sig = "buy" => open'[i] # None
        /\ g[i].sig = "sell" => open'[i] = None
  BY <1>1, <1>2, <1>3, PositionsFacts
<1>5. f \in [Instruments -> {"buy", "sell", None}] /\ \A i \in Instruments : f[i] = g[i].sig
  BY <1>4
<1> HIDE DEF f
<1>6. /\ sigs' \in Seq(Advice)
      /\ \A j, k \in DOMAIN sigs' : sigs'[j].inst = sigs'[k].inst => j = k
      /\ \A k \in DOMAIN sigs' : sigs'[k].action = f[sigs'[k].inst]
      /\ \A i \in Instruments : f[i] # None => \E k \in DOMAIN sigs' : sigs'[k].inst = i
  BY <1>3, <1>5, SignalsFacts
<1>7. \A k \in DOMAIN sigs' : sigs'[k].inst \in Instruments /\ sigs'[k].action \in {"buy", "sell"}
  <2>1. \A k \in DOMAIN sigs' : sigs'[k] \in Advice
    BY <1>6
  <2>2. \A r \in Advice : r.inst \in Instruments /\ r.action \in {"buy", "sell"}
    BY DEF Advice
  <2>3. QED
    BY <2>1, <2>2
<1>8. ASSUME NEW k \in DOMAIN sigs'
      PROVE  sigs'[k].action = "buy" <=> open'[sigs'[k].inst] # None
  BY <1>4, <1>5, <1>6, <1>7, NoneFacts
<1>9. ASSUME NEW i \in Instruments \ excused, ~ Signalled(i)'
      PROVE  open'[i] # None <=> i \in held
  <2>1. f[i] = None
    BY <1>6, <1>9 DEF Signalled
  <2>2. open'[i] = open[i]
    BY <1>4, <1>5, <2>1
  <2>3. sigs = << >> /\ ~ Signalled(i)
    BY <1>1 DEF AgreeInv, Signalled
  <2>4. QED
    BY <1>1, <2>2, <2>3 DEF AgreeInv
<1>10. QED
  BY <1>1, <1>3, <1>6, <1>8, <1>9 DEF AgreeInv

(* The first signal is done with: executed, or excused. *)
LEMMA AgreeApply ==
  ASSUME AgreeInv, kind = "adaptive", sigs # << >>,
         UNCHANGED <<kind, open>>, sigs' = Tail(sigs), stage' = Onward,
         \A i \in Instruments \ {Head(sigs).inst} :
           (i \in held' <=> i \in held) /\ (i \in excused' <=> i \in excused),
         Head(sigs).inst \notin excused' =>
           (Head(sigs).inst \in held' <=> Head(sigs).action = "buy")
  PROVE  AgreeInv'
<1> DEFINE x == Head(sigs).inst
           n == Len(sigs)
<1>1. /\ stage = "apply" /\ sigs \in Seq(Advice)
      /\ \A j, k \in DOMAIN sigs : sigs[j].inst = sigs[k].inst => j = k
      /\ \A k \in DOMAIN sigs : sigs[k].action = "buy" <=> open[sigs[k].inst] # None
      /\ \A i \in Instruments \ excused : ~ Signalled(i) => (open[i] # None <=> i \in held)
  <2>1. stage = "apply"
    BY DEF AgreeInv
  <2>2. stage # "down"
    BY <2>1
  <2>3. QED
    BY <2>1, <2>2 DEF AgreeInv
<1>2. /\ sigs' \in Seq(Advice) /\ n \in Nat \ {0} /\ Len(sigs') = n - 1
      /\ \A k \in 1 .. (n - 1) : sigs'[k] = sigs[k + 1]
      /\ Head(sigs) = sigs[1] /\ Head(sigs) \in Advice
  BY <1>1, TailFacts
<1>3. DOMAIN sigs = 1 .. n /\ DOMAIN sigs' = 1 .. (n - 1)
  BY <1>1, <1>2
<1>4. /\ 1 \in DOMAIN sigs
      /\ \A k \in DOMAIN sigs' : k + 1 \in DOMAIN sigs /\ k + 1 # 1 /\ sigs'[k] = sigs[k + 1]
      /\ \A j \in DOMAIN sigs : j # 1 => j - 1 \in DOMAIN sigs' /\ sigs'[j - 1] = sigs[j]
  BY <1>2, <1>3
<1> HIDE DEF n
<1>5. stage' \in {"loop", "apply"} /\ (stage' # "apply" => sigs' = << >>)
  <2>1. n <= 1 => Len(sigs') = 0
    BY <1>2
  <2>2. QED
    BY <1>2, <2>1 DEF Onward, n
<1>6. ASSUME NEW j \in DOMAIN sigs', NEW k \in DOMAIN sigs', sigs'[j].inst = sigs'[k].inst
      PROVE  j = k
  <2>1. j + 1 = k + 1
    BY <1>1, <1>4, <1>6
  <2>2. QED
    BY <1>3, <2>1
<1>7. \A k \in DOMAIN sigs' : sigs'[k].action = "buy" <=> open[sigs'[k].inst] # None
  BY <1>1, <1>4
<1>8. ASSUME NEW i \in Instruments \ excused', ~ Signalled(i)'
      PROVE  open[i] # None <=> i \in held'
  <2>1. CASE i = x
    BY <1>1, <1>2, <1>4, <1>8, <2>1
  <2>2. CASE i # x
    <3>1. ~ Signalled(i)
      <4>1. ASSUME NEW j \in DOMAIN sigs, sigs[j].inst = i PROVE FALSE
        <5>1. j # 1
          BY <1>2, <2>2, <4>1
        <5>2. j - 1 \in DOMAIN sigs' /\ sigs'[j - 1].inst = i
          BY <1>4, <4>1, <5>1
        <5>3. QED
          BY <1>8, <5>2 DEF Signalled
      <4>2. QED
        BY <4>1 DEF Signalled
    <3>2. QED
      BY <1>1, <1>8, <2>2, <3>1
  <2>3. QED
    BY <2>1, <2>2
<1>9. QED
  BY <1>2, <1>5, <1>6, <1>7, <1>8 DEF AgreeInv

LEMMA AgreeStep ==
  ASSUME StrategiesInv, AgreeInv, [StrategiesNext]_strategiesVars
  PROVE  AgreeInv'
<1>1. kind' = kind
  BY DEF StrategiesNext, TickInBar, NewBar, Priced, EvaluateRule, EvaluateAdaptive, Prompt,
         Answer, Execute, Refuse, NoSignals, Cancelled, SaveAccount, Down, NewProcess,
         strategiesVars
<1> SUFFICES ASSUME kind = "adaptive" PROVE AgreeInv'
  BY <1>1 DEF AgreeInv
<1>2. CASE UNCHANGED <<stage, sigs, open, held, excused>>
  BY <1>1, <1>2 DEF AgreeInv, Signalled
<1>3. ASSUME NEW i \in Instruments, NEW p \in Prices, TickInBar(i, p) \/ NewBar(i, p)
      PROVE  AgreeInv'
  BY <1>2, <1>3 DEF TickInBar, NewBar, historyVars
<1>4. ASSUME NEW i \in Instruments, Priced(i) PROVE AgreeInv'
  BY <1>2, <1>4 DEF Priced, historyVars
<1>5. ~ EvaluateRule /\ ~ Prompt
  BY DEF EvaluateRule, Prompt
<1>6. ASSUME NEW n \in 0 .. MaxAnswer, NEW a \in [1 .. n -> Entries], Answer(a) PROVE FALSE
  <2>1. stage = "ask"
    BY <1>6 DEF Answer
  <2>2. QED
    BY <2>1 DEF AgreeInv
<1>7. CASE Execute
  <2> DEFINE x == Head(sigs).inst
  <2>1. /\ sigs # << >> /\ sigs' = Tail(sigs) /\ stage' = Onward /\ UNCHANGED <<kind, open>>
        /\ excused' = excused \ {x}
    BY <1>7 DEF Execute
  <2>2. held' = IF Head(sigs).action = "buy" THEN held \cup {x} ELSE held \ {x}
    BY <1>7 DEF Execute, A!Buy, A!Sell
  <2> HIDE DEF x
  <2>3. \A i \in Instruments \ {x} :
          (i \in held' <=> i \in held) /\ (i \in excused' <=> i \in excused)
    BY <2>1, <2>2
  <2>4. x \in held' <=> Head(sigs).action = "buy"
    BY <2>2
  <2>5. QED
    BY <2>1, <2>3, <2>4, AgreeApply DEF x
<1>8. CASE Refuse
  <2> DEFINE x == Head(sigs).inst
  <2>1. /\ sigs # << >> /\ sigs' = Tail(sigs) /\ stage' = Onward /\ UNCHANGED <<kind, open>>
        /\ excused' = excused \cup {x} /\ held' = held
    BY <1>8 DEF Refuse
  <2> HIDE DEF x
  <2>2. /\ x \in excused'
        /\ \A i \in Instruments \ {x} :
             (i \in held' <=> i \in held) /\ (i \in excused' <=> i \in excused)
    BY <2>1
  <2>3. QED
    BY <2>1, <2>2, AgreeApply DEF x
<1>9. CASE EvaluateAdaptive
  BY <1>9, AgreeEvaluate
<1>10. CASE NoSignals
  BY <1>1, <1>10 DEF NoSignals, AgreeInv, Signalled, historyVars
<1>11. CASE Cancelled
  <2>1. /\ stage' = "loop" /\ sigs' = << >> /\ UNCHANGED <<open, held>>
        /\ excused' = excused \cup {sigs[k].inst : k \in DOMAIN sigs}
        /\ stage = "apply"
    BY <1>11 DEF Cancelled, AgreeInv
  <2>2. sigs' \in Seq(Advice) /\ DOMAIN sigs' = {}
    BY <2>1
  <2>3. \A i \in Instruments \ excused' : i \notin excused /\ ~ Signalled(i)
    BY <2>1 DEF Signalled
  <2>4. \A i \in Instruments \ excused : ~ Signalled(i) => (open[i] # None <=> i \in held)
    BY <2>1 DEF AgreeInv
  <2>5. QED
    BY <1>1, <2>1, <2>2, <2>3, <2>4 DEF AgreeInv
<1>12. CASE SaveAccount
  BY <1>2, <1>12 DEF SaveAccount, A!Save, historyVars
<1>13. CASE Down
  <2>1. stage' = "down" /\ sigs' = << >>
    BY <1>13 DEF Down
  <2>2. sigs' \in Seq(Advice) /\ DOMAIN sigs' = {}
    BY <2>1
  <2>3. QED
    BY <2>1, <2>2 DEF AgreeInv
<1>14. CASE NewProcess
  <2>1. /\ stage = "down" /\ stage' = "loop" /\ sigs' = sigs /\ excused' = held'
        /\ \A i \in Instruments : open'[i] = None
    BY <1>14 DEF NewProcess
  <2>2. sigs = << >>
    BY <2>1 DEF AgreeInv
  <2>3. sigs' \in Seq(Advice) /\ DOMAIN sigs' = {}
    BY <2>1, <2>2
  <2>4. QED
    BY <1>1, <2>1, <2>2, <2>3 DEF AgreeInv
<1>15. CASE UNCHANGED strategiesVars
  BY <1>2, <1>15 DEF strategiesVars, historyVars
<1>16. QED
  BY <1>3, <1>4, <1>5, <1>6, <1>7, <1>8, <1>9, <1>10, <1>11, <1>12, <1>13, <1>14, <1>15
     DEF StrategiesNext

(* Between evaluations the bandit and the account hold the same            *)
(* instruments, but for those with a signal that was not executed or a     *)
(* position of an earlier process, for any number of instruments.          *)
THEOREM BooksAgreeHolds == StrategiesSpec => []BooksAgree
<1>1. AgreeInv => BooksAgree
  <2> SUFFICES ASSUME AgreeInv, kind = "adaptive", sigs = << >>, stage = "loop",
                      NEW i \in Instruments \ excused
               PROVE  (open[i] # None) = (i \in held)
    BY DEF BooksAgree
  <2>1. ~ Signalled(i)
    BY DEF Signalled
  <2>2. open[i] # None <=> i \in held
    BY <2>1 DEF AgreeInv
  <2>3. QED
    BY <2>2
<1>2. StrategiesInv /\ [StrategiesNext]_strategiesVars => StrategiesInv'
  BY StrategiesStep
<1>3. StrategiesInv /\ AgreeInv /\ [StrategiesNext]_strategiesVars => AgreeInv'
  BY AgreeStep
<1>4. QED
  BY <1>1, <1>2, <1>3, StrategiesStart, AgreeStart, PTL DEF StrategiesSpec
=============================================================================
