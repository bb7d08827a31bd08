---------------------------- MODULE PaperTrading ----------------------------
(***************************************************************************)
(* The paper engine and its simulated account (internal/consumer/paper):   *)
(* the engine goroutine's loop over ticks and timers, the fills, the       *)
(* marks, and the state file a restart resumes from.                       *)
(*                                                                         *)
(* Money, prices and quantities are the integers behind model.Decimal:     *)
(* money in the smallest unit of its scale, a price in 1/PriceUnit of      *)
(* that, a quantity in 1/QtyUnit.  Every conversion rounds half away from  *)
(* zero, as FromFloat and Rescale do; the floating-point quotients between *)
(* them are exact.  Rates and Strength are per mille.                      *)
(*                                                                         *)
(* A signal is any the strategy could give; an evaluation with several is  *)
(* several with one.  Left out: the API's reads, the equity history.       *)
(***************************************************************************)
EXTENDS Market, FiniteSetsExt, Functions

CONSTANTS
  StartingCash, Fee, Slippage, Fraction, PriceUnit, QtyUnit,  (* Config     *)
  Strengths,  (* strengths of a signal, clamped to 0 .. 1000               *)
  MaxTicks,   (* bound: ticks of the market                                *)
  MaxTrades,  (* bound: fills                                              *)
  MaxRuns,    (* bound: times the engine is started                        *)
  Torn        (* a file cut short                                          *)

ASSUME PaperAssumption ==
  /\ StartingCash \in Nat \ {0} /\ PriceUnit \in Nat \ {0} /\ QtyUnit \in Nat \ {0}
  /\ Fee \in 0 .. 1000 /\ Slippage \in 0 .. 999 /\ Fraction \in 1 .. 1000
  /\ Strengths \subseteq 0 .. 1000
  /\ MaxTicks \in Nat /\ MaxTrades \in Nat /\ MaxRuns \in Nat

VARIABLES
  phase,      (* where the engine goroutine is                             *)
  runs,       (* times it has been started                                 *)
  stopping,   (* Run is returning: the deferred save                       *)
  moves,      (* trades on the market                                      *)
  market,     (* market[i]: the price of the newest tick of i, or None     *)
  last,       (* Engine.last                                               *)
  sig,        (* the signal waiting out its latency, or None               *)
  book,       (* the fields of Account that are saved                      *)
  marks,      (* Account.lastPrices                                        *)
  disk,       (* the state file: None, Torn or a book                      *)
  tmp,        (* the temporary file                                        *)
  (* History. *)
  failed      (* a save has failed in this run                             *)

vars == <<phase, runs, stopping, moves, market, last, sig, book, marks, disk, tmp, failed>>

-----------------------------------------------------------------------------
(* Arithmetic. *)

(* n / d to the nearest integer, halves away from zero (n >= 0, d > 0). *)
Round(n, d) == (2 * n + d) \div (2 * d)

applyRate(p, rate) == Round(p * rate, 1000)

(* price * quantity, as money. *)
Notional(p, q) == Round(p * q, PriceUnit * QtyUnit)

Held(b) == {i \in Instruments : b.positions[i] # None}

Cost(p) == Notional(p.avgEntry, p.quantity)

(* positionValueLocked: a position without a mark is valued at cost. *)
positionValue(b, ms) ==
  SumFunctionOnSet([i \in Instruments |-> IF ms[i] = None THEN Cost(b.positions[i])
                                          ELSE Notional(ms[i], b.positions[i].quantity)],
                   Held(b))

equity(b, ms) == b.cash + positionValue(b, ms)

NewBook ==
  [cash |-> StartingCash, positions |-> [i \in Instruments |-> None], trades |-> 0,
   realized |-> 0, fees |-> 0, wins |-> 0, losses |-> 0, peak |-> StartingCash,
   maxDD |-> [lost |-> 0, of |-> 1]]

NoMarks == [i \in Instruments |-> None]

-----------------------------------------------------------------------------
(* Account.buy: what a buy of i at reference price ref would be. *)

Sizing(b, ms, strength) ==
  Min({Round(equity(b, ms) * Fraction * strength, 1000 * 1000), b.cash})

Order(b, ms, ref, strength) ==
  LET price  == applyRate(ref, 1000 + Slippage)
      budget == Round(Sizing(b, ms, strength) * 1000, 1000 + Fee)
      qty    == Round(budget * PriceUnit * QtyUnit, price)
      fee    == Round(Notional(price, qty) * Fee, 1000)
  IN  [qty |-> qty, fee |-> fee, total |-> Notional(price, qty) + fee]

(* Mutant: the fee is left out of what must be affordable. *)
AffordableBeforeFee(b, o) == o.qty > 0 /\ o.total - o.fee <= b.cash

Affordable(b, o) == o.qty > 0 /\ o.total <= b.cash

(* Mutant: the cost basis leaves the fee out. *)
boughtFeeless(b, i, o) ==
  [b EXCEPT !.cash = @ - o.total,
            !.fees = @ + o.fee,
            !.positions[i] = [quantity |-> o.qty,
                              avgEntry |-> Round((o.total - o.fee) * PriceUnit * QtyUnit, o.qty)],
            !.trades = @ + 1]

(* The cost basis includes the fee. *)
bought(b, i, o) ==
  [b EXCEPT !.cash = @ - o.total,
            !.fees = @ + o.fee,
            !.positions[i] = [quantity |-> o.qty,
                              avgEntry |-> Round(o.total * PriceUnit * QtyUnit, o.qty)],
            !.trades = @ + 1]

buy(b, ms, i, ref, strength) ==
  LET o == Order(b, ms, ref, strength) IN
  IF b.positions[i] = None /\ Affordable(b, o) THEN bought(b, i, o) ELSE b

(* Account.sell: the whole position. *)
sell(b, i, ref) ==
  IF b.positions[i] = None THEN b ELSE
  LET p        == b.positions[i]
      notional == Notional(applyRate(ref, 1000 - Slippage), p.quantity)
      fee      == Round(notional * Fee, 1000)
      realized == notional - fee - Cost(p)
  IN  [b EXCEPT !.cash = @ + notional - fee,
                !.fees = @ + fee,
                !.realized = @ + realized,
                !.wins = IF realized >= 0 THEN @ + 1 ELSE @,
                !.losses = IF realized < 0 THEN @ + 1 ELSE @,
                !.positions[i] = None,
                !.trades = @ + 1]

(* Account.Mark, on the book: the equity watermark and the worst fall from *)
(* it, a fraction.                                                         *)
marked(b, ms) ==
  LET e    == equity(b, ms)
      peak == Max({b.peak, e})
      dd   == [lost |-> peak - e, of |-> peak]
  IN  [b EXCEPT !.peak = peak,
                !.maxDD = IF dd.lost * @.of > @.lost * dd.of THEN dd ELSE @]

-----------------------------------------------------------------------------
Init ==
  /\ phase = "loop"
  /\ runs = 1
  /\ stopping = FALSE
  /\ moves = 0
  /\ market = [i \in Instruments |-> None]
  /\ last = [i \in Instruments |-> None]
  /\ sig = None
  /\ book = NewBook
  /\ marks = NoMarks
  /\ disk = None
  /\ tmp = None
  /\ failed = FALSE

(* A trade on the market, on its way through the coalescing subscription. *)
MarketMoves(i, p) ==
  /\ moves < MaxTicks
  /\ moves' = moves + 1
  /\ market' = [market EXCEPT ![i] = p]
  /\ UNCHANGED <<phase, runs, stopping, last, sig, book, marks, disk, tmp, failed>>

(* Run: a tick. *)
Receive(i) ==
  /\ phase = "loop"
  /\ market[i] # None
  /\ last' = [last EXCEPT ![i] = market[i]]
  /\ UNCHANGED <<phase, runs, stopping, moves, market, sig, book, marks, disk, tmp, failed>>

(* Run: the mark timer. *)
Mark ==
  /\ phase = "loop"
  /\ marks' = last
  /\ book' = marked(book, marks')
  /\ UNCHANGED <<phase, runs, stopping, moves, market, last, sig, disk, tmp, failed>>

(* Run: the evaluation timer, up to the latency wait. *)
Evaluate(i, action, strength) ==
  /\ phase = "loop"
  /\ book.trades < MaxTrades
  /\ sig' = [inst |-> i, action |-> action, strength |-> strength]
  /\ phase' = "wait"
  /\ UNCHANGED <<runs, stopping, moves, market, last, book, marks, disk, tmp, failed>>

(* evaluate, after the wait: the signal meets the price Last returns; with *)
(* no price it is skipped.                                                 *)
Apply ==
  /\ phase = "wait"
  /\ LET i == sig.inst IN
       book' = IF last[i] = None THEN book
               ELSE IF sig.action = "buy" THEN buy(book, marks, i, last[i], sig.strength)
               ELSE sell(book, i, last[i])
  /\ sig' = None
  /\ phase' = "loop"
  /\ UNCHANGED <<runs, stopping, moves, market, last, marks, disk, tmp, failed>>

(* ctx is done during the wait: the signal is dropped.  Back in the loop,  *)
(* another case of the select may still come before ctx.                   *)
WaitCancelled ==
  /\ phase = "wait"
  /\ sig' = None
  /\ phase' = "loop"
  /\ UNCHANGED <<runs, stopping, moves, market, last, book, marks, disk, tmp, failed>>

(* Run: ctx or the subscription is done. *)
Stop ==
  /\ phase = "loop"
  /\ ~stopping
  /\ stopping' = TRUE
  /\ UNCHANGED <<phase, runs, moves, market, last, sig, book, marks, disk, tmp, failed>>

-----------------------------------------------------------------------------
(* save: the temporary file, and the rename.  The save timer and Run's     *)
(* deferred call, after which the engine is gone.                          *)

AfterSave == IF stopping THEN "gone" ELSE "loop"

(* Mutant: the state file itself is rewritten. *)
SaveWritesInPlace ==
  /\ phase = "loop"
  /\ tmp' = book
  /\ disk' = Torn
  /\ phase' = "rename"
  /\ UNCHANGED <<runs, stopping, moves, market, last, sig, book, marks, failed>>

(* Mutant: the old file is removed to make room. *)
SaveWritesRemoves ==
  /\ phase = "loop"
  /\ tmp' = book
  /\ disk' = None
  /\ phase' = "rename"
  /\ UNCHANGED <<runs, stopping, moves, market, last, sig, book, marks, failed>>

SaveWrites ==
  /\ phase = "loop"
  /\ tmp' = book
  /\ phase' = "rename"
  /\ UNCHANGED <<runs, stopping, moves, market, last, sig, book, marks, disk, failed>>

SaveRenames ==
  /\ phase = "rename"
  /\ disk' = tmp
  /\ tmp' = None
  /\ phase' = AfterSave
  /\ UNCHANGED <<runs, stopping, moves, market, last, sig, book, marks, failed>>

(* WriteFile or Rename fails: logged.  The temporary file is never read.   *)
SaveFails ==
  /\ phase \in {"loop", "rename"}
  /\ tmp' = None
  /\ failed' = TRUE
  /\ phase' = AfterSave
  /\ UNCHANGED <<runs, stopping, moves, market, last, sig, book, marks, disk>>

(* The process dies, even inside WriteFile. *)
Dies ==
  /\ phase \in {"loop", "wait", "rename"}
  /\ phase' = "dead"
  /\ sig' = None
  /\ tmp' = None
  /\ UNCHANGED <<runs, stopping, moves, market, last, book, marks, disk, failed>>

(* restore: an absent or malformed file leaves a new account. *)
restore(f) == IF f \in {None, Torn} THEN NewBook ELSE f

(* A new process.  A state file that cannot be read is logged, and the     *)
(* engine goes on with the new account.                                    *)
Restart ==
  /\ phase \in {"gone", "dead"}
  /\ runs < MaxRuns
  /\ runs' = runs + 1
  /\ phase' = "loop"
  /\ stopping' = FALSE
  /\ last' = [i \in Instruments |-> None]
  /\ book' \in {restore(disk), NewBook}
  /\ marks' = NoMarks
  /\ failed' = FALSE
  /\ UNCHANGED <<moves, market, sig, disk, tmp>>

Working ==
  /\ ~stopping
  /\ \/ \E i \in Instruments : Receive(i)
     \/ Mark
     \/ \E i \in Instruments, s \in Strengths : Evaluate(i, "buy", s)
     \/ \E i \in Instruments : Evaluate(i, "sell", 1000)
     \/ Apply \/ WaitCancelled \/ Stop

Next ==
  \/ \E i \in Instruments, p \in Prices : MarketMoves(i, p)
  \/ Working
  \/ SaveWrites \/ SaveRenames \/ SaveFails
  \/ Dies \/ Restart

Spec == Init /\ [][Next]_vars

-----------------------------------------------------------------------------
Position == [quantity : Nat \ {0}, avgEntry : Nat]
Books ==
  [cash : Nat, positions : [Instruments -> Position \cup {None}], trades : Nat,
   realized : Int, fees : Nat, wins : Nat, losses : Nat, peak : Nat \ {0},
   maxDD : [lost : Nat, of : Nat \ {0}]]
Signal == [inst : Instruments, action : {"buy", "sell"}, strength : 0 .. 1000]

ASSUME NothingAssumption ==
  None \notin Position \cup Signal \cup Books /\ Torn \notin Books \cup {None}

(* Types; cash is never negative: the account buys only what it can pay    *)
(* for, fee and rounding included.                                         *)
TypeOK ==
  /\ phase \in {"loop", "wait", "rename", "gone", "dead"}
  /\ runs \in Nat /\ moves \in Nat /\ stopping \in BOOLEAN /\ failed \in BOOLEAN
  /\ sig \in (IF phase = "wait" THEN Signal ELSE {None})
  /\ book \in Books
  /\ {last, market, marks} \subseteq [Instruments -> Prices \cup {None}]
  /\ {disk, tmp} \subseteq Books \cup {None, Torn}

Balanced(b) ==
  b.cash + SumFunctionOnSet([i \in Instruments |-> Cost(b.positions[i])], Held(b))
    = StartingCash + b.realized

Counted(b) == b.trades = 2 * (b.wins + b.losses) + Cardinality(Held(b))

(* The books balance through every round trip, although a position's cost  *)
(* is stored as a rounded price per unit and multiplied back: no money     *)
(* appears or disappears, in the account or in the state file, and every   *)
(* trade is the entry of an open position or half of a win or a loss,      *)
(* across saves, crashes and restarts.                                     *)
BooksBalance ==
  /\ Balanced(book) /\ Counted(book)
  /\ disk \notin {None, Torn} => Balanced(disk) /\ Counted(disk)

(* "A crash mid-write cannot leave a truncated book behind", whatever the  *)
(* moment it happens or however often a save fails; and an engine that     *)
(* returned after a successful save has left its last book.                *)
StateFileIsWhole ==
  /\ disk # Torn
  /\ phase = "gone" /\ ~failed => disk = book

(* The engine is the account that Strategies builds on: a fill opens or    *)
(* closes one whole position, and whenever a process dies, in whatever     *)
(* step of a save, the next one has the positions of the latest complete   *)
(* save or none at all.                                                    *)
Account == INSTANCE Account WITH
  held <- Held(book), saved <- IF disk \in {None, Torn} THEN {} ELSE Held(disk)
ImplementsAccount == Account!AccountSpec
=============================================================================
