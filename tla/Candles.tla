------------------------------ MODULE Candles -------------------------------
(***************************************************************************)
(* The candle builder (internal/consumer/candles): ticks of a drop_oldest  *)
(* subscription folded into bars of one interval, with a bounded history   *)
(* of completed bars per instrument.  Strategies and the HTTP API read it  *)
(* through Recent.                                                         *)
(*                                                                         *)
(* A tick carries the venue's trade id, so that the venue may send one     *)
(* again after a reconnect, and the event time, which need not grow from   *)
(* tick to tick.  Prices and quantities are Decimals, of different scales. *)
(***************************************************************************)
EXTENDS Integers, Sequences, SequencesExt, Decimals

CONSTANTS
  Instruments,
  Interval,      (* Builder.interval                                   *)
  History,       (* Builder.history: completed bars kept               *)
  MaxEventTime,  (* bound: latest event time                           *)
  Prices,        (* prices of the market                               *)
  Quantities,    (* Quantities[n]: what the n-th trade is of           *)
  MaxTicks       (* bound: ticks the consumer reads                    *)

ASSUME CandlesAssumption ==
  /\ Interval \in Nat \ {0} /\ History \in Nat \ {0}
  /\ MaxEventTime \in Nat /\ MaxTicks \in Nat
  /\ Prices \subseteq Decimal /\ Quantities \in [1 .. MaxTicks -> Decimal]
  /\ \A d \in Prices \cup Range(Quantities) : d.u > 0

VARIABLES
  open,   (* open[i]: the bar in progress, if there is one *)
  done,   (* done[i]: completed bars, oldest first         *)
  log     (* history: the ticks the consumer has read      *)

candlesVars == <<open, done, log>>

Bucket(t) == t - (t % Interval)

CandlesInit ==
  /\ open = << >>
  /\ done = [i \in Instruments |-> << >>]
  /\ log = << >>

(* The bar a tick opens. *)
start(t) ==
  [openTime |-> Bucket(t.time), closeTime |-> t.time, open |-> t.price,
   high |-> t.price, low |-> t.price, close |-> t.price, volume |-> t.qty,
   trades |-> 1, complete |-> FALSE]

(* The last History completed bars. *)
retain(bars, c) ==
  LET h == Append(bars, c) IN SubSeq(h, Len(h) + 1 - Min({Len(h), History}), Len(h))

(* Mutant: prices are compared by their units, whatever their scales. *)
foldByUnits(c, t) ==
  [c EXCEPT !.high = IF @.u < t.price.u THEN t.price ELSE @,
            !.low = IF t.price.u < @.u THEN t.price ELSE @,
            !.close = t.price,
            !.closeTime = t.time,
            !.volume = DecAdd(@, t.qty),
            !.trades = @ + 1]

(* A tick of the bar's own bucket. *)
fold(c, t) ==
  [c EXCEPT !.high = IF DecLess(@, t.price) THEN t.price ELSE @,
            !.low = IF DecLess(t.price, @) THEN t.price ELSE @,
            !.close = t.price,
            !.closeTime = t.time,
            !.volume = DecAdd(@, t.qty),
            !.trades = @ + 1]

-----------------------------------------------------------------------------
(* b.open[k] = b.start(t, bucket). *)
Opened(t) == [i \in DOMAIN open \cup {t.inst} |-> IF i = t.inst THEN start(t) ELSE open[i]]

(* Builder.Add, one action per case of its switch. *)

AddFirst(t) ==
  /\ t.inst \notin DOMAIN open
  /\ open' = Opened(t)
  /\ UNCHANGED done

AddLater(t) ==
  /\ t.inst \in DOMAIN open
  /\ Bucket(t.time) > open[t.inst].openTime
  /\ done' = [done EXCEPT ![t.inst] = retain(@, [open[t.inst] EXCEPT !.complete = TRUE])]
  /\ open' = Opened(t)

(* Mutant: a late tick is folded into the completed bar of its bucket. *)
AddLateMutates(t) ==
  /\ t.inst \in DOMAIN open
  /\ Bucket(t.time) < open[t.inst].openTime
  /\ done' = [done EXCEPT ![t.inst] =
                [k \in DOMAIN @ |-> IF @[k].openTime = Bucket(t.time)
                                      THEN fold(@[k], t) ELSE @[k]]]
  /\ UNCHANGED open

(* A late tick for a closed bar is dropped. *)
AddLate(t) ==
  /\ t.inst \in DOMAIN open
  /\ Bucket(t.time) < open[t.inst].openTime
  /\ UNCHANGED <<open, done>>

AddSame(t) ==
  /\ t.inst \in DOMAIN open
  /\ Bucket(t.time) = open[t.inst].openTime
  /\ open' = [open EXCEPT ![t.inst] = fold(@, t)]
  /\ UNCHANGED done

Add(t) ==
  /\ log' = Append(log, t)
  /\ AddFirst(t) \/ AddLater(t) \/ AddLate(t) \/ AddSame(t)

(* A new trade, each with a quantity of its own, or one the venue replays. *)
NewTrades ==
  {[inst |-> i, id |-> Len(log) + 1, time |-> m, price |-> p, qty |-> Quantities[Len(log) + 1]] :
     i \in Instruments, m \in 0 .. MaxEventTime, p \in Prices}
Replays == ToSet(log)

CandlesNext ==
  /\ Len(log) < MaxTicks
  /\ (\E t \in NewTrades : Add(t)) \/ (\E t \in Replays : Add(t))

CandlesSpec == CandlesInit /\ [][CandlesNext]_candlesVars

(* Recent, without a limit: completed bars and the one in progress. *)
Recent(i) == IF i \notin DOMAIN open THEN done[i] ELSE Append(done[i], open[i])

-----------------------------------------------------------------------------
(* The reference: a bar is what the trades of its bucket say, in the order *)
(* they were first read, each counted once ("make consumers idempotent");  *)
(* a trade does not count if a tick of its instrument in a later bucket    *)
(* was read before it.                                                     *)
InTime(k) ==
  \A j \in 1 .. k - 1 :
    log[j].inst = log[k].inst => Bucket(log[j].time) <= Bucket(log[k].time)
FirstSeen(k) == \A j \in 1 .. k - 1 : log[j] # log[k]
Of(i) == {k \in DOMAIN log : log[k].inst = i /\ InTime(k)}
InBucket(i, b) == {k \in Of(i) : Bucket(log[k].time) = b /\ FirstSeen(k)}
Buckets(i) == {Bucket(log[k].time) : k \in Of(i)}

(* While the bar was in progress, a trade it already had came once more.   *)
Replayed(i, b) == \E k \in Of(i) : Bucket(log[k].time) = b /\ ~FirstSeen(k)

(* A volume is the sum of what was traded: exactly, while that fits at the *)
(* finest scale among its ticks, and less than a unit off per trade after  *)
(* that.                                                                   *)
SumsUp(volume, K) ==
  LET sum   == MapThenSumSet(LAMBDA k : Val(log[k].qty), K)
      scale == Max({log[k].qty.s : k \in K})
  IN  /\ Abs(Val(volume) - sum) < Cardinality(K) * Unit(volume.s)
      /\ sum <= MaxInt * Unit(scale) => Val(volume) = sum /\ volume.s = scale

(* The part of a bar a replay does not touch, and the part it does.        *)
RangeIsRight(c, i, b) ==
  LET K == InBucket(i, b) IN
  /\ c.openTime = b
  /\ c.open = log[Min(K)].price
  /\ Val(c.high) = Max({Val(log[k].price) : k \in K})
  /\ Val(c.low) = Min({Val(log[k].price) : k \in K})
  /\ c.complete = \E later \in Buckets(i) : b < later
TotalIsRight(c, i, b) ==
  LET K == InBucket(i, b) IN
  /\ c.closeTime = log[Max(K)].time
  /\ c.close = log[Max(K)].price
  /\ SumsUp(c.volume, K)
  /\ c.trades = Cardinality(K)

(* The incremental builder agrees with the reference: Recent is the last   *)
(* History + 1 buckets that had a trade, in order, each bar the open, high,*)
(* low, close and volume of its own trades, whatever their order of        *)
(* arrival, the scales the venue writes them in and however the            *)
(* instruments interleave.  The exception: consumers should be idempotent  *)
(* (bus.go, DESIGN.md), but a trade that comes again while its bar is in   *)
(* progress is folded in again, and the bar has its close, its quantity    *)
(* twice and one trade too many.  Even then the bar is in its place, with  *)
(* its open, high and low.                                                 *)
MatchesReference ==
  \A i \in Instruments :
    LET bs   == SetToSortSeq(Buckets(i), <)
        kept == SubSeq(bs, Len(bs) + 1 - Min({Len(bs), History + 1}), Len(bs))
    IN  /\ Len(Recent(i)) = Len(kept)
        /\ \A k \in DOMAIN kept :
             /\ RangeIsRight(Recent(i)[k], i, kept[k])
             /\ Replayed(i, kept[k]) \/ TotalIsRight(Recent(i)[k], i, kept[k])

(* "Mutating a published bar would make the same query return different    *)
(* answers over time": the only bar that joins the history is the one that *)
(* was in progress, as it was; a bar leaves it only at the old end; and no *)
(* bucket is ever opened a second time.                                    *)
PublishedBarsAreFinal ==
  [][\A i \in DOMAIN open :
       LET before == ToSet(done[i])
           after  == ToSet(done'[i])
       IN  /\ after \ before \subseteq {[open[i] EXCEPT !.complete = TRUE]}
           /\ \A gone \in before \ after, c \in after : gone.openTime < c.openTime
           /\ \A c \in after : c.openTime < open'[i].openTime]_candlesVars
=============================================================================
