------------------------------ MODULE Decimals ------------------------------
(***************************************************************************)
(* model.Decimal: fixed-point numbers, an integer of Width bits and a      *)
(* number of digits after the point.  Every operation has a fast path in   *)
(* machine integers, with an overflow test, and falls back on big ones.    *)
(* The code has Base = 10, Width = 64, MaxScale = 18; what matters of      *)
(* these is in the assumption.                                             *)
(*                                                                         *)
(* A name Dec... stands for the method of Decimal without it.  Left out:   *)
(* parsing, printing and floats.                                           *)
(***************************************************************************)
EXTENDS Integers, FiniteSets, FiniteSetsExt

CONSTANTS Base, Width, MaxScale

MaxInt == 2 ^ (Width - 1) - 1
MinInt == - MaxInt - 1

ASSUME DecimalsAssumption ==
  /\ Base \in Nat /\ Base > 1 /\ Base % 2 = 0
  /\ Width \in Nat \ {0} /\ MaxScale \in Nat
  /\ 2 * Base ^ MaxScale <= MaxInt

Scales == 0 .. MaxScale
Decimal == [u : MinInt .. MaxInt, s : Scales]

-----------------------------------------------------------------------------
(* Machine integers. *)

IsInt64(n) == MinInt <= n /\ n <= MaxInt

(* Two's complement. *)
Wrap(n) == ((n - MinInt) % 2 ^ Width) + MinInt

Abs(n) == IF n < 0 THEN -n ELSE n
Sgn(n) == IF n < 0 THEN -1 ELSE IF n = 0 THEN 0 ELSE 1

(* Division that truncates. *)
Quo(n, d) == Sgn(n) * Sgn(d) * (Abs(n) \div Abs(d))

overflowsMul(a, b) == a # 0 /\ b # 0 /\ Wrap(Quo(Wrap(a * b), b)) # a

(* addFast: a sign the operands cannot produce. *)
addOverflows(x, y) ==
  \/ x > 0 /\ y > 0 /\ Wrap(x + y) < 0
  \/ x < 0 /\ y < 0 /\ Wrap(x + y) >= 0

-----------------------------------------------------------------------------
(* Big integers. *)

maxScaleOf(a, b) == Max({a.s, b.s})

bigAt(d, scale) == d.u * Base ^ (scale - d.s)

(* n / d, halves away from zero. *)
HalfAway(n, d) ==
  LET q == Quo(n, d)
      r == Abs(n - q * d)
  IN  IF 2 * r >= Abs(d) THEN q + Sgn(n) * Sgn(d) ELSE q

reduceScale(v, n) == HalfAway(v, Base ^ n)

(* The value v at a scale, with digits dropped one by one, each rounded,   *)
(* until it fits; the largest number if it never does.                     *)
fromBig(v, scale) ==
  LET top == Min({scale, MaxScale})
      w[k \in 0 .. top] == IF k = 0 THEN reduceScale(v, scale - top)
                                    ELSE reduceScale(w[k - 1], 1)
      fits == {k \in 0 .. top : IsInt64(w[k])}
  IN  IF fits = {} THEN [u |-> Sgn(v) * MaxInt, s |-> 0]
                   ELSE [u |-> w[Min(fits)], s |-> top - Min(fits)]

-----------------------------------------------------------------------------
(* alignFast: both at the larger scale, if that can be done. *)
Aligns(a, b) ==
  /\ a.s < b.s => ~overflowsMul(a.u, Base ^ (b.s - a.s))
  /\ b.s < a.s => ~overflowsMul(b.u, Base ^ (a.s - b.s))

DecCmp(d, o) ==
  LET scale == maxScaleOf(d, o) IN
  IF Aligns(d, o) THEN Sgn(Wrap(bigAt(d, scale)) - Wrap(bigAt(o, scale)))
                  ELSE Sgn(bigAt(d, scale) - bigAt(o, scale))

DecLess(d, o) == DecCmp(d, o) < 0

DecAdd(d, o) ==
  LET scale == maxScaleOf(d, o)
      x == bigAt(d, scale)
      y == bigAt(o, scale)
  IN  IF Aligns(d, o) /\ ~addOverflows(Wrap(x), Wrap(y))
        THEN [u |-> Wrap(Wrap(x) + Wrap(y)), s |-> scale]
        ELSE fromBig(x + y, scale)

DecNeg(d) == [d EXCEPT !.u = Wrap(-d.u)]

DecSub(d, o) == DecAdd(d, DecNeg(o))

DecMul(d, o) ==
  IF d.s + o.s <= MaxScale /\ ~overflowsMul(d.u, o.u)
    THEN [u |-> Wrap(d.u * o.u), s |-> d.s + o.s]
    ELSE fromBig(d.u * o.u, d.s + o.s)

DecDiv(d, o, scale) ==
  IF o.u = 0 THEN [u |-> 0, s |-> 0]
  ELSE LET shift == scale + o.s - d.s IN
       fromBig(IF shift >= 0 THEN HalfAway(d.u * Base ^ shift, o.u)
                             ELSE HalfAway(d.u, o.u * Base ^ (-shift)), scale)

Rescale(d, scale) ==
  IF scale >= d.s
    THEN IF overflowsMul(d.u, Base ^ (scale - d.s)) THEN d
         ELSE [u |-> Wrap(bigAt(d, scale)), s |-> scale]
    ELSE [u |-> HalfAway(d.u, Base ^ (d.s - scale)), s |-> scale]

-----------------------------------------------------------------------------
(* The reference: whole numbers of the unit of a product. *)
Unit(scale) == Base ^ (2 * MaxScale - scale)
Val(d) == d.u * Unit(d.s)

(* r stands for the value v, which has `scale' digits: it is less than a   *)
(* unit of its last digit off, with no digit fewer than it must; or it is  *)
(* the largest number, and v is at least that large.                       *)
StandsFor(r, v, scale) ==
  \/ /\ Abs(Val(r) - v) < Unit(r.s)
     /\ r.s = Min({scale, MaxScale}) \/ Abs(v) + Unit(r.s + 1) > MaxInt * Unit(r.s + 1)
  \/ r = [u |-> Sgn(v) * MaxInt, s |-> 0] /\ Abs(v) >= MaxInt * Unit(0)

(* "int64 min is not reachable via ParseDecimal" *)
Operands == {d \in Decimal : d.u # MinInt}

CmpExact == \A a, b \in Operands : DecCmp(a, b) = Sgn(Val(a) - Val(b))

SumsStand ==
  \A a, b \in Operands :
    /\ StandsFor(DecAdd(a, b), Val(a) + Val(b), maxScaleOf(a, b))
    /\ StandsFor(DecSub(a, b), Val(a) - Val(b), maxScaleOf(a, b))

ProductsStand ==
  \A a, b \in Operands :
    StandsFor(DecMul(a, b), a.u * b.u * Unit(a.s + b.s), a.s + b.s)

QuotientsRound ==
  \A a, b \in Operands, scale \in Scales :
    LET q == DecDiv(a, b, scale) IN
    b.u # 0 /\ q.s = scale /\ Abs(q.u) < MaxInt =>
      2 * Abs(q.u * b.u * Base ^ a.s - a.u * Base ^ (scale + b.s)) <= Abs(b.u) * Base ^ a.s

ScalesRound ==
  \A a \in Operands, scale \in Scales :
    LET r == Rescale(a, scale) IN
    IF scale < a.s THEN r.s = scale /\ 2 * Abs(Val(r) - Val(a)) <= Unit(scale)
                   ELSE Val(r) = Val(a)

(* Through either path, whatever overflows in between and whatever signs   *)
(* and scales meet: comparison is exact; a sum, a difference and a product *)
(* are exact where they fit, and else lose digits, never size or sign; a   *)
(* quotient that fits and a smaller scale are off by half a unit at most;  *)
(* a larger scale changes no value.  The exception is the smallest machine *)
(* integer, whose negation, as an operand, is itself.                      *)
ArithmeticSound ==
  CmpExact /\ SumsStand /\ ProductsStand /\ QuotientsRound /\ ScalesRound
=============================================================================
