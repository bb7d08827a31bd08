--------------------------- MODULE PipelineProofs ---------------------------
(***************************************************************************)
(* Theorems about the path of a frame through the process: the connection  *)
(* (Reconnect), the way into the tables (Archive) and the bars (Candles);  *)
(* for every back-off policy, whatever the number of dials, capacities,    *)
(* batch sizes, restarts, instruments, ticks and bars kept.                *)
(***************************************************************************)
EXTENDS Reconnect, Archive, Candles, Lemmas, TLAPS

-----------------------------------------------------------------------------
(* The shortest delay of the a-th back-off, and that it grows with a. *)

Spread(p, d) == (d * p.Jitter) \div 10
Shortest(p, a) == Max({Capped(p, a) - Spread(p, Capped(p, a)), p.InitialDelay})

IsPolicy(p) ==
  /\ p.InitialDelay \in Nat \ {0} /\ p.MaxDelay \in Nat \ {0}
  /\ p.Jitter \in Nat /\ p.ResetAfter \in Nat /\ p.MaxAttempts \in Nat
  /\ p.InitialDelay <= p.MaxDelay

LEMMA PoliciesAre == \A p \in Policies : IsPolicy(p)
  BY ReconnectAssumption DEF IsPolicy

LEMMA TimesGrows ==
  ASSUME NEW c \in Nat, NEW x \in Nat, NEW y \in Nat, x <= y
  PROVE  c * x \in Nat /\ c * y \in Nat /\ c * x <= c * y
  OBVIOUS

LEMMA CappedGrows ==
  ASSUME NEW p, IsPolicy(p), NEW a \in Nat \ {0}, NEW b \in Nat \ {0}, a <= b
  PROVE  Capped(p, a) \in Nat /\ Capped(p, b) \in Nat /\ Capped(p, a) <= Capped(p, b)
<1> DEFINE x == 2^(a - 1)
           y == 2^(b - 1)
<1>1. x \in Nat /\ y \in Nat /\ x <= y
  <2>1. a - 1 \in Nat /\ b - 1 \in Nat /\ a - 1 <= b - 1
    OBVIOUS
  <2>2. QED
    BY <2>1, PowerGrows
<1>2. p.InitialDelay \in Nat /\ p.MaxDelay \in Nat
  BY DEF IsPolicy
<1> HIDE DEF x, y
<1>3. /\ p.InitialDelay * x \in Nat /\ p.InitialDelay * y \in Nat
      /\ p.InitialDelay * x <= p.InitialDelay * y
  BY <1>1, <1>2, TimesGrows
<1>4. /\ Capped(p, a) = Min({p.InitialDelay * x, p.MaxDelay})
      /\ Capped(p, b) = Min({p.InitialDelay * y, p.MaxDelay})
  BY DEF Capped, x, y
<1> DEFINE u == p.InitialDelay * x
           v == p.InitialDelay * y
           w == p.MaxDelay
<1>5. u \in Nat /\ v \in Nat /\ u <= v /\ w \in Nat
  BY <1>2, <1>3
<1>6. Capped(p, a) = Min({u, w}) /\ Capped(p, b) = Min({v, w})
  BY <1>4
<1> HIDE DEF u, v, w
<1>7. /\ Min({u, w}) = IF u <= w THEN u ELSE w
      /\ Min({v, w}) = IF v <= w THEN v ELSE w
  BY <1>5, MinPair
<1>8. QED
  BY <1>5, <1>6, <1>7

(* A tenth of a product, rounded down. *)
LEMMA Tenths ==
  ASSUME NEW x \in Nat
  PROVE  x \div 10 \in Nat /\ 10 * (x \div 10) <= x /\ x < 10 * (x \div 10) + 10
  OBVIOUS

(* Longer delays are spread less than they are longer, or spread down to   *)
(* InitialDelay.                                                           *)
LEMMA SpreadGrows ==
  ASSUME NEW d \in Nat, NEW e \in Nat, d <= e, NEW j \in Nat
  PROVE  \/ d - ((d * j) \div 10) <= e - ((e * j) \div 10)
         \/ d - ((d * j) \div 10) <= 0
<1> DEFINE dj == d * j
           ej == e * j
           fj == (e - d) * j
           q == dj \div 10
           r == ej \div 10
<1>1. dj \in Nat /\ ej \in Nat /\ fj \in Nat /\ e - d \in Nat
  OBVIOUS
<1>2. ej = dj + fj
  OBVIOUS
<1>3. /\ q \in Nat /\ 10 * q <= dj /\ dj < 10 * q + 10
      /\ r \in Nat /\ 10 * r <= ej /\ ej < 10 * r + 10
  BY <1>1, Tenths
<1>4. CASE j <= 10
  <2>1. fj <= 10 * (e - d)
    <3>1. (e - d) * j <= (e - d) * 10
      BY <1>1, <1>4, TimesGrows
    <3>2. QED
      BY <1>1, <3>1
  <2> HIDE DEF dj, ej, fj, q, r
  <2>2. d - q <= e - r
    BY <1>1, <1>2, <1>3, <2>1
  <2>3. QED
    BY <2>2 DEF dj, ej, q, r
<1>5. CASE j > 10
  <2>1. d * 10 <= dj
    BY <1>5, TimesGrows
  <2> HIDE DEF dj, ej, fj, q, r
  <2>2. d - q <= 0
    BY <1>1, <1>3, <2>1
  <2>3. QED
    BY <2>2 DEF dj, q
<1>6. QED
  BY <1>4, <1>5

LEMMA ShortestGrows ==
  ASSUME NEW p, IsPolicy(p), NEW a \in Nat \ {0}, NEW b \in Nat \ {0}, a <= b
  PROVE  Shortest(p, a) \in Nat /\ Shortest(p, b) \in Nat /\ Shortest(p, a) <= Shortest(p, b)
<1> DEFINE d == Capped(p, a)
           e == Capped(p, b)
           i == p.InitialDelay
           x == d - Spread(p, d)
           y == e - Spread(p, e)
<1>1. d \in Nat /\ e \in Nat /\ d <= e
  BY CappedGrows
<1>2. p.Jitter \in Nat /\ i \in Nat
  BY DEF IsPolicy
<1> HIDE DEF d, e
<1>3. x <= y \/ x <= 0
  BY <1>1, <1>2, SpreadGrows DEF Spread
<1>4. x \in Int /\ y \in Int
  <2>1. d * p.Jitter \in Nat /\ e * p.Jitter \in Nat
    BY <1>1, <1>2
  <2>2. Spread(p, d) \in Nat /\ Spread(p, e) \in Nat
    BY <2>1, Tenths DEF Spread
  <2>3. QED
    BY <1>1, <2>2
<1>5. Shortest(p, a) = Max({x, i}) /\ Shortest(p, b) = Max({y, i})
  BY DEF Shortest, d, e
<1> HIDE DEF x, y, i
<1>6. /\ Max({x, i}) = IF x >= i THEN x ELSE i
      /\ Max({y, i}) = IF y >= i THEN y ELSE i
  BY <1>2, <1>4, MaxPair
<1>7. QED
  BY <1>2, <1>3, <1>4, <1>5, <1>6

(* No back-off is shorter, and this long one may be. *)
LEMMA ShortestIsMin ==
  ASSUME NEW p, IsPolicy(p), NEW a \in Nat \ {0}
  PROVE  /\ Min(backoff(p, a)) = Shortest(p, a)
         /\ \A d \in backoff(p, a) : d \in Nat /\ d >= Shortest(p, a)
<1> DEFINE c == Capped(p, a)
           s == Spread(p, c)
           i == p.InitialDelay
<1>1. c \in Nat
  BY CappedGrows
<1>2. p.Jitter \in Nat /\ i \in Nat
  BY DEF IsPolicy
<1> HIDE DEF c
<1>3. s \in Nat
  BY <1>1, <1>2, Tenths DEF Spread
<1>4. backoff(p, a) = {Max({x, i}) : x \in (c - s) .. (c + s)}
  BY DEF backoff, Spread, c
<1>5. Shortest(p, a) = Max({c - s, i})
  BY DEF Shortest, c
<1> HIDE DEF s, i
<1>6. \A x \in Int : Max({x, i}) = IF x >= i THEN x ELSE i
  BY <1>2, MaxPair
<1> DEFINE m == Max({c - s, i})
<1>7. c - s \in (c - s) .. (c + s) /\ c - s \in Int
  BY <1>1, <1>3
<1>8. m \in backoff(p, a)
  BY <1>4, <1>7
<1>9. ASSUME NEW d \in backoff(p, a) PROVE d \in Nat /\ d >= m
  <2>1. PICK x \in (c - s) .. (c + s) : d = Max({x, i})
    BY <1>4, <1>9
  <2>2. x \in Int /\ x >= c - s
    BY <1>1, <1>3, <2>1
  <2>3. d = (IF x >= i THEN x ELSE i) /\ m = (IF c - s >= i THEN c - s ELSE i)
    BY <1>6, <1>7, <2>1, <2>2
  <2>4. QED
    BY <1>1, <1>2, <1>3, <2>2, <2>3
<1> HIDE DEF m
<1>10. m \in Nat
  BY <1>8, <1>9
<1>11. \A x \in backoff(p, a) : (\A y \in backoff(p, a) : x <= y) => x = m
  BY <1>8, <1>9, <1>10
<1>12. Min(backoff(p, a)) = m
  BY <1>8, <1>9, <1>10, <1>11 DEF Min
<1>13. QED
  BY <1>5, <1>9, <1>12 DEF m

(* The quickest k retries, one by one. *)
LEMMA QuickestNext ==
  ASSUME IsPolicy(policy), NEW k \in Nat
  PROVE  /\ Quickest(0) = 0
         /\ Quickest(k) \in Nat
         /\ Quickest(k + 1) = Quickest(k) + Shortest(policy, k + 1)
<1> DEFINE F(n) == [a \in 1 .. n |-> Min(backoff(policy, a))]
<1>1. ASSUME NEW n \in Nat, NEW x \in 1 .. n
      PROVE  F(n)[x] = Shortest(policy, x) /\ F(n)[x] \in Nat
  <2>1. x \in Nat \ {0}
    OBVIOUS
  <2>2. QED
    BY <2>1, ShortestIsMin, ShortestGrows
<1>2. \A n \in Nat : Quickest(n) = SumFunctionOnSet(F(n), 1 .. n)
  BY DEF Quickest
<1> HIDE DEF F
<1>3. \A n \in Nat : IsFiniteSet(1 .. n)
  BY FiniteIndices
<1>4. Quickest(0) = 0
  <2>1. 1 .. 0 = {}
    OBVIOUS
  <2>2. QED
    BY <1>2, <2>1, SumEmpty
<1>5. Quickest(k) \in Nat
  BY <1>1, <1>2, <1>3, SumNat
<1>6. (1 .. (k + 1)) \ {k + 1} = 1 .. k /\ k + 1 \in 1 .. (k + 1) /\ k + 1 \in Nat
  OBVIOUS
<1>7. SumFunctionOnSet(F(k + 1), 1 .. (k + 1))
        = F(k + 1)[k + 1] + SumFunctionOnSet(F(k + 1), 1 .. k)
  <2>1. \A x \in 1 .. (k + 1) : F(k + 1)[x] \in Int
    BY <1>1, <1>6
  <2>2. IsFiniteSet(1 .. (k + 1))
    BY <1>3, <1>6
  <2>3. SumFunctionOnSet(F(k + 1), 1 .. (k + 1))
          = F(k + 1)[k + 1] + SumFunctionOnSet(F(k + 1), (1 .. (k + 1)) \ {k + 1})
    BY <1>6, <2>1, <2>2, SumRemove
  <2>4. QED
    BY <1>6, <2>3
<1>8. SumFunctionOnSet(F(k + 1), 1 .. k) = SumFunctionOnSet(F(k), 1 .. k)
  <2>1. \A x \in 1 .. k : F(k + 1)[x] = F(k)[x]
    <3>1. \A x \in 1 .. k : x \in 1 .. (k + 1)
      OBVIOUS
    <3>2. QED
      BY <1>1, <1>6, <3>1
  <2>2. QED
    BY <1>3, <2>1, SumSame
<1>9. F(k + 1)[k + 1] = Shortest(policy, k + 1) /\ F(k + 1)[k + 1] \in Nat
  BY <1>1, <1>6
<1>10. Quickest(k + 1) = Quickest(k) + Shortest(policy, k + 1)
  BY <1>2, <1>5, <1>6, <1>7, <1>8, <1>9
<1>11. QED
  BY <1>4, <1>5, <1>10

-----------------------------------------------------------------------------
(* Types. *)

Ats == {"dial", "read", "send", "judge", "sleep", "over"}
Errors == {"none", "dial", "nopong", "canceled", "read"}
Sockets == {"none", "up", "silent", "dropped", "closed"}
Pingers == {"off", "idle", "ping", "told"}

TypeInv ==
  /\ policy \in Policies
  /\ now \in Nat /\ attempt \in Nat /\ started \in Nat /\ wakeAt \in Nat
  /\ at \in Ats
  /\ err \in Errors
  /\ dials \in Seq(Nat)
  /\ conn \in Calls
  /\ socket \in [Calls -> Sockets]
  /\ pinger \in [Calls -> Pingers]
  /\ pingErr \in [Calls -> {"empty", "nopong", "nil"}]
  /\ torn \subseteq Calls

LEMMA TypeInit == Init => TypeInv
<1>1. SUFFICES ASSUME Init PROVE TypeInv
  OBVIOUS
<1>2. dials \in Seq(Nat) /\ conn = 1 /\ conn \in Calls
  BY <1>1, ReconnectAssumption DEF Init, conn, Calls
<1>3. QED
  BY <1>1, <1>2 DEF Init, TypeInv, Ats, Errors, Sockets, Pingers

LEMMA FailuresNat ==
  ASSUME TypeInv
  PROVE  /\ IsPolicy(policy)
         /\ Failures(policy) \in Nat \ {0}
         /\ Failures(policy) \in {1, attempt + 1}
         /\ Failures(policy) # attempt + 1 => now - started >= policy.ResetAfter
  BY PoliciesAre DEF TypeInv, Failures

LEMMA TypeKept == TypeInv /\ [Next]_vars => TypeInv'
<1>1. SUFFICES ASSUME TypeInv, [Next]_vars PROVE TypeInv'
  OBVIOUS
<1> USE DEF Ats, Errors, Sockets, Pingers
<1>2. ASSUME NEW e \in Errors, StreamReturns(e) PROVE TypeInv'
  BY <1>1, <1>2 DEF StreamReturns, TypeInv, setup, supVars, pingVars, conn
<1>3. CASE DialFails
  BY <1>2, <1>3 DEF DialFails
<1>4. CASE ReadFails
  <2>1. ReadError \in Errors
    BY DEF ReadError
  <2>2. QED
    BY <1>2, <1>4, <2>1 DEF ReadFails
<1>5. CASE SendCancelled
  BY <1>2, <1>5 DEF SendCancelled
<1>6. CASE Dialed
  BY <1>1, <1>6 DEF Dialed, TypeInv, setup, supVars, conn
<1>7. CASE ReadFrame \/ SendRaw \/ RunReturns \/ SleepCancelled
  BY <1>1, <1>7
  DEF ReadFrame, SendRaw, RunReturns, SleepCancelled, TypeInv, setup, supVars, pingVars, conn
<1>8. CASE PumpTakes \/ Cancel \/ Tick
  BY <1>1, <1>8 DEF PumpTakes, Cancel, Tick, TypeInv, setup, supVars, pingVars, conn
<1>9. CASE PeerFails
  BY <1>1, <1>9 DEF PeerFails, TypeInv, setup, supVars, pingVars, conn
<1>10. CASE RunGivesUp
  BY <1>1, <1>10, FailuresNat DEF RunGivesUp, TypeInv, setup, pingVars, conn
<1>11. CASE RunBacksOff
  <2>1. PICK d \in backoff(policy, Failures(policy)) : wakeAt' = now + d
    BY <1>11 DEF RunBacksOff
  <2>2. d \in Nat
    BY <1>1, <2>1, FailuresNat, ShortestIsMin
  <2>3. wakeAt' \in Nat
    BY <1>1, <2>1, <2>2 DEF TypeInv
  <2>4. QED
    BY <1>1, <1>11, <2>3, FailuresNat DEF RunBacksOff, TypeInv, setup, conn
<1>12. CASE RunWakes
  <2>1. dials \in Seq(Nat) /\ wakeAt \in Nat /\ Len(dials) \in Nat
    BY <1>1 DEF TypeInv
  <2>2. dials' \in Seq(Nat) /\ Len(dials') = Len(dials) + 1
    BY <1>12, <2>1, AppendFacts DEF RunWakes
  <2>3. conn' \in Calls
    BY <1>12, <2>1, <2>2, ReconnectAssumption DEF RunWakes, conn, Calls
  <2>4. QED
    BY <1>1, <1>12, <2>1, <2>2, <2>3 DEF RunWakes, TypeInv, setup, pingVars
<1>13. ASSUME NEW n \in Calls, PingStep(n) PROVE TypeInv'
  BY <1>1, <1>13
  DEF PingStep, PingSent, Pong, PingFails, PingCloses, PingerStops, TypeInv, setup, supVars, conn
<1>14. CASE UNCHANGED vars
  BY <1>1, <1>14 DEF vars, TypeInv, setup, supVars, pingVars, conn
<1>15. QED
  BY <1>1, <1>3, <1>4, <1>5, <1>6, <1>7, <1>8, <1>9, <1>10, <1>11, <1>12, <1>13, <1>14
  DEF Next, StreamStep, RunStep

-----------------------------------------------------------------------------
(* The pace. *)

(* While a call of Stream is under way, or judged. *)
Streaming == at \in {"dial", "read", "send", "judge"}

(* From the j-th dial to the k-th, at t, the back-off has grown to attempt *)
(* step by step and the delays have been waited for, or a healthy run was  *)
(* among them.                                                             *)
Paced(j, k, t) ==
  \/ t - dials[j] >= policy.ResetAfter
  \/ attempt >= k - j /\ t - dials[j] >= Quickest(k - j)

PaceInv ==
  /\ started = dials[conn]
  /\ now >= started
  /\ Streaming => attempt < conn
  /\ Streaming => \A j \in 1 .. conn : Paced(j, conn, dials[conn])
  /\ at = "sleep" => attempt <= conn
  /\ at = "sleep" => \A j \in 1 .. conn : Paced(j, conn + 1, wakeAt)

(* Paced is what NoHammering says of one pair of dials. *)
LEMMA PacedPair ==
  ASSUME IsPolicy(policy), NEW j, NEW k, k - j \in Nat, NEW t,
         t \in Int, dials[j] \in Int, Paced(j, k, t)
  PROVE  t - dials[j] >= Min({Quickest(k - j), policy.ResetAfter}) /\ t >= dials[j]
<1> DEFINE q == Quickest(k - j)
           r == policy.ResetAfter
           d == t - dials[j]
<1>1. q \in Nat /\ r \in Nat /\ d \in Int
  BY QuickestNext DEF IsPolicy
<1>2. Min({q, r}) = IF q <= r THEN q ELSE r
  BY <1>1, MinPair
<1>3. d >= r \/ d >= q
  BY DEF Paced
<1>4. d >= 0 => t >= dials[j]
  OBVIOUS
<1> HIDE DEF q, r, d
<1>5. d >= Min({q, r}) /\ d >= 0
  BY <1>1, <1>2, <1>3
<1>6. QED
  BY <1>4, <1>5 DEF q, r, d

LEMMA PaceInit == Init => PaceInv /\ NoHammering
<1>1. SUFFICES ASSUME Init PROVE PaceInv /\ NoHammering
  OBVIOUS
<1>2. conn = 1 /\ dials[1] = 0 /\ DOMAIN dials = {1} /\ started = 0 /\ now = 0
  BY <1>1 DEF Init, conn
<1>3. at = "dial" /\ attempt = 0
  BY <1>1 DEF Init
<1>4. IsPolicy(policy)
  BY <1>1, PoliciesAre DEF Init
<1>5. Quickest(0) = 0
  BY <1>4, QuickestNext
<1>6. \A j \in 1 .. conn : Paced(j, conn, dials[conn])
  <2>1. \A j \in 1 .. 1 : j = 1 /\ 1 - j = 0
    OBVIOUS
  <2>2. QED
    BY <1>2, <1>3, <1>5, <2>1 DEF Paced
<1>7. PaceInv
  BY <1>2, <1>3, <1>6 DEF PaceInv
<1>8. NoHammering
  BY <1>2 DEF NoHammering
<1>9. QED
  BY <1>7, <1>8

(* A step of Stream, or the end of the run. *)
LEMMA PaceUnchanged ==
  ASSUME TypeInv, PaceInv, NoHammering, UNCHANGED <<policy, started, dials>>,
         now' \in {now, now + 1}, Streaming' => Streaming /\ attempt' = attempt,
         at' = "sleep" => at = "sleep" /\ attempt' = attempt /\ wakeAt' = wakeAt
  PROVE  PaceInv' /\ NoHammering'
<1>1. conn' = conn /\ now \in Nat /\ started \in Nat
  BY DEF conn, TypeInv
<1>2. \A k : Quickest(k)' = Quickest(k)
  BY DEF Quickest
<1>3. NoHammering'
  BY <1>2 DEF NoHammering
<1>4. now' >= started'
  BY <1>1 DEF PaceInv
<1>5. started' = dials'[conn']
  BY <1>1 DEF PaceInv
<1>6. PaceInv'
  BY <1>1, <1>2, <1>4, <1>5 DEF PaceInv, Paced
<1>7. QED
  BY <1>3, <1>6

(* The back-off is chosen: a healthy run is the pause, or the delay adds   *)
(* to those before it.                                                     *)
LEMMA PaceBacksOff ==
  ASSUME TypeInv, PaceInv, NoHammering, RunBacksOff
  PROVE  PaceInv' /\ NoHammering'
<1> DEFINE f == Failures(policy)
<1>1. IsPolicy(policy) /\ f \in Nat \ {0} /\ f \in {1, attempt + 1} /\ policy.ResetAfter \in Nat
  BY FailuresNat DEF IsPolicy
<1>2. PICK d \in backoff(policy, f) : wakeAt' = now + d
  BY DEF RunBacksOff
<1>3. /\ at = "judge" /\ at' = "sleep" /\ attempt' = f
      /\ UNCHANGED <<policy, now, started, dials>>
  BY DEF RunBacksOff, setup
<1>4. conn' = conn /\ conn \in Nat \ {0} /\ DOMAIN dials = 1 .. conn
  BY <1>3, ReconnectAssumption DEF TypeInv, conn, Calls
<1>5. now \in Nat /\ started \in Nat /\ attempt \in Nat
  BY DEF TypeInv
<1>6. d \in Nat /\ d >= Shortest(policy, f) /\ Shortest(policy, f) \in Nat
  BY <1>1, <1>2, ShortestIsMin, ShortestGrows
<1>7. \A k : Quickest(k)' = Quickest(k)
  BY <1>3 DEF Quickest
<1>8. started = dials[conn] /\ now >= started /\ attempt < conn
  BY <1>3 DEF PaceInv, Streaming
<1>9. f # attempt + 1 => now - started >= policy.ResetAfter
  BY FailuresNat
<1> HIDE DEF f
<1>10. ASSUME NEW j \in 1 .. conn
       PROVE  \/ wakeAt' - dials[j] >= policy.ResetAfter
              \/ f >= (conn + 1) - j /\ wakeAt' - dials[j] >= Quickest((conn + 1) - j)
  <2>1. dials[j] \in Nat
    BY <1>4 DEF TypeInv
  <2>2. Paced(j, conn, started)
    BY <1>3, <1>8 DEF PaceInv, Streaming
  <2> DEFINE k == conn - j
  <2>3. k \in Nat /\ (conn + 1) - j = k + 1
    BY <1>4
  <2>4. started >= dials[j]
    <3>1. started \in Int /\ dials[j] \in Int /\ conn - j \in Nat
      BY <1>5, <2>1, <2>3
    <3>2. QED
      BY <1>1, <2>2, <3>1, PacedPair, Zenon
  <2>5. CASE started - dials[j] >= policy.ResetAfter
    BY <1>1, <1>2, <1>5, <1>6, <1>8, <2>1, <2>5
  <2>6. CASE f # attempt + 1
    BY <1>1, <1>2, <1>5, <1>6, <1>9, <2>1, <2>4, <2>6
  <2>7. CASE /\ f = attempt + 1
             /\ attempt >= k /\ started - dials[j] >= Quickest(k)
    <3> HIDE DEF k
    <3>1. Quickest(k) \in Nat /\ Quickest(k + 1) = Quickest(k) + Shortest(policy, k + 1)
      BY <1>1, <2>3, QuickestNext
    <3>2. k + 1 \in Nat \ {0} /\ k + 1 <= f
      BY <1>5, <2>3, <2>7
    <3>3. Shortest(policy, k + 1) \in Nat /\ Shortest(policy, k + 1) <= Shortest(policy, f)
      BY <1>1, <3>2, ShortestGrows
    <3>4. Shortest(policy, k + 1) <= d
      BY <1>6, <3>3
    <3>5. started - dials[j] + d >= Quickest(k + 1)
      BY <1>5, <1>6, <2>1, <2>7, <3>1, <3>3, <3>4
    <3>6. wakeAt' - dials[j] >= Quickest(k + 1)
      <4>1. Quickest(k + 1) \in Nat
        BY <3>1, <3>3
      <4>2. QED
        BY <1>2, <1>5, <1>6, <1>8, <2>1, <3>5, <4>1
    <3>7. QED
      BY <2>3, <3>2, <3>6
  <2>8. QED
    BY <2>2, <2>5, <2>6, <2>7 DEF Paced
<1>11. f <= conn
  BY <1>1, <1>4, <1>5, <1>8
<1>12. PaceInv'
  BY <1>3, <1>4, <1>7, <1>8, <1>10, <1>11 DEF PaceInv, Paced, Streaming
<1>13. NoHammering'
  BY <1>3, <1>7 DEF NoHammering
<1>14. QED
  BY <1>12, <1>13

(* The next dial comes when the back-off said. *)
LEMMA PaceWakes ==
  ASSUME TypeInv, PaceInv, NoHammering, RunWakes
  PROVE  PaceInv' /\ NoHammering'
<1>1. IsPolicy(policy)
  BY PoliciesAre DEF TypeInv
<1>2. /\ at = "sleep" /\ at' = "dial" /\ now' = wakeAt /\ started' = wakeAt
      /\ dials' = Append(dials, wakeAt) /\ UNCHANGED <<policy, attempt>>
  BY DEF RunWakes, setup
<1>3. dials \in Seq(Nat) /\ wakeAt \in Nat /\ attempt \in Nat
  BY DEF TypeInv
<1>4. conn \in Nat \ {0} /\ DOMAIN dials = 1 .. conn
  BY <1>3, ReconnectAssumption DEF TypeInv, conn, Calls
<1>5. /\ conn' = conn + 1
      /\ \A j \in 1 .. conn : dials'[j] = dials[j]
      /\ dials'[conn + 1] = wakeAt
      /\ dials' \in Seq(Nat)
  BY <1>2, <1>3, AppendFacts DEF conn
<1>6. DOMAIN dials' = 1 .. (conn + 1)
  BY <1>5 DEF conn
<1>7. \A k : Quickest(k)' = Quickest(k)
  BY <1>2 DEF Quickest
<1>8. attempt <= conn /\ \A j \in 1 .. conn : Paced(j, conn + 1, wakeAt)
  BY <1>2 DEF PaceInv
<1>9. ASSUME NEW j \in 1 .. conn
      PROVE  wakeAt - dials[j] >= Min({Quickest((conn + 1) - j), policy.ResetAfter})
  <2>1. dials[j] \in Int /\ wakeAt \in Int /\ (conn + 1) - j \in Nat
    BY <1>3, <1>4
  <2>2. QED
    BY <1>1, <1>8, <2>1, PacedPair, Zenon
<1>10. NoHammering'
  <2>1. SUFFICES ASSUME NEW j \in 1 .. (conn + 1), NEW k \in 1 .. (conn + 1), j < k
                 PROVE  dials'[k] - dials'[j] >= Min({Quickest(k - j), policy.ResetAfter})
    BY <1>2, <1>6, <1>7 DEF NoHammering
  <2>2. j \in 1 .. conn /\ (k \in 1 .. conn \/ k = conn + 1)
    BY <1>4, <2>1
  <2>3. CASE k \in 1 .. conn
    BY <1>4, <1>5, <2>1, <2>2, <2>3 DEF NoHammering
  <2>4. CASE k = conn + 1
    <3>1. dials'[k] = wakeAt /\ dials'[j] = dials[j]
      BY <1>5, <2>2, <2>4
    <3>2. wakeAt - dials[j] >= Min({Quickest(k - j), policy.ResetAfter})
      BY <1>9, <2>2, <2>4, Zenon
    <3>3. QED
      BY <3>1, <3>2, Zenon
  <2>5. QED
    BY <2>2, <2>3, <2>4
<1>11. ASSUME NEW j \in 1 .. (conn + 1)
       PROVE  \/ wakeAt - dials'[j] >= policy.ResetAfter
              \/ attempt >= (conn + 1) - j /\ wakeAt - dials'[j] >= Quickest((conn + 1) - j)
  <2>1. CASE j \in 1 .. conn
    <3>1. Paced(j, conn + 1, wakeAt) /\ dials'[j] = dials[j]
      BY <1>5, <1>8, <2>1, Zenon
    <3>2. QED
      BY <3>1, Zenon DEF Paced
  <2>2. CASE j = conn + 1
    <3>1. Quickest(0) = 0
      BY <1>1, QuickestNext
    <3>2. (conn + 1) - j = 0 /\ wakeAt - dials'[j] = 0
      BY <1>3, <1>4, <1>5, <2>2
    <3>3. QED
      BY <1>3, <3>1, <3>2
  <2>3. QED
    BY <1>4, <2>1, <2>2
<1>12. wakeAt >= wakeAt /\ attempt < conn + 1
  BY <1>3, <1>4, <1>8
<1>13. \A j \in 1 .. conn' : Paced(j, conn, dials[conn])'
  BY <1>2, <1>5, <1>7, <1>11, Zenon DEF Paced
<1>14. PaceInv'
  BY <1>2, <1>5, <1>12, <1>13 DEF PaceInv
<1>15. QED
  BY <1>10, <1>14

LEMMA PaceKept ==
  TypeInv /\ PaceInv /\ NoHammering /\ [Next]_vars => PaceInv' /\ NoHammering'
<1>1. SUFFICES ASSUME TypeInv, PaceInv, NoHammering, [Next]_vars PROVE PaceInv' /\ NoHammering'
  OBVIOUS
<1> USE DEF Streaming
<1>2. CASE StreamStep
  <2>1. ASSUME NEW e, StreamReturns(e), at \in {"dial", "read", "send"}
        PROVE  PaceInv' /\ NoHammering'
    BY <1>1, <2>1, PaceUnchanged DEF StreamReturns, setup, supVars
  <2>2. CASE DialFails \/ ReadFails \/ SendCancelled
    BY <2>1, <2>2 DEF DialFails, ReadFails, SendCancelled
  <2>3. CASE Dialed \/ ReadFrame \/ SendRaw
    BY <1>1, <2>3, PaceUnchanged DEF Dialed, ReadFrame, SendRaw, setup, supVars
  <2>4. QED
    BY <1>2, <2>2, <2>3 DEF StreamStep
<1>3. CASE RunReturns \/ SleepCancelled
  BY <1>1, <1>3, PaceUnchanged DEF RunReturns, SleepCancelled, setup, supVars
<1>4. CASE RunGivesUp
  BY <1>1, <1>4, PaceUnchanged DEF RunGivesUp, setup
<1>5. CASE PumpTakes \/ PeerFails \/ Cancel \/ Tick
  BY <1>1, <1>5, PaceUnchanged DEF PumpTakes, PeerFails, Cancel, Tick, setup, supVars
<1>6. ASSUME NEW n \in Calls, PingStep(n) PROVE PaceInv' /\ NoHammering'
  BY <1>1, <1>6, PaceUnchanged
  DEF PingStep, PingSent, Pong, PingFails, PingCloses, PingerStops, setup, supVars
<1>7. CASE UNCHANGED vars
  BY <1>1, <1>7, PaceUnchanged DEF vars, setup, supVars
<1>8. QED
  BY <1>1, <1>2, <1>3, <1>4, <1>5, <1>6, <1>7, PaceBacksOff, PaceWakes DEF Next, RunStep

(* supervise.Run against backoff, whatever the policy and however short    *)
(* and healthy connections alternate: k retries take at least the k        *)
(* shortest delays of a growing back-off, or as long as ResetAfter.        *)
THEOREM NoHammeringHolds == Spec => []NoHammering
<1>1. Init => TypeInv /\ PaceInv /\ NoHammering
  BY TypeInit, PaceInit
<1>2. TypeInv /\ PaceInv /\ NoHammering /\ [Next]_vars => TypeInv' /\ PaceInv' /\ NoHammering'
  BY TypeKept, PaceKept
<1>3. QED
  BY <1>1, <1>2, PTL DEF Spec

-----------------------------------------------------------------------------
(* The end of the run. *)

EndInv ==
  /\ err = "canceled" => cancelled
  /\ IngestSurvives

LEMMA EndKept ==
  TypeInv /\ PaceInv /\ EndInv /\ [Next]_vars => EndInv'
<1>1. SUFFICES ASSUME TypeInv, PaceInv, EndInv, [Next]_vars PROVE EndInv'
  OBVIOUS
<1> USE DEF EndInv, IngestSurvives
<1>2. ASSUME NEW e, StreamReturns(e), e = "canceled" => cancelled PROVE EndInv'
  BY <1>1, <1>2 DEF StreamReturns
<1>3. CASE DialFails \/ SendCancelled
  BY <1>2, <1>3 DEF DialFails, SendCancelled
<1>4. CASE ReadFails
  <2>1. ReadError = "canceled" => cancelled
    BY DEF ReadError
  <2>2. QED
    BY <1>2, <1>4, <2>1 DEF ReadFails
<1>5. CASE Dialed \/ ReadFrame \/ SendRaw
  BY <1>1, <1>5 DEF Dialed, ReadFrame, SendRaw
<1>6. CASE RunReturns \/ SleepCancelled
  BY <1>1, <1>6 DEF RunReturns, SleepCancelled
<1>7. CASE RunGivesUp
  <2>1. /\ Failures(policy) \in {1, attempt + 1}
        /\ policy.MaxAttempts \in Nat
        /\ attempt \in Nat /\ Len(dials) \in Nat \ {0}
    BY <1>1, FailuresNat DEF TypeInv, IsPolicy, conn, Calls
  <2>2. attempt < Len(dials)
    BY <1>1, <1>7 DEF RunGivesUp, PaceInv, Streaming, conn
  <2>3. policy.MaxAttempts > 0 /\ Failures(policy) >= policy.MaxAttempts
    BY <1>7 DEF RunGivesUp
  <2>4. Len(dials) >= policy.MaxAttempts
    BY <2>1, <2>2, <2>3
  <2>5. QED
    BY <1>1, <1>7, <2>3, <2>4 DEF RunGivesUp, setup
<1>8. CASE RunBacksOff \/ RunWakes
  BY <1>1, <1>8 DEF RunBacksOff, RunWakes
<1>9. CASE PumpTakes \/ PeerFails \/ Cancel \/ Tick
  BY <1>1, <1>9 DEF PumpTakes, PeerFails, Cancel, Tick, setup, supVars
<1>10. ASSUME NEW n \in Calls, PingStep(n) PROVE EndInv'
  BY <1>1, <1>10
  DEF PingStep, PingSent, Pong, PingFails, PingCloses, PingerStops, setup, supVars
<1>11. CASE UNCHANGED vars
  BY <1>1, <1>11 DEF vars, setup, supVars
<1>12. QED
  BY <1>1, <1>3, <1>4, <1>5, <1>6, <1>7, <1>8, <1>9, <1>10, <1>11 DEF Next, StreamStep, RunStep

(* supervise.Run around Stream, whatever the errors and when they come:    *)
(* ingest ends only when the run is cancelled, or after MaxAttempts calls  *)
(* of Stream; no error of a connection passes for a cancellation.          *)
THEOREM IngestSurvivesHolds == Spec => []IngestSurvives
<1>1. Init => TypeInv /\ PaceInv /\ NoHammering /\ EndInv
  <2>1. Init => EndInv
    BY DEF Init, EndInv, IngestSurvives
  <2>2. QED
    BY <2>1, TypeInit, PaceInit
<1>2. TypeInv /\ PaceInv /\ NoHammering /\ EndInv /\ [Next]_vars
        => TypeInv' /\ PaceInv' /\ NoHammering' /\ EndInv'
  BY TypeKept, PaceKept, EndKept
<1>3. EndInv => IngestSurvives
  BY DEF EndInv
<1>4. QED
  BY <1>1, <1>2, <1>3, PTL DEF Spec

-----------------------------------------------------------------------------
(* The ping's diagnosis. *)

(* A ping goroutine that was told of no pong has said so, and says nothing *)
(* else; one of a call that has not dialled yet has not begun; and the     *)
(* socket of a call that has returned is closed.                           *)
PingInv ==
  /\ \A n \in Calls :
       /\ pingErr[n] = "nopong" => pinger[n] \in {"told", "off"}
       /\ pinger[n] = "told" => pingErr[n] = "nopong"
       /\ n > conn => pingErr[n] = "empty" /\ pinger[n] = "off"
       /\ n \in torn => pingErr[n] = "nopong"
  /\ at = "dial" => pingErr[conn] = "empty" /\ pinger[conn] = "off"
  /\ at = "judge" => socket[conn] = "closed"

LEMMA PingKept ==
  TypeInv /\ PingInv /\ DiagnosisWins /\ [Next]_vars => PingInv' /\ DiagnosisWins'
<1>1. SUFFICES ASSUME TypeInv, PingInv, DiagnosisWins, [Next]_vars PROVE PingInv' /\ DiagnosisWins'
  OBVIOUS
<1>2. /\ conn \in Calls /\ Calls \subseteq Nat
      /\ socket \in [Calls -> Sockets] /\ pinger \in [Calls -> Pingers]
      /\ pingErr \in [Calls -> {"empty", "nopong", "nil"}]
  BY <1>1, ReconnectAssumption DEF TypeInv, Calls
<1> USE DEF PingInv, DiagnosisWins
<1>3. ASSUME NEW e, StreamReturns(e), conn \in torn => e # "read"
      PROVE  PingInv' /\ DiagnosisWins'
  <2>1. conn' = conn /\ at' = "judge" /\ err' = e /\ UNCHANGED pingVars
    BY <1>3 DEF StreamReturns, supVars, conn
  <2>2. socket'[conn] = "closed"
    BY <1>2, <1>3 DEF StreamReturns
  <2>3. QED
    BY <1>1, <1>3, <2>1, <2>2 DEF pingVars
<1>4. CASE DialFails \/ SendCancelled
  BY <1>3, <1>4 DEF DialFails, SendCancelled
<1>5. CASE ReadFails
  <2>1. conn \in torn => ReadError # "read"
    BY <1>1, <1>2 DEF ReadError
  <2>2. QED
    BY <1>3, <1>5, <2>1 DEF ReadFails
<1>6. CASE Dialed
  <2>1. /\ conn' = conn /\ at = "dial" /\ at' = "read"
        /\ pinger' = [pinger EXCEPT ![conn] = "idle"] /\ UNCHANGED <<pingErr, torn>>
    BY <1>6 DEF Dialed, supVars, conn
  <2>2. QED
    BY <1>1, <1>2, <2>1
<1>7. ASSUME UNCHANGED <<dials, pingVars>>, at' \notin {"dial", "judge"}
      PROVE  PingInv' /\ DiagnosisWins'
  <2>1. conn' = conn
    BY <1>7 DEF conn
  <2>2. QED
    BY <1>1, <1>7, <2>1 DEF pingVars
<1>8. CASE ReadFrame \/ SendRaw \/ RunReturns \/ RunGivesUp \/ SleepCancelled
  BY <1>7, <1>8 DEF ReadFrame, SendRaw, RunReturns, RunGivesUp, SleepCancelled, supVars
<1>9. CASE RunBacksOff
  <2>1. conn' = conn /\ at' = "sleep" /\ torn' = {} /\ UNCHANGED <<pinger, pingErr>>
    BY <1>9 DEF RunBacksOff, conn
  <2>2. QED
    BY <1>1, <2>1
<1>10. CASE RunWakes
  <2>1. dials \in Seq(Nat) /\ wakeAt \in Nat /\ dials' = Append(dials, wakeAt)
    BY <1>1, <1>10 DEF RunWakes, TypeInv
  <2>2. conn' = conn + 1 /\ at' = "dial" /\ UNCHANGED pingVars
    BY <1>10, <2>1, AppendFacts DEF RunWakes, conn
  <2>3. conn' \in Calls /\ conn' > conn
    BY <1>1, <1>2, <2>2, TypeKept DEF TypeInv
  <2>4. \A n \in Calls : n > conn' => n > conn
    BY <1>2, <2>2
  <2>5. pingErr[conn'] = "empty" /\ pinger[conn'] = "off"
    BY <1>1, <2>3
  <2>6. QED
    BY <1>1, <2>2, <2>4, <2>5 DEF pingVars
<1>11. ASSUME UNCHANGED <<dials, at, err, socket, pingVars>> PROVE PingInv' /\ DiagnosisWins'
  BY <1>1, <1>11 DEF conn, pingVars
<1>12. CASE PumpTakes \/ Cancel \/ Tick \/ UNCHANGED vars
  BY <1>11, <1>12 DEF PumpTakes, Cancel, Tick, vars, supVars
<1>13. CASE PeerFails
  BY <1>7, <1>13 DEF PeerFails, supVars
<1>14. ASSUME NEW n \in Calls, PingStep(n) PROVE PingInv' /\ DiagnosisWins'
  <2>1. conn' = conn /\ UNCHANGED <<at, err>>
    BY <1>14 DEF PingStep, PingSent, Pong, PingFails, PingCloses, PingerStops, supVars, conn
  <2>2. CASE PingSent(n) \/ Pong(n)
    BY <1>1, <1>2, <2>1, <2>2 DEF PingSent, Pong
  <2>3. CASE PingFails(n)
    BY <1>1, <1>2, <2>1, <2>3 DEF PingFails
  <2>4. CASE PingCloses(n)
    BY <1>1, <1>2, <2>1, <2>4 DEF PingCloses
  <2>5. CASE PingerStops(n)
    BY <1>1, <1>2, <2>1, <2>5 DEF PingerStops
  <2>6. QED
    BY <1>14, <2>2, <2>3, <2>4, <2>5 DEF PingStep
<1>15. QED
  BY <1>1, <1>4, <1>5, <1>6, <1>8, <1>9, <1>10, <1>12, <1>13, <1>14 DEF Next, StreamStep, RunStep

(* Stream and its ping goroutine, in every interleaving and with the       *)
(* goroutines of earlier connections still about: once the ping has closed *)
(* the connection under the read, Stream returns the ping's error.         *)
THEOREM DiagnosisWinsHolds == Spec => []DiagnosisWins
<1>1. Init => TypeInv /\ PingInv /\ DiagnosisWins
  <2>1. SUFFICES ASSUME Init PROVE PingInv /\ DiagnosisWins
    BY TypeInit
  <2>2. conn \in Calls
    BY <2>1, TypeInit DEF TypeInv
  <2>3. QED
    BY <2>1, <2>2 DEF Init, PingInv, DiagnosisWins
<1>2. TypeInv /\ PingInv /\ DiagnosisWins /\ [Next]_vars => TypeInv' /\ PingInv' /\ DiagnosisWins'
  BY TypeKept, PingKept
<1>3. QED
  BY <1>1, <1>2, PTL DEF Spec

-----------------------------------------------------------------------------
(* Archive. *)

ArchiveTypes ==
  /\ rawBatch \in Seq(Frames) /\ queue \in Seq(Trades)
  /\ batch \in Seq(Trades) /\ todo \in Seq(Trades)
  /\ ticks \subseteq Trades /\ inserted \subseteq Trades /\ taken \subseteq Trades
  /\ received \in Nat /\ stored \in Nat /\ duplicate \in Nat /\ errors \in Nat
  /\ affected \in Nat /\ rowsAtStart \in Nat
  /\ persister \in PersisterStates /\ after \in {"select", "off"}

(* How far the open transaction has come: the rows it has inserted are     *)
(* those it counts, they are not in the table yet, and each tick of the    *)
(* batch is in the table, in the transaction or still to be inserted.      *)
WriteInv ==
  /\ persister = "select" => Len(batch) < BatchSize
  /\ persister = "off" => batch = << >>
  /\ persister \in {"insert", "count"} =>
       Len(batch) > 0 /\ Len(batch) <= BatchSize /\ affected <= Len(batch)
  /\ persister = "insert" =>
       /\ inserted \cap ticks = {}
       /\ affected = Cardinality(inserted)
       /\ affected + Len(todo) <= Len(batch)
       /\ ToSet(batch) \subseteq ticks \cup inserted \cup ToSet(todo)
  /\ persister = "count" => ToSet(batch) \subseteq ticks

(* The persister's books, and the pump's. *)
Books == WriteInv /\ StatsTellTheTable /\ LossIsCounted /\ (~faulted => TicksKept)
RawBooks == ~faulted => RawFramesKept

KeptInv == ArchiveTypes /\ Books /\ RawBooks

LEMMA TickIsFrame == Trades \subseteq Frames /\ NoTick \in Frames
                     /\ \A f \in Frames : f # NoTick => f \in Trades
  BY DEF Frames

LEMMA ToSetEmpty == ToSet(<< >>) = {}
  BY DEF ToSet

LEMMA ToSetFacts ==
  ASSUME NEW S, NEW s \in Seq(S)
  PROVE  /\ ToSet(s) \subseteq S
         /\ \A x \in S : ToSet(Append(s, x)) = ToSet(s) \cup {x}
<1>1. ToSet(s) \subseteq S
  BY DEF ToSet
<1>2. ASSUME NEW x \in S PROVE ToSet(Append(s, x)) = ToSet(s) \cup {x}
  <2>1. /\ DOMAIN s = 1 .. Len(s) /\ DOMAIN Append(s, x) = 1 .. (Len(s) + 1)
        /\ Len(s) \in Nat
        /\ \A k \in 1 .. Len(s) : Append(s, x)[k] = s[k]
        /\ Append(s, x)[Len(s) + 1] = x
    BY AppendFacts
  <2>2. ASSUME NEW k \in 1 .. (Len(s) + 1) PROVE k \in 1 .. Len(s) \/ k = Len(s) + 1
    BY <2>1
  <2>3. \A k \in 1 .. Len(s) : k \in 1 .. (Len(s) + 1)
    BY <2>1
  <2>4. Len(s) + 1 \in 1 .. (Len(s) + 1)
    BY <2>1
  <2>5. QED
    BY <2>1, <2>2, <2>3, <2>4 DEF ToSet
<1>3. QED
  BY <1>1, <1>2

(* A sequence is its head and its tail. *)
LEMMA ToSetTail ==
  ASSUME NEW S, NEW s \in Seq(S), s # << >>
  PROVE  ToSet(s) = {Head(s)} \cup ToSet(Tail(s))
<1>1. /\ Len(s) \in Nat \ {0} /\ Len(Tail(s)) = Len(s) - 1 /\ Head(s) = s[1]
      /\ \A k \in 1 .. Len(Tail(s)) : Tail(s)[k] = s[k + 1]
      /\ DOMAIN s = 1 .. Len(s) /\ DOMAIN Tail(s) = 1 .. Len(Tail(s))
  BY TailFacts
<1>2. \A k \in 1 .. Len(s) : k = 1 \/ (k - 1 \in 1 .. Len(Tail(s)) /\ (k - 1) + 1 = k)
  BY <1>1
<1>3. 1 \in 1 .. Len(s) /\ \A k \in 1 .. Len(Tail(s)) : k + 1 \in 1 .. Len(s)
  BY <1>1
<1>4. ToSet(s) \subseteq {Head(s)} \cup ToSet(Tail(s))
  <2>1. SUFFICES ASSUME NEW k \in 1 .. Len(s) PROVE s[k] \in {Head(s)} \cup ToSet(Tail(s))
    BY <1>1 DEF ToSet
  <2>2. CASE k = 1
    BY <1>1, <2>2
  <2>3. CASE k # 1
    <3>1. k - 1 \in 1 .. Len(Tail(s)) /\ (k - 1) + 1 = k
      BY <1>2, <2>3
    <3>2. Tail(s)[k - 1] = s[k]
      BY <1>1, <3>1
    <3>3. QED
      BY <1>1, <3>1, <3>2 DEF ToSet
  <2>4. QED
    BY <2>2, <2>3
<1>5. {Head(s)} \cup ToSet(Tail(s)) \subseteq ToSet(s)
  BY <1>1, <1>3 DEF ToSet
<1>6. QED
  BY <1>4, <1>5

LEMMA Indices ==
  ASSUME NEW n \in Nat
  PROVE  IsFiniteSet(1 .. n) /\ Cardinality(1 .. n) = n
<1>1. n \in Int /\ (1 > n => n = 0) /\ n - 1 + 1 = n
  OBVIOUS
<1>2. IsFiniteSet(1 .. n) /\ Cardinality(1 .. n) = IF 1 > n THEN 0 ELSE n - 1 + 1
  BY <1>1, FS_Interval
<1>3. QED
  BY <1>1, <1>2

(* It has no more elements than places. *)
LEMMA ToSetSize ==
  ASSUME NEW S, NEW s \in Seq(S)
  PROVE  IsFiniteSet(ToSet(s)) /\ Cardinality(ToSet(s)) <= Len(s)
<1>1. Len(s) \in Nat /\ s \in [1 .. Len(s) -> S] /\ DOMAIN s = 1 .. Len(s)
  OBVIOUS
<1>2. IsFiniteSet(1 .. Len(s)) /\ Cardinality(1 .. Len(s)) = Len(s)
  BY <1>1, Indices
<1>3. s \in Surjection(1 .. Len(s), ToSet(s))
  BY <1>1 DEF Surjection, ToSet
<1>4. QED
  BY <1>2, <1>3, FS_Surjection

LEMMA TradesFinite ==
  ASSUME NEW T, T \subseteq Trades
  PROVE  IsFiniteSet(T) /\ Cardinality(T) \in Nat
<1>1. IsFiniteSet(Trades)
  BY ArchiveAssumption, FS_Interval DEF Trades
<1>2. QED
  BY <1>1, FS_Subset, FS_CardinalityType

LEMMA SmallerSet ==
  ASSUME NEW T, T \subseteq Trades, NEW U, U \subseteq T
  PROVE  /\ Cardinality(U) <= Cardinality(T)
         /\ Cardinality(U) \in Nat /\ Cardinality(T) \in Nat
  BY TradesFinite, FS_Subset

(* At most BatchSize more for every error. *)
LEMMA OneMoreBatch ==
  ASSUME NEW e \in Nat
  PROVE  e * BatchSize \in Nat /\ (e + 1) * BatchSize = e * BatchSize + BatchSize
<1>1. BatchSize \in Nat
  BY ArchiveAssumption
<1>2. QED
  BY <1>1

(* flush begins a write, or finds nothing to do. *)
LEMMA FlushFacts ==
  ASSUME NEW b \in Seq(Trades), NEW then \in {"select", "off"}, flush(b, then), ArchiveTypes
  PROVE  /\ batch' = b /\ batch' \in Seq(Trades) /\ todo' = b
         /\ inserted' = {} /\ affected' = 0
         /\ after' = then /\ errors' = errors
         /\ b = << >> => persister' = then
         /\ b # << >> => persister' = "insert"
  BY DEF flush

LEMMA FlushRawFacts ==
  ASSUME NEW frames \in Seq(Frames), flushRaw(frames)
  PROVE  /\ rawBatch' = << >> /\ rawBatch' \in Seq(Frames)
         /\ ~faulted' => ~faulted /\ raws' = raws \cup ToSet(frames)
  BY DEF flushRaw

LEMMA KeptInit == ArchiveInit => KeptInv
<1> SUFFICES ASSUME ArchiveInit PROVE KeptInv
  OBVIOUS
<1>1. ArchiveTypes
  BY DEF ArchiveInit, ArchiveTypes, PersisterStates
<1>2. WriteInv
  BY ArchiveAssumption DEF ArchiveInit, WriteInv
<1>3. StatsTellTheTable
  <2>1. Cardinality({}) = 0 /\ 0 \in 0 .. (0 * BatchSize)
    BY FS_EmptySet, OneMoreBatch
  <2>2. QED
    BY <2>1 DEF ArchiveInit, StatsTellTheTable
<1>4. LossIsCounted
  <2>1. taken \ (ticks \cup ToSet(batch)) = {} /\ errors = 0
    BY DEF ArchiveInit
  <2>2. 0 <= 0 * BatchSize
    BY OneMoreBatch
  <2>3. QED
    BY <2>1, <2>2, FS_EmptySet DEF LossIsCounted
<1>5. TicksKept /\ RawFramesKept
  BY ToSetEmpty DEF ArchiveInit, TicksKept, RawFramesKept
<1>6. QED
  BY <1>1, <1>2, <1>3, <1>4, <1>5 DEF KeptInv, Books, RawBooks

(* The books concern the persister's variables alone. *)
LEMMA BooksStay ==
  ASSUME Books, UNCHANGED persistVars, ~faulted' => ~faulted
  PROVE  Books'
<1>1. WriteInv'
  BY DEF Books, WriteInv, persistVars, txVars
<1>2. StatsTellTheTable'
  BY DEF Books, StatsTellTheTable, persistVars, txVars, statVars
<1>3. LossIsCounted'
  BY DEF Books, LossIsCounted, persistVars, statVars
<1>4. ~faulted' => TicksKept'
  BY DEF Books, TicksKept, persistVars
<1>5. QED
  BY <1>1, <1>2, <1>3, <1>4 DEF Books

(* And the other way round. *)
LEMMA RawBooksStay ==
  ASSUME RawBooks, UNCHANGED pumpVars, ~faulted' => ~faulted
  PROVE  RawBooks'
  BY DEF RawBooks, RawFramesKept, pumpVars

(* A step that leaves the table, the counters of writes and the frames     *)
(* alone, and counts each tick it takes into the batch.                    *)
LEMMA TakeKeeps ==
  ASSUME KeptInv, persister = "select", NEW b \in Seq(Trades), batch' = b,
         persister' \in {"select", "insert", "off"}, WriteInv',
         UNCHANGED <<ticks, stored, duplicate, errors, rowsAtStart, faulted>>,
         received' = received + (Len(b) - Len(batch)),
         ToSet(batch) \subseteq ToSet(b),
         taken \subseteq taken', taken' \subseteq taken \cup ToSet(b), taken' \subseteq Trades
  PROVE  Books'
<1>1. ArchiveTypes /\ Books /\ Len(b) \in Nat /\ Len(batch) \in Nat
  BY DEF KeptInv, ArchiveTypes
<1>2. StatsTellTheTable'
  <2>1. Cardinality(ticks) = rowsAtStart + stored
    BY <1>1 DEF Books, StatsTellTheTable, ArchiveTypes
  <2>2. PICK lost \in errors .. (errors * BatchSize) :
          received = stored + duplicate + Len(batch) + lost
    BY <1>1 DEF Books, StatsTellTheTable
  <2>3. received' = stored + duplicate + Len(b) + lost
    BY <1>1, <2>2, OneMoreBatch DEF ArchiveTypes
  <2>4. rowsAtStart + stored + 0 = rowsAtStart + stored
    BY <1>1 DEF ArchiveTypes
  <2>5. QED
    BY <2>1, <2>2, <2>3, <2>4 DEF StatsTellTheTable
<1>3. LossIsCounted'
  <2> DEFINE Gone == taken \ (ticks \cup ToSet(batch))
             GoneNow == taken' \ (ticks \cup ToSet(b))
  <2>1. GoneNow \subseteq Gone /\ Gone \subseteq Trades
    BY <1>1 DEF ArchiveTypes
  <2>2. Cardinality(GoneNow) <= Cardinality(Gone) /\ Cardinality(GoneNow) \in Nat
        /\ Cardinality(Gone) \in Nat
    BY <2>1, SmallerSet
  <2>3. Cardinality(Gone) <= errors * BatchSize /\ errors * BatchSize \in Nat
    BY <1>1, OneMoreBatch DEF Books, LossIsCounted, ArchiveTypes
  <2> HIDE DEF Gone
  <2>4. Cardinality(GoneNow) <= errors * BatchSize
    <3> HIDE DEF GoneNow
    <3>1. QED
      BY <2>2, <2>3
  <2>5. QED
    BY <2>4 DEF LossIsCounted
<1>4. ~faulted' => TicksKept'
  <2>1. ~faulted => taken' \subseteq ticks \cup ToSet(b)
    BY <1>1 DEF Books, TicksKept
  <2>2. persister' = "off" => ToSet(b) = {}
    BY ToSetEmpty DEF WriteInv
  <2>3. QED
    BY <2>1, <2>2 DEF TicksKept
<1>5. QED
  BY <1>2, <1>3, <1>4 DEF Books

(* flush leaves the write at its beginning, or the persister idle. *)
LEMMA FlushBegins ==
  ASSUME ArchiveTypes, NEW b \in Seq(Trades), Len(b) <= BatchSize,
         NEW then \in {"select", "off"}, flush(b, then), UNCHANGED ticks
  PROVE  WriteInv' /\ persister' \in {"select", "insert", "off"}
<1>1. /\ batch' = b /\ todo' = b /\ inserted' = {} /\ affected' = 0
      /\ b = << >> => persister' = then
      /\ b # << >> => persister' = "insert"
  BY FlushFacts
<1>2. CASE b = << >>
  BY <1>1, <1>2, ArchiveAssumption DEF WriteInv
<1>3. CASE b # << >>
  <2>1. Len(b) \in Nat \ {0}
    BY <1>3, TailFacts
  <2>2. Cardinality({}) = 0
    BY FS_EmptySet
  <2>3. QED
    BY <1>1, <1>3, <2>1, <2>2 DEF WriteInv
<1>4. QED
  BY <1>2, <1>3

LEMMA TickKept == KeptInv /\ PersistTick => KeptInv'
<1> SUFFICES ASSUME KeptInv, PersistTick PROVE KeptInv'
  OBVIOUS
<1> DEFINE t == Head(queue)
           b == Append(batch, t)
<1>1. ArchiveTypes /\ WriteInv
  BY DEF KeptInv, Books
<1>2. /\ t \in Trades /\ queue' \in Seq(Trades) /\ b \in Seq(Trades)
      /\ ToSet(b) = ToSet(batch) \cup {t} /\ Len(b) = Len(batch) + 1 /\ Len(batch) \in Nat
  BY <1>1, TailFacts, AppendFacts, ToSetFacts DEF PersistTick, ArchiveTypes
<1>3. /\ persister = "select" /\ received' = received + 1 /\ taken' = taken \cup {t}
      /\ UNCHANGED <<pumpVars, ticks, stored, duplicate, rowsAtStart, faulted>>
      /\ IF Len(b) >= BatchSize THEN flush(b, "select")
         ELSE batch' = b /\ UNCHANGED <<persister, txVars, errors>>
  BY DEF PersistTick
<1> HIDE DEF t, b
<1>4. /\ WriteInv' /\ persister' \in {"select", "insert"} /\ batch' = b /\ errors' = errors
      /\ todo' \in Seq(Trades) /\ inserted' \subseteq Trades /\ affected' \in Nat
      /\ after' \in {"select", "off"}
  <2>1. CASE flush(b, "select")
    <3>1. Len(b) <= BatchSize
      BY <1>1, <1>2, <1>3, ArchiveAssumption DEF WriteInv
    <3>2. WriteInv'
      BY <1>1, <1>2, <1>3, <2>1, <3>1, FlushBegins
    <3>3. QED
      BY <1>1, <1>2, <2>1, <3>2, FlushFacts
  <2>2. CASE Len(b) < BatchSize /\ batch' = b /\ UNCHANGED <<persister, txVars, errors>>
    BY <1>1, <1>3, <2>2 DEF WriteInv, ArchiveTypes, txVars
  <2>3. QED
    BY <1>2, <1>3, <2>1, <2>2, ArchiveAssumption
<1>5. taken' \subseteq Trades /\ taken' \subseteq taken \cup ToSet(b)
  BY <1>1, <1>2, <1>3 DEF ArchiveTypes
<1>6. received' = received + (Len(b) - Len(batch)) /\ received' \in Nat
  BY <1>1, <1>2, <1>3 DEF ArchiveTypes
<1>7. Books'
  BY <1>2, <1>3, <1>4, <1>5, <1>6, TakeKeeps
<1>8. RawBooks'
  BY <1>3, RawBooksStay DEF KeptInv
<1>9. ArchiveTypes'
  BY <1>1, <1>2, <1>3, <1>4, <1>5, <1>6 DEF ArchiveTypes, pumpVars, PersisterStates
<1>10. QED
  BY <1>7, <1>8, <1>9 DEF KeptInv

(* The ticker's flush, and the one before the persister returns. *)
LEMMA IntervalKept ==
  ASSUME KeptInv, persister = "select", NEW then \in {"select", "off"}, flush(batch, then),
         UNCHANGED <<queue, pumpVars, ticks, received, stored, duplicate, taken,
                     rowsAtStart, faulted>>
  PROVE  KeptInv'
<1>1. ArchiveTypes /\ WriteInv /\ batch \in Seq(Trades) /\ Len(batch) \in Nat
  BY DEF KeptInv, Books, ArchiveTypes
<1>2. Len(batch) <= BatchSize
  BY <1>1, ArchiveAssumption DEF WriteInv
<1>3. WriteInv' /\ persister' \in {"select", "insert", "off"}
  BY <1>1, <1>2, FlushBegins
<1>4. /\ batch' = batch /\ errors' = errors /\ todo' = batch /\ inserted' = {}
      /\ affected' = 0 /\ after' = then
  BY <1>1, FlushFacts
<1>5. received' = received + (Len(batch) - Len(batch))
  BY <1>1 DEF ArchiveTypes
<1>6. taken' \subseteq Trades
  BY <1>1 DEF ArchiveTypes
<1>7. Books'
  BY <1>1, <1>3, <1>4, <1>5, <1>6, TakeKeeps
<1>8. RawBooks'
  BY RawBooksStay DEF KeptInv
<1>9. ArchiveTypes'
  BY <1>1, <1>3, <1>4 DEF ArchiveTypes, pumpVars, PersisterStates
<1>10. QED
  BY <1>7, <1>8, <1>9 DEF KeptInv

(* A row: new to the table and to the transaction, or not counted. *)
LEMMA RowKept == KeptInv /\ InsertRow => KeptInv'
<1> SUFFICES ASSUME KeptInv, InsertRow PROVE KeptInv'
  OBVIOUS
<1> DEFINE h == Head(todo)
           new == {h} \ (ticks \cup inserted)
<1>1. ArchiveTypes /\ Books /\ RawBooks /\ WriteInv
  BY DEF KeptInv, Books
<1>2. /\ persister = "insert" /\ persister' = "insert" /\ todo # << >>
      /\ todo' = Tail(todo) /\ inserted' = inserted \cup new
      /\ affected' = affected + Cardinality(new)
      /\ UNCHANGED <<queue, pumpVars, batch, after, ticks, statVars, taken, rowsAtStart, faulted>>
  BY DEF InsertRow
<1>3. /\ h \in Trades /\ todo' \in Seq(Trades) /\ Len(todo) \in Nat
      /\ Len(todo') = Len(todo) - 1 /\ Len(todo') \in Nat
      /\ ToSet(todo) = {h} \cup ToSet(todo')
  BY <1>1, <1>2, TailFacts, ToSetTail DEF ArchiveTypes
<1>4. IsFiniteSet(inserted)
  BY <1>1, TradesFinite DEF ArchiveTypes
<1>5. /\ inserted' \subseteq Trades /\ affected' \in Nat /\ affected' <= affected + 1
      /\ affected' = Cardinality(inserted')
      /\ inserted' \cap ticks = {}
  <2>1. CASE h \in ticks \cup inserted
    <3>1. new = {} /\ Cardinality(new) = 0
      BY <2>1, FS_EmptySet
    <3>2. affected' = affected /\ inserted' = inserted /\ affected \in Nat
      <4> HIDE DEF new
      <4>1. QED
        BY <1>1, <1>2, <3>1 DEF ArchiveTypes
    <3>3. inserted \cap ticks = {} /\ affected = Cardinality(inserted) /\ inserted \subseteq Trades
      BY <1>1, <1>2 DEF WriteInv, ArchiveTypes
    <3>4. QED
      BY <3>2, <3>3
  <2>2. CASE h \notin ticks \cup inserted
    <3>1. new = {h} /\ Cardinality({h}) = 1
      BY <2>2, FS_Singleton
    <3>2. Cardinality(inserted \cup {h}) = Cardinality(inserted) + 1
      BY <1>4, <2>2, FS_AddElement
    <3>3. affected' = affected + 1 /\ inserted' = inserted \cup {h} /\ affected \in Nat
      BY <1>1, <1>2, <3>1 DEF ArchiveTypes
    <3>4. inserted \cap ticks = {} /\ affected = Cardinality(inserted)
      BY <1>1, <1>2 DEF WriteInv
    <3>5. inserted' \subseteq Trades /\ inserted' \cap ticks = {}
      BY <1>1, <1>3, <2>2, <3>3, <3>4 DEF ArchiveTypes
    <3>6. QED
      BY <3>2, <3>3, <3>4, <3>5
  <2>3. QED
    BY <2>1, <2>2
<1>6. inserted \cup {h} \subseteq ticks \cup inserted'
  BY <1>2
<1> HIDE DEF h, new
<1>7. WriteInv'
  <2>1. /\ Len(batch) > 0 /\ Len(batch) <= BatchSize /\ Len(batch) \in Nat
        /\ affected + Len(todo) <= Len(batch) /\ affected \in Nat
        /\ ToSet(batch) \subseteq ticks \cup inserted \cup ToSet(todo)
    BY <1>1, <1>2 DEF WriteInv, ArchiveTypes
  <2>2. affected' + Len(todo') <= Len(batch) /\ affected' <= Len(batch)
    BY <1>3, <1>5, <2>1
  <2>3. ToSet(batch) \subseteq ticks \cup inserted' \cup ToSet(todo')
    BY <1>3, <1>6, <2>1
  <2>4. QED
    BY <1>2, <1>5, <2>1, <2>2, <2>3 DEF WriteInv
<1>8. StatsTellTheTable' /\ LossIsCounted' /\ (~faulted' => TicksKept')
  BY <1>1, <1>2 DEF Books, StatsTellTheTable, LossIsCounted, TicksKept, statVars
<1>9. RawBooks'
  BY <1>1, <1>2, RawBooksStay
<1>10. ArchiveTypes'
  BY <1>1, <1>2, <1>3, <1>5 DEF ArchiveTypes, pumpVars, statVars, PersisterStates
<1>11. QED
  BY <1>7, <1>8, <1>9, <1>10 DEF KeptInv, Books

(* The commit adds as many rows as it counted. *)
LEMMA CommitKept == KeptInv /\ Commit => KeptInv'
<1> SUFFICES ASSUME KeptInv, Commit PROVE KeptInv'
  OBVIOUS
<1>1. ArchiveTypes /\ Books /\ RawBooks /\ WriteInv
  BY DEF KeptInv, Books
<1>2. /\ persister = "insert" /\ persister' = "count" /\ todo = << >>
      /\ ticks' = ticks \cup inserted /\ inserted' = {}
      /\ UNCHANGED <<queue, pumpVars, batch, after, todo, affected, statVars, taken,
                     rowsAtStart, faulted>>
  BY DEF Commit
<1>3. ticks' \subseteq Trades
  BY <1>1, <1>2 DEF ArchiveTypes
<1>4. ToSet(batch) \subseteq ticks'
  BY <1>1, <1>2, ToSetEmpty DEF WriteInv
<1>5. WriteInv'
  BY <1>1, <1>2, <1>4 DEF WriteInv
<1>6. StatsTellTheTable'
  <2>1. /\ IsFiniteSet(ticks) /\ IsFiniteSet(inserted)
        /\ Cardinality(ticks) \in Nat /\ Cardinality(inserted) \in Nat
    BY <1>1, TradesFinite DEF ArchiveTypes
  <2>2. inserted \cap ticks = {} /\ affected = Cardinality(inserted)
    BY <1>1, <1>2 DEF WriteInv
  <2>3. ticks \cap inserted = {} /\ Cardinality({}) = 0
    BY <2>2, FS_EmptySet
  <2>4. Cardinality(ticks') = Cardinality(ticks) + Cardinality(inserted)
    <3>1. Cardinality(ticks \cup inserted)
            = Cardinality(ticks) + Cardinality(inserted) - Cardinality(ticks \cap inserted)
      BY <2>1, FS_Union
    <3>2. Cardinality(ticks \cap inserted) = 0
      BY <2>3
    <3>3. QED
      BY <1>2, <2>1, <3>1, <3>2
  <2>5. Cardinality(ticks) = rowsAtStart + stored
    BY <1>1, <1>2 DEF Books, StatsTellTheTable, ArchiveTypes
  <2>6. Cardinality(ticks') = rowsAtStart + stored + affected
    BY <1>1, <2>1, <2>2, <2>4, <2>5 DEF ArchiveTypes
  <2>7. QED
    BY <1>1, <1>2, <2>6 DEF Books, StatsTellTheTable, statVars
<1>7. LossIsCounted'
  <2> DEFINE Gone == taken \ (ticks \cup ToSet(batch))
             GoneNow == taken \ (ticks' \cup ToSet(batch))
  <2>1. GoneNow \subseteq Gone /\ Gone \subseteq Trades
    BY <1>1, <1>2 DEF ArchiveTypes
  <2>2. Cardinality(GoneNow) <= Cardinality(Gone) /\ Cardinality(GoneNow) \in Nat
        /\ Cardinality(Gone) \in Nat
    BY <2>1, SmallerSet
  <2>3. Cardinality(Gone) <= errors * BatchSize /\ errors * BatchSize \in Nat
    BY <1>1, OneMoreBatch DEF Books, LossIsCounted, ArchiveTypes
  <2> HIDE DEF Gone
  <2>4. Cardinality(GoneNow) <= errors * BatchSize
    <3> HIDE DEF GoneNow
    <3>1. QED
      BY <2>2, <2>3
  <2>5. QED
    BY <1>2, <2>4 DEF LossIsCounted, statVars
<1>8. ~faulted' => TicksKept'
  BY <1>1, <1>2 DEF Books, TicksKept
<1>9. RawBooks'
  BY <1>1, <1>2, RawBooksStay
<1>10. ArchiveTypes'
  BY <1>1, <1>2, <1>3 DEF ArchiveTypes, pumpVars, statVars, PersisterStates
<1>11. QED
  BY <1>5, <1>6, <1>7, <1>8, <1>9, <1>10 DEF KeptInv, Books

(* The end of a write that committed. *)
LEMMA CountKept == KeptInv /\ CountWrite => KeptInv'
<1> SUFFICES ASSUME KeptInv, CountWrite PROVE KeptInv'
  OBVIOUS
<1>1. ArchiveTypes /\ Books /\ RawBooks /\ WriteInv
  BY DEF KeptInv, Books
<1>2. /\ persister = "count" /\ stored' = stored + affected
      /\ duplicate' = duplicate + (Len(batch) - affected)
      /\ batch' = << >> /\ affected' = 0 /\ persister' = after
      /\ UNCHANGED <<queue, pumpVars, after, todo, inserted, ticks, received, errors,
                     taken, rowsAtStart, faulted>>
  BY DEF CountWrite
<1>3. /\ Len(batch) \in Nat /\ affected \in Nat /\ affected <= Len(batch)
      /\ ToSet(batch) \subseteq ticks /\ Len(<< >>) = 0
  BY <1>1, <1>2 DEF ArchiveTypes, WriteInv
<1>4. WriteInv'
  BY <1>1, <1>2, ArchiveAssumption DEF ArchiveTypes, WriteInv
<1>5. StatsTellTheTable'
  <2>1. Cardinality(ticks) = rowsAtStart + stored + affected
    BY <1>1, <1>2 DEF Books, StatsTellTheTable
  <2>2. PICK lost \in errors .. (errors * BatchSize) :
          received = stored + duplicate + Len(batch) + lost
    BY <1>1 DEF Books, StatsTellTheTable
  <2>3. received' = stored' + duplicate' + Len(batch') + lost
    BY <1>1, <1>2, <1>3, <2>2, OneMoreBatch DEF ArchiveTypes
  <2>4. Cardinality(ticks') = rowsAtStart' + stored' + 0
    BY <1>1, <1>2, <1>3, <2>1 DEF ArchiveTypes
  <2>5. persister' # "count"
    BY <1>1, <1>2 DEF ArchiveTypes
  <2>6. QED
    BY <1>2, <2>2, <2>3, <2>4, <2>5 DEF StatsTellTheTable
<1>6. LossIsCounted'
  <2>1. taken' \ (ticks' \cup ToSet(batch')) = taken \ (ticks \cup ToSet(batch))
    BY <1>2, <1>3, ToSetEmpty
  <2>2. QED
    BY <1>1, <1>2, <2>1 DEF Books, LossIsCounted
<1>7. ~faulted' => TicksKept'
  BY <1>1, <1>2, <1>3 DEF Books, TicksKept
<1>8. RawBooks'
  BY <1>1, <1>2, RawBooksStay
<1>9. ArchiveTypes'
  <2>1. duplicate' \in Nat /\ stored' \in Nat
    BY <1>1, <1>2, <1>3 DEF ArchiveTypes
  <2>2. QED
    BY <1>1, <1>2, <2>1 DEF ArchiveTypes, pumpVars, PersisterStates
<1>10. QED
  BY <1>4, <1>5, <1>6, <1>7, <1>8, <1>9 DEF KeptInv, Books

(* A write that failed loses a batch, and counts one error for it. *)
LEMMA FailureKept == KeptInv /\ WriteFails => KeptInv'
<1> SUFFICES ASSUME KeptInv, WriteFails PROVE KeptInv'
  OBVIOUS
<1>1. ArchiveTypes /\ Books /\ RawBooks /\ WriteInv
  BY DEF KeptInv, Books
<1>2. /\ persister = "insert" /\ errors' = errors + 1 /\ faulted' = TRUE
      /\ batch' = << >> /\ todo' = << >> /\ inserted' = {} /\ affected' = 0
      /\ persister' = after
      /\ UNCHANGED <<queue, pumpVars, after, ticks, received, stored, duplicate,
                     taken, rowsAtStart>>
  BY DEF WriteFails
<1>3. /\ Len(batch) \in Nat /\ Len(batch) > 0 /\ Len(batch) <= BatchSize
      /\ Len(<< >>) = 0 /\ BatchSize \in Nat /\ errors \in Nat
  BY <1>1, <1>2, ArchiveAssumption DEF ArchiveTypes, WriteInv
<1>4. errors * BatchSize \in Nat /\ (errors + 1) * BatchSize = errors * BatchSize + BatchSize
  BY <1>3, OneMoreBatch
<1>5. WriteInv'
  BY <1>1, <1>2, ArchiveAssumption DEF ArchiveTypes, WriteInv
<1>6. StatsTellTheTable'
  <2>1. Cardinality(ticks) = rowsAtStart + stored + 0
    BY <1>1, <1>2 DEF Books, StatsTellTheTable
  <2>2. PICK lost \in errors .. (errors * BatchSize) :
          received = stored + duplicate + Len(batch) + lost
    BY <1>1 DEF Books, StatsTellTheTable
  <2> DEFINE more == lost + Len(batch)
             bound == errors * BatchSize
  <2>3. more \in (errors + 1) .. (bound + BatchSize)
    <3>1. lost \in Nat /\ lost >= errors /\ lost <= bound /\ bound \in Nat
      BY <1>3, <1>4, <2>2
    <3> HIDE DEF bound
    <3>2. QED
      BY <1>3, <3>1
  <2>4. received' = stored' + duplicate' + Len(batch') + more
    BY <1>1, <1>2, <1>3, <1>4, <2>2 DEF ArchiveTypes
  <2>5. more \in errors' .. (errors' * BatchSize)
    BY <1>2, <1>4, <2>3
  <2>6. persister' # "count"
    BY <1>1, <1>2 DEF ArchiveTypes
  <2> HIDE DEF more
  <2>7. QED
    BY <1>2, <2>1, <2>4, <2>5, <2>6 DEF StatsTellTheTable
<1>7. LossIsCounted'
  <2> DEFINE Gone == taken \ (ticks \cup ToSet(batch))
             GoneNow == taken \ ticks
  <2>1. /\ GoneNow \subseteq Gone \cup ToSet(batch) /\ Gone \subseteq Trades
        /\ ToSet(batch) \subseteq Trades
    BY <1>1, ToSetFacts DEF ArchiveTypes
  <2>2. /\ IsFiniteSet(Gone) /\ Cardinality(Gone) \in Nat
        /\ IsFiniteSet(ToSet(batch)) /\ Cardinality(ToSet(batch)) \in Nat
        /\ Cardinality(Gone \cap ToSet(batch)) \in Nat
    BY <2>1, TradesFinite
  <2>3. Cardinality(ToSet(batch)) <= Len(batch)
    BY <1>1, ToSetSize DEF ArchiveTypes
  <2>4. Cardinality(Gone \cup ToSet(batch))
          = Cardinality(Gone) + Cardinality(ToSet(batch)) - Cardinality(Gone \cap ToSet(batch))
    BY <2>2, FS_Union
  <2>5. /\ Cardinality(GoneNow) <= Cardinality(Gone \cup ToSet(batch))
        /\ Cardinality(GoneNow) \in Nat /\ Cardinality(Gone \cup ToSet(batch)) \in Nat
    BY <2>1, SmallerSet
  <2>6. Cardinality(Gone) <= errors * BatchSize
    BY <1>1 DEF Books, LossIsCounted
  <2> HIDE DEF Gone, GoneNow
  <2>7. Cardinality(GoneNow) <= errors * BatchSize + BatchSize
    BY <1>3, <1>4, <2>2, <2>3, <2>4, <2>5, <2>6
  <2>8. taken' \ (ticks' \cup ToSet(batch')) = GoneNow
    BY <1>2, ToSetEmpty DEF GoneNow
  <2>9. QED
    BY <1>2, <1>4, <2>7, <2>8 DEF LossIsCounted
<1>8. RawBooks'
  BY <1>2 DEF RawBooks
<1>9. ArchiveTypes'
  BY <1>1, <1>2, <1>3 DEF ArchiveTypes, pumpVars, PersisterStates
<1>10. QED
  BY <1>2, <1>5, <1>6, <1>7, <1>8, <1>9 DEF KeptInv, Books

LEMMA PersisterKept == KeptInv /\ PersistStep => KeptInv'
<1>1. KeptInv /\ (PersistInterval \/ PersistStops) => KeptInv'
  BY IntervalKept DEF PersistInterval, PersistStops
<1>2. QED
  BY <1>1, TickKept, RowKept, CommitKept, CountKept, FailureKept DEF PersistStep

LEMMA FrameKept ==
  ASSUME KeptInv, NEW f \in Frames, PumpFrame(f)
  PROVE  KeptInv'
<1> DEFINE frames == Append(rawBatch, f)
<1>1. ArchiveTypes
  BY DEF KeptInv
<1>2. frames \in Seq(Frames) /\ ToSet(frames) = ToSet(rawBatch) \cup {f}
  BY <1>1, AppendFacts, ToSetFacts DEF ArchiveTypes
<1>3. /\ rawBatch' \in Seq(Frames)
      /\ ~faulted' => ~faulted /\ raws \cup ToSet(frames) = raws' \cup ToSet(rawBatch')
  <2>1. CASE flushRaw(frames)
    BY <1>2, <2>1, FlushRawFacts, ToSetEmpty
  <2>2. CASE rawBatch' = frames /\ UNCHANGED <<raws, faulted>>
    BY <1>2, <2>2
  <2>3. QED
    BY <2>1, <2>2 DEF PumpFrame
<1>4. queue' \in Seq(Trades)
  <2>1. CASE f = NoTick
    BY <1>1, <2>1 DEF PumpFrame, ArchiveTypes
  <2>2. CASE f # NoTick
    <3>1. f \in Trades /\ queue' = PublishTo(queue, f) /\ queue \in Seq(Trades)
      BY <1>1, <2>2, TickIsFrame DEF PumpFrame, ArchiveTypes
    <3>2. Len(queue) >= QueueCap => queue # << >> /\ Tail(queue) \in Seq(Trades)
      BY <3>1, ArchiveAssumption, TailFacts
    <3>3. QED
      BY <3>1, <3>2, AppendFacts, ArchiveAssumption DEF PublishTo
  <2>3. QED
    BY <2>1, <2>2
<1>5. RawBooks'
  <2>1. pump = "on" /\ pump' = "on" /\ seenRaw' = seenRaw \cup {f}
    BY DEF PumpFrame
  <2> HIDE DEF frames
  <2>2. QED
    BY <1>2, <1>3, <2>1 DEF KeptInv, RawBooks, RawFramesKept
<1>6. UNCHANGED persistVars
  BY DEF PumpFrame
<1>7. Books'
  BY <1>3, <1>6, BooksStay DEF KeptInv
<1>8. QED
  BY <1>1, <1>3, <1>4, <1>5, <1>6, <1>7
  DEF KeptInv, ArchiveTypes, persistVars, txVars, statVars

(* The raw ticker's transaction, and the last one. *)
LEMMA FlushRawKept ==
  ASSUME KeptInv, pump = "on",
         flushRaw(rawBatch) \/ (rawBatch = << >> /\ UNCHANGED <<rawBatch, raws, faulted>>),
         UNCHANGED <<queue, seenRaw, persistVars>>
  PROVE  KeptInv'
<1>1. ArchiveTypes
  BY DEF KeptInv
<1>2. /\ rawBatch' = << >> /\ rawBatch' \in Seq(Frames)
      /\ ~faulted' => ~faulted /\ raws' = raws \cup ToSet(rawBatch)
  <2>1. CASE flushRaw(rawBatch)
    BY <1>1, <2>1, FlushRawFacts DEF ArchiveTypes
  <2>2. CASE rawBatch = << >> /\ UNCHANGED <<rawBatch, raws, faulted>>
    BY <2>2, ToSetEmpty
  <2>3. QED
    BY <2>1, <2>2
<1>3. RawBooks'
  BY <1>2 DEF KeptInv, RawBooks, RawFramesKept
<1>4. Books'
  BY <1>2, BooksStay DEF KeptInv
<1>5. QED
  BY <1>1, <1>2, <1>3, <1>4
  DEF KeptInv, ArchiveTypes, persistVars, txVars, statVars

(* A new process counts from what the table has. *)
LEMMA RestartKept == KeptInv /\ Restart => KeptInv'
<1> SUFFICES ASSUME KeptInv, Restart PROVE KeptInv'
  OBVIOUS
<1>1. Cardinality(ticks) \in Nat /\ ticks \subseteq Trades
  BY TradesFinite DEF KeptInv, ArchiveTypes
<1>2. ArchiveTypes'
  BY <1>1 DEF Restart, Fresh, ArchiveTypes, PersisterStates
<1>3. WriteInv'
  BY ArchiveAssumption DEF Restart, Fresh, WriteInv
<1>4. 0 * BatchSize \in Nat /\ 0 \in 0 .. (0 * BatchSize) /\ Len(<< >>) = 0
  BY OneMoreBatch
<1>5. StatsTellTheTable'
  BY <1>1, <1>4 DEF Restart, Fresh, StatsTellTheTable
<1>6. LossIsCounted'
  <2>1. /\ Cardinality(taken' \ (ticks' \cup ToSet(batch'))) = 0
        /\ errors' = 0
    <3>1. taken' \ (ticks' \cup ToSet(batch')) = {} /\ errors' = 0
      BY DEF Restart, Fresh
    <3>2. QED
      BY <3>1, FS_EmptySet
  <2>2. 0 <= errors' * BatchSize
    BY <1>4, <2>1
  <2>3. QED
    BY <2>1, <2>2 DEF LossIsCounted
<1>7. TicksKept' /\ RawFramesKept'
  BY DEF Restart, Fresh, TicksKept, RawFramesKept
<1>8. QED
  BY <1>2, <1>3, <1>5, <1>6, <1>7 DEF KeptInv, Books, RawBooks

LEMMA KeptStep == KeptInv /\ [ArchiveNext]_archiveVars => KeptInv'
<1> SUFFICES ASSUME KeptInv, [ArchiveNext]_archiveVars PROVE KeptInv'
  OBVIOUS
<1>1. ASSUME NEW f \in Frames, PumpFrame(f) PROVE KeptInv'
  BY <1>1, FrameKept
<1>2. CASE PumpInterval \/ PumpStops
  BY <1>2, FlushRawKept DEF PumpInterval, PumpStops
<1>3. CASE PersistStep
  BY <1>3, PersisterKept
<1>4. CASE CancelRun \/ SubCloses \/ UNCHANGED archiveVars
  <2>1. UNCHANGED <<queue, pumpVars, persistVars, faulted>>
    BY <1>4 DEF CancelRun, SubCloses, archiveVars
  <2>2. Books' /\ RawBooks'
    BY <2>1, BooksStay, RawBooksStay DEF KeptInv
  <2>3. ArchiveTypes'
    BY <2>1 DEF KeptInv, ArchiveTypes, pumpVars, persistVars, txVars, statVars
  <2>4. QED
    BY <2>2, <2>3 DEF KeptInv
<1>5. CASE Restart
  BY <1>5, RestartKept
<1>6. QED
  BY <1>1, <1>2, <1>3, <1>4, <1>5 DEF ArchiveNext

LEMMA KeptAlways == ArchiveSpec => []KeptInv
  BY KeptInit, KeptStep, PTL DEF ArchiveSpec

(* While the disk takes every write, nothing the pump has read and nothing *)
(* the persister has received is lost, whatever the batch sizes and        *)
(* wherever a cancellation, the closing of the bus or a restart falls.     *)
THEOREM ReceivedIsKeptHolds == ArchiveSpec => []ReceivedIsKept
<1>1. KeptInv => ReceivedIsKept
  BY DEF KeptInv, Books, RawBooks, ReceivedIsKept
<1>2. QED
  BY <1>1, KeptAlways, PTL

(* stored counts the rows that this process added to the ticks table, and  *)
(* the other counters explain the rest of what was received: whatever the  *)
(* venue repeats, whichever writes fail at whichever row, and wherever a   *)
(* shutdown or a restart falls.                                            *)
THEOREM StatsTellTheTableHolds == ArchiveSpec => []StatsTellTheTable
<1>1. KeptInv => StatsTellTheTable
  BY DEF KeptInv, Books
<1>2. QED
  BY <1>1, KeptAlways, PTL

(* No received trade is missing from the table without an error that       *)
(* accounts for it, and an error accounts for BatchSize trades at most.    *)
THEOREM LossIsCountedHolds == ArchiveSpec => []LossIsCounted
<1>1. KeptInv => LossIsCounted
  BY DEF KeptInv, Books
<1>2. QED
  BY <1>1, KeptAlways, PTL

-----------------------------------------------------------------------------
(* Candles. *)

IsCandle(c) == "openTime" \in DOMAIN c /\ c.openTime \in Int

Ticks == [inst : Instruments, id : Nat, time : Nat, price : Decimal, qty : Decimal]

LEMMA BucketInt ==
  ASSUME NEW t \in Nat
  PROVE  Bucket(t) \in Int
  BY CandlesAssumption DEF Bucket

LEMMA StartFacts ==
  ASSUME NEW t \in Ticks
  PROVE  IsCandle(start(t)) /\ start(t).openTime = Bucket(t.time) /\ Bucket(t.time) \in Int
<1>1. Bucket(t.time) \in Int
  BY BucketInt DEF Ticks
<1>2. QED
  BY <1>1 DEF start, IsCandle

(* No tick of its bucket moves a bar, nor does its completion. *)
LEMMA FoldFacts ==
  ASSUME NEW c, IsCandle(c), NEW t
  PROVE  IsCandle(fold(c, t)) /\ fold(c, t).openTime = c.openTime
  BY DEF fold, IsCandle

LEMMA CompleteFacts ==
  ASSUME NEW c, IsCandle(c)
  PROVE  /\ IsCandle([c EXCEPT !.complete = TRUE])
         /\ [c EXCEPT !.complete = TRUE].openTime = c.openTime
  BY DEF IsCandle

(* Bars in the order of their times. *)
Chain(s) ==
  /\ s \in Seq(ToSet(s))
  /\ \A k \in DOMAIN s : IsCandle(s[k])
  /\ \A j, k \in DOMAIN s : j < k => s[j].openTime < s[k].openTime

LEMMA EmptyChain == Chain(<< >>)
  BY DEF Chain

LEMMA AppendChain ==
  ASSUME NEW s, Chain(s), NEW c, IsCandle(c),
         \A k \in DOMAIN s : s[k].openTime < c.openTime,
         NEW S, S = ToSet(s) \cup {c}
  PROVE  /\ Append(s, c) \in Seq(S)
         /\ \A k \in DOMAIN Append(s, c) :
              IsCandle(Append(s, c)[k]) /\ Append(s, c)[k].openTime <= c.openTime
         /\ \A j, k \in DOMAIN Append(s, c) :
              j < k => Append(s, c)[j].openTime < Append(s, c)[k].openTime
         /\ \A x \in ToSet(s) : \E k \in DOMAIN Append(s, c) : Append(s, c)[k] = x
         /\ Len(Append(s, c)) \in Nat \ {0} /\ DOMAIN Append(s, c) = 1 .. Len(Append(s, c))
<1> DEFINE h == Append(s, c)
           n == Len(s)
<1>1. s \in Seq(S) /\ c \in S /\ n \in Nat /\ DOMAIN s = 1 .. n
  BY DEF Chain
<1>2. /\ h \in Seq(S) /\ Len(h) = n + 1 /\ h[n + 1] = c /\ \A k \in 1 .. n : h[k] = s[k]
  BY <1>1, AppendFacts
<1> HIDE DEF h, n
<1>3. DOMAIN h = 1 .. (n + 1) /\ Len(h) \in Nat \ {0} /\ DOMAIN h = 1 .. Len(h)
  BY <1>1, <1>2
<1>4. \A k \in DOMAIN h : (k \in DOMAIN s /\ h[k] = s[k]) \/ (k = n + 1 /\ h[k] = c)
  BY <1>1, <1>2, <1>3
<1>5. ASSUME NEW k \in DOMAIN h
      PROVE  IsCandle(h[k]) /\ h[k].openTime <= c.openTime
  <2>1. CASE k \in DOMAIN s /\ h[k] = s[k]
    BY <2>1 DEF Chain, IsCandle
  <2>2. CASE h[k] = c
    BY <2>2 DEF IsCandle
  <2>3. QED
    BY <1>4, <2>1, <2>2
<1>6. ASSUME NEW j \in DOMAIN h, NEW k \in DOMAIN h, j < k
      PROVE  h[j].openTime < h[k].openTime
  <2>1. j \in DOMAIN s /\ h[j] = s[j]
    BY <1>1, <1>2, <1>3, <1>6
  <2>2. CASE k \in DOMAIN s /\ h[k] = s[k]
    BY <1>6, <2>1, <2>2 DEF Chain
  <2>3. CASE h[k] = c
    BY <2>1, <2>3
  <2>4. QED
    BY <1>4, <2>2, <2>3
<1>7. ASSUME NEW x \in ToSet(s) PROVE \E k \in DOMAIN h : h[k] = x
  <2>1. PICK k \in DOMAIN s : s[k] = x
    BY DEF ToSet
  <2>2. k \in DOMAIN h /\ h[k] = x
    BY <1>1, <1>2, <1>3, <2>1
  <2>3. QED
    BY <2>2
<1>8. QED
  BY <1>2, <1>3, <1>5, <1>6, <1>7 DEF h

(* A completed bar joins the history; what leaves it is older. *)
LEMMA RetainFacts ==
  ASSUME NEW s, Chain(s), NEW c, IsCandle(c),
         \A k \in DOMAIN s : s[k].openTime < c.openTime
  PROVE  /\ Chain(retain(s, c))
         /\ \A k \in DOMAIN retain(s, c) : retain(s, c)[k].openTime <= c.openTime
         /\ ToSet(retain(s, c)) \subseteq ToSet(s) \cup {c}
         /\ \A gone \in ToSet(s) \ ToSet(retain(s, c)), x \in ToSet(retain(s, c)) :
              gone.openTime < x.openTime
<1> DEFINE S == ToSet(s) \cup {c}
           h == Append(s, c)
           n == Len(h)
           m == Min({n, History})
           a == n + 1 - m
           r == retain(s, c)
<1>1. /\ h \in Seq(S)
      /\ \A k \in DOMAIN h : IsCandle(h[k]) /\ h[k].openTime <= c.openTime
      /\ \A j, k \in DOMAIN h : j < k => h[j].openTime < h[k].openTime
      /\ \A x \in ToSet(s) : \E k \in DOMAIN h : h[k] = x
      /\ n \in Nat \ {0} /\ DOMAIN h = 1 .. n
  BY AppendChain
<1>2. r = SubSeq(h, a, n)
  BY DEF retain
<1> HIDE DEF h, r, S
<1>3. a \in Nat \ {0} /\ a <= n /\ a <= n + 1 /\ n <= Len(h) /\ n - a + 1 \in Nat
  <2>1. History \in Nat \ {0}
    BY CandlesAssumption
  <2> HIDE DEF n
  <2>2. n \in Int /\ History \in Int
    BY <1>1, <2>1
  <2>3. m = IF n <= History THEN n ELSE History
    BY <2>2, MinPair
  <2> HIDE DEF m
  <2>4. m \in Nat \ {0} /\ m <= n
    BY <1>1, <2>1, <2>3
  <2>5. a \in Nat \ {0} /\ a <= n /\ a <= n + 1 /\ n - a + 1 \in Nat
    BY <1>1, <2>4
  <2>6. n <= Len(h)
    BY <1>1 DEF n
  <2>7. QED
    BY <2>5, <2>6
<1> HIDE DEF n, a
<1>4. /\ r \in Seq(S) /\ Len(r) = n - a + 1
      /\ \A k \in 1 .. (n - a + 1) : r[k] = h[a + k - 1]
  BY <1>1, <1>2, <1>3, SubSeqFacts
<1>5. DOMAIN r = 1 .. (n - a + 1)
  BY <1>3, <1>4
<1>6. \A k \in DOMAIN r : a + k - 1 \in DOMAIN h /\ a + k - 1 >= a /\ r[k] = h[a + k - 1]
  BY <1>1, <1>3, <1>4, <1>5
<1>7. \A j \in DOMAIN h : j >= a => j - a + 1 \in DOMAIN r /\ r[j - a + 1] = h[j]
  BY <1>1, <1>3, <1>4, <1>5
<1>8. Chain(r)
  <2>1. r \in Seq(ToSet(r))
    BY <1>4 DEF ToSet
  <2>2. \A k \in DOMAIN r : IsCandle(r[k])
    BY <1>1, <1>6
  <2>3. ASSUME NEW j \in DOMAIN r, NEW k \in DOMAIN r, j < k
        PROVE  r[j].openTime < r[k].openTime
    <3>1. a + j - 1 < a + k - 1
      BY <1>3, <1>5, <2>3
    <3>2. QED
      BY <1>1, <1>6, <3>1
  <2>4. QED
    BY <2>1, <2>2, <2>3 DEF Chain
<1>9. \A k \in DOMAIN r : r[k].openTime <= c.openTime
  BY <1>1, <1>6
<1>10. ToSet(r) \subseteq S
  BY <1>4 DEF ToSet
<1>11. ASSUME NEW gone \in ToSet(s) \ ToSet(r), NEW x \in ToSet(r)
       PROVE  gone.openTime < x.openTime
  <2>1. PICK j \in DOMAIN h : h[j] = gone
    BY <1>1
  <2>2. PICK k \in DOMAIN r : r[k] = x
    BY DEF ToSet
  <2>3. ~ (j >= a)
    BY <1>7, <2>1 DEF ToSet
  <2>4. j < a + k - 1
    BY <1>1, <1>3, <1>5, <2>3
  <2>5. QED
    BY <1>1, <1>6, <2>1, <2>2, <2>4
<1>12. QED
  BY <1>8, <1>9, <1>10, <1>11 DEF r, S

(* A bar in progress is younger than those of its history. *)
BarsInv ==
  /\ log \in Seq(Ticks)
  /\ DOMAIN open \subseteq Instruments
  /\ DOMAIN done = Instruments
  /\ \A i \in DOMAIN open : IsCandle(open[i])
  /\ \A i \in Instruments : Chain(done[i])
  /\ \A i \in Instruments \ DOMAIN open : done[i] = << >>
  /\ \A i \in DOMAIN open : \A k \in DOMAIN done[i] : done[i][k].openTime < open[i].openTime

LEMMA BarsInit == CandlesInit => BarsInv
<1> SUFFICES ASSUME CandlesInit PROVE BarsInv
  OBVIOUS
<1>1. open = << >> /\ log = << >> /\ done = [i \in Instruments |-> << >>]
  BY DEF CandlesInit
<1>2. DOMAIN open = {} /\ log \in Seq(Ticks)
  BY <1>1
<1>3. QED
  BY <1>1, <1>2, EmptyChain DEF BarsInv

(* The bars before and after a step of one instrument. *)
Final(i) ==
  LET was == ToSet(done[i])
      is  == ToSet(done'[i])
  IN  /\ is \ was \subseteq {[open[i] EXCEPT !.complete = TRUE]}
      /\ \A gone \in was \ is, c \in is : gone.openTime < c.openTime
      /\ \A c \in is : c.openTime < open'[i].openTime

LEMMA SameHistory ==
  ASSUME BarsInv, NEW i \in DOMAIN open, done'[i] = done[i],
         open'[i].openTime = open[i].openTime
  PROVE  Final(i)
<1>1. \A c \in ToSet(done[i]) : c.openTime < open[i].openTime
  BY DEF BarsInv, ToSet
<1>2. QED
  BY <1>1 DEF Final

LEMMA AddStep ==
  ASSUME BarsInv, NEW t \in Ticks, Add(t)
  PROVE  BarsInv' /\ \A i \in DOMAIN open : Final(i)
<1> DEFINE x == t.inst
           b == Bucket(t.time)
<1>1. /\ log \in Seq(Ticks) /\ DOMAIN open \subseteq Instruments /\ DOMAIN done = Instruments
      /\ \A i \in DOMAIN open : IsCandle(open[i])
      /\ \A i \in Instruments : Chain(done[i])
      /\ \A i \in Instruments \ DOMAIN open : done[i] = << >>
      /\ \A i \in DOMAIN open : \A k \in DOMAIN done[i] : done[i][k].openTime < open[i].openTime
  BY DEF BarsInv
<1>2. x \in Instruments /\ IsCandle(start(t)) /\ start(t).openTime = b /\ b \in Int
  BY StartFacts DEF Ticks
<1>3. log' \in Seq(Ticks)
  BY <1>1 DEF Add
<1>4. CASE AddFirst(t)
  <2>1. x \notin DOMAIN open /\ done' = done /\ open' = Opened(t)
    BY <1>4 DEF AddFirst
  <2>2. DOMAIN open' = DOMAIN open \cup {x} /\ open'[x] = start(t)
        /\ \A i \in DOMAIN open : open'[i] = open[i]
    BY <2>1 DEF Opened
  <2>3. DOMAIN done[x] = {}
    BY <1>1, <1>2, <2>1
  <2>4. BarsInv'
    BY <1>1, <1>2, <1>3, <2>1, <2>2, <2>3 DEF BarsInv
  <2>5. QED
    BY <2>1, <2>2, <2>4, SameHistory
<1>5. CASE AddLater(t)
  <2> DEFINE c == [open[x] EXCEPT !.complete = TRUE]
             r == retain(done[x], c)
  <2>1. /\ x \in DOMAIN open /\ b > open[x].openTime /\ open' = Opened(t)
        /\ done' = [done EXCEPT ![x] = r]
    BY <1>5 DEF AddLater
  <2>2. IsCandle(c) /\ c.openTime = open[x].openTime
    BY <1>1, <2>1, CompleteFacts
  <2>3. Chain(done[x]) /\ \A k \in DOMAIN done[x] : done[x][k].openTime < c.openTime
    BY <1>1, <1>2, <2>1, <2>2
  <2> HIDE DEF c
  <2>4. /\ Chain(r) /\ \A k \in DOMAIN r : r[k].openTime <= c.openTime
        /\ ToSet(r) \subseteq ToSet(done[x]) \cup {c}
        /\ \A gone \in ToSet(done[x]) \ ToSet(r), y \in ToSet(r) : gone.openTime < y.openTime
    BY <2>2, <2>3, RetainFacts
  <2> HIDE DEF r
  <2>5. /\ DOMAIN open' = DOMAIN open /\ open'[x] = start(t)
        /\ \A i \in DOMAIN open \ {x} : open'[i] = open[i]
    BY <2>1 DEF Opened
  <2>6. /\ DOMAIN done' = Instruments /\ done'[x] = r
        /\ \A i \in Instruments \ {x} : done'[i] = done[i]
    BY <1>1, <1>2, <2>1
  <2>7. \A k \in DOMAIN r : r[k].openTime < open'[x].openTime
    <3> SUFFICES ASSUME NEW k \in DOMAIN r PROVE r[k].openTime < b
      BY <1>2, <2>5
    <3>1. r[k].openTime \in Int /\ r[k].openTime <= c.openTime
      BY <2>4 DEF Chain, IsCandle
    <3>2. c.openTime \in Int /\ c.openTime < b
      BY <2>1, <2>2 DEF IsCandle
    <3>3. QED
      BY <1>2, <3>1, <3>2
  <2>8. BarsInv'
    <3>1. \A i \in DOMAIN open' : IsCandle(open'[i])
      BY <1>1, <1>2, <2>5
    <3>2. \A i \in Instruments : Chain(done'[i])
      BY <1>1, <2>4, <2>6
    <3>3. \A i \in Instruments \ DOMAIN open' : done'[i] = << >>
      BY <1>1, <2>1, <2>5, <2>6
    <3>4. \A i \in DOMAIN open' : \A k \in DOMAIN done'[i] :
            done'[i][k].openTime < open'[i].openTime
      <4> SUFFICES ASSUME NEW i \in DOMAIN open, NEW k \in DOMAIN done'[i]
                   PROVE  done'[i][k].openTime < open'[i].openTime
        BY <2>5
      <4>1. CASE i = x
        BY <2>6, <2>7, <4>1
      <4>2. CASE i # x
        BY <1>1, <2>5, <2>6, <4>2
      <4>3. QED
        BY <4>1, <4>2
    <3>5. QED
      BY <1>1, <1>3, <2>5, <2>6, <3>1, <3>2, <3>3, <3>4 DEF BarsInv
  <2>9. Final(x)
    <3>1. \A y \in ToSet(r) : y.openTime < open'[x].openTime
      BY <2>7 DEF ToSet
    <3>2. QED
      BY <2>4, <2>6, <3>1 DEF Final, c
  <2>10. ASSUME NEW i \in DOMAIN open, i # x PROVE Final(i)
    BY <1>1, <2>5, <2>6, <2>10, SameHistory
  <2>11. QED
    BY <2>8, <2>9, <2>10
<1>6. CASE AddLate(t)
  <2>1. open' = open /\ done' = done
    BY <1>6 DEF AddLate
  <2>2. QED
    BY <1>1, <1>3, <2>1, SameHistory DEF BarsInv
<1>7. CASE AddSame(t)
  <2>1. x \in DOMAIN open /\ done' = done /\ open' = [open EXCEPT ![x] = fold(open[x], t)]
    BY <1>7 DEF AddSame
  <2>2. IsCandle(fold(open[x], t)) /\ fold(open[x], t).openTime = open[x].openTime
    BY <1>1, <2>1, FoldFacts
  <2>3. /\ DOMAIN open' = DOMAIN open
        /\ \A i \in DOMAIN open : IsCandle(open'[i]) /\ open'[i].openTime = open[i].openTime
    BY <1>1, <2>1, <2>2
  <2>4. BarsInv'
    BY <1>1, <1>3, <2>1, <2>3 DEF BarsInv
  <2>5. QED
    BY <2>1, <2>3, <2>4, SameHistory
<1>8. QED
  BY <1>4, <1>5, <1>6, <1>7 DEF Add

LEMMA BarsStep ==
  ASSUME BarsInv, [CandlesNext]_candlesVars
  PROVE  BarsInv' /\ [\A i \in DOMAIN open : Final(i)]_candlesVars
<1>1. CASE UNCHANGED candlesVars
  BY <1>1 DEF candlesVars, BarsInv
<1>2. CASE CandlesNext
  <2>1. PICK t \in NewTrades \cup Replays : Add(t)
    BY <1>2 DEF CandlesNext
  <2>2. Len(log) < MaxTicks /\ log \in Seq(Ticks)
    BY <1>2 DEF CandlesNext, BarsInv
  <2>3. CASE t \in Replays
    <3>1. t \in Ticks
      BY <2>2, <2>3 DEF Replays, ToSet
    <3>2. QED
      BY <2>1, <3>1, AddStep
  <2>4. CASE t \in NewTrades
    <3>1. Quantities[Len(log) + 1] \in Decimal /\ Len(log) + 1 \in Nat
      BY <2>2, CandlesAssumption
    <3>2. PICK i \in Instruments, m \in 0 .. MaxEventTime, p \in Prices :
            t = [inst |-> i, id |-> Len(log) + 1, time |-> m, price |-> p,
                 qty |-> Quantities[Len(log) + 1]]
      BY <2>4 DEF NewTrades
    <3>3. m \in Nat /\ p \in Decimal
      BY CandlesAssumption
    <3>4. t \in Ticks
      BY <3>1, <3>2, <3>3 DEF Ticks
    <3>5. QED
      BY <2>1, <3>4, AddStep
  <2>5. QED
    BY <2>1, <2>3, <2>4, AddStep
<1>3. QED
  BY <1>1, <1>2

(* A completed bar never changes, leaves the history only at its old end,  *)
(* and is never opened again, for any interval and length of the history,  *)
(* and however late, repeated or out of order the ticks come: a bar in     *)
(* progress is younger than every completed one.                           *)
THEOREM PublishedBarsAreFinalHolds == CandlesSpec => PublishedBarsAreFinal
<1>1. BarsInv /\ [CandlesNext]_candlesVars
        => BarsInv' /\ [\A i \in DOMAIN open : Final(i)]_candlesVars
  BY BarsStep
<1>2. QED
  BY <1>1, BarsInit, PTL DEF CandlesSpec, PublishedBarsAreFinal, Final
=============================================================================
