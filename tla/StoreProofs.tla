---------------------------- MODULE StoreProofs -----------------------------
(***************************************************************************)
(* What a client that follows the cursor relies on, and what PruneToSize   *)
(* may cost, for every table, query, retention and number of rounds.       *)
(***************************************************************************)
EXTENDS Store, Lemmas, TLAPS

-----------------------------------------------------------------------------
(* The order of a query. *)

Cursors == [time : Nat, id : Nat]
Placed(t) == t.time \in Nat /\ t.id \in Nat
Tied(t, u) == t.time = u.time /\ t.id = u.id

LEMMA NotBeforeItself ==
  ASSUME NEW q, NEW t, Placed(t)
  PROVE  ~ Before(q, t, t)
  BY DEF Before, Placed

LEMMA NotAfterThenBefore ==
  ASSUME NEW q, NEW t, NEW u, NEW v, Placed(t), Placed(u), Placed(v),
         ~ Before(q, u, t), Before(q, u, v)
  PROVE  Before(q, t, v)
  BY DEF Before, Placed

LEMMA BeforeTransitive ==
  ASSUME NEW q, NEW t, NEW u, NEW v, Placed(t), Placed(u), Placed(v),
         Before(q, t, u), Before(q, u, v)
  PROVE  Before(q, t, v)
  BY DEF Before, Placed

LEMMA BeforeOrTied ==
  ASSUME NEW q, NEW t, NEW u, Placed(t), Placed(u), ~ Before(q, u, t)
  PROVE  Before(q, t, u) \/ Tied(t, u)
  BY DEF Before, Placed, Tied

(* A tie with a row is a tie with a cursor taken from it. *)
LEMMA BeforeByPlace ==
  ASSUME NEW q, NEW t, NEW u, NEW v, Tied(t, u)
  PROVE  Before(q, t, v) = Before(q, u, v) /\ Before(q, v, t) = Before(q, v, u)
  BY DEF Before, Tied

(* A page has a last row. *)
LEMMA LastExists ==
  ASSUME NEW q, NEW P, IsFiniteSet(P), P # {}, \A t \in P : Placed(t)
  PROVE  \E t \in P : \A u \in P : ~ Before(q, t, u)
<1> DEFINE IsLast(t, s) == t \in s /\ \A u \in s : ~ Before(q, t, u)
           Bad == {s \in SUBSET P : s # {} /\ ~ \E t \in s : IsLast(t, s)}
<1>1. SUFFICES ASSUME Bad # {} PROVE FALSE
  OBVIOUS
<1>2. PICK m \in Bad : \A u \in Bad : u \subseteq m => u = m
  <2>1. Bad \in SUBSET (SUBSET P)
    OBVIOUS
  <2> HIDE DEF Bad
  <2>2. QED
    BY <1>1, <2>1, MinimalSubset
<1>3. PICK x \in m : TRUE
  BY <1>2
<1>4. m \in SUBSET P /\ Placed(x) /\ ~ Before(q, x, x)
  BY <1>2, <1>3, NotBeforeItself
<1>5. CASE m \ {x} = {}
  <2>1. IsLast(x, m)
    BY <1>3, <1>4, <1>5
  <2>2. QED
    BY <1>2, <2>1
<1>6. CASE m \ {x} # {}
  <2>1. m \ {x} \notin Bad
    BY <1>2, <1>3
  <2>2. PICK y \in m \ {x} : IsLast(y, m \ {x})
    BY <1>4, <1>6, <2>1
  <2>3. CASE Before(q, y, x)
    <3>1. ASSUME NEW u \in m, Before(q, x, u) PROVE FALSE
      <4>1. u # x /\ Placed(y) /\ Placed(u)
        BY <1>4, <2>2, <3>1
      <4>2. Before(q, y, u)
        BY <1>4, <2>3, <3>1, <4>1, BeforeTransitive
      <4>3. QED
        BY <2>2, <4>1, <4>2
    <3>2. IsLast(x, m)
      BY <1>3, <3>1
    <3>3. QED
      BY <1>2, <3>2
  <2>4. CASE ~ Before(q, y, x)
    <3>1. IsLast(y, m)
      BY <2>2, <2>4
    <3>2. QED
      BY <1>2, <3>1
  <2>5. QED
    BY <2>3, <2>4
<1>7. QED
  BY <1>5, <1>6

-----------------------------------------------------------------------------
(* Types, as far as the properties need them. *)

TypeInv ==
  /\ now \in Times
  /\ cfg \in Configs
  /\ ticks \subseteq Trades
  /\ IsFiniteSet(ticks)
  /\ raw \in [Times -> Nat]
  /\ pages \in Nat
  /\ gone \in Nat
  /\ query \in Queries \cup {None}
  /\ got \in Seq(SUBSET Trades)

LEMMA TradesPlaced == \A t \in Trades : Placed(t)
  BY StoreAssumption DEF Placed

LEMMA TimesFinite == IsFiniteSet(Times)
<1>1. MaxTime \in Int
  BY StoreAssumption
<1>2. QED
  BY <1>1, FS_Interval DEF Times

LEMMA RowsNat ==
  ASSUME NEW f \in [Times -> Nat]
  PROVE  Rows(f) \in Nat
  BY TimesFinite, SumNat DEF Rows

LEMMA RowsAdd ==
  ASSUME NEW f \in [Times -> Nat], NEW t \in Times
  PROVE  /\ [f EXCEPT ![t] = @ + 1] \in [Times -> Nat]
         /\ Rows([f EXCEPT ![t] = @ + 1]) = Rows(f) + 1
<1> DEFINE g == [f EXCEPT ![t] = @ + 1]
           rest == SumFunctionOnSet(f, Times \ {t})
<1>1. g \in [Times -> Nat] /\ g[t] = f[t] + 1 /\ \A x \in Times \ {t} : g[x] = f[x]
  OBVIOUS
<1> HIDE DEF g
<1>2. IsFiniteSet(Times \ {t})
  BY TimesFinite, FS_Subset
<1>3. (\A x \in Times : f[x] \in Int) /\ (\A x \in Times : g[x] \in Int)
  BY <1>1
<1>4. rest \in Int
  BY <1>2, <1>3, SumInt
<1>5. SumFunctionOnSet(g, Times \ {t}) = rest
  BY <1>1, <1>2, SumSame
<1>6. Rows(f) = f[t] + rest
  BY <1>3, TimesFinite, SumRemove DEF Rows
<1>7. Rows(g) = g[t] + SumFunctionOnSet(g, Times \ {t})
  BY <1>3, TimesFinite, SumRemove DEF Rows
<1>8. f[t] \in Int
  BY <1>3
<1>9. Rows(g) = Rows(f) + 1
  BY <1>1, <1>4, <1>5, <1>6, <1>7, <1>8
<1>10. QED
  BY <1>1, <1>9 DEF g

LEMMA RowsLess ==
  ASSUME NEW f \in [Times -> Nat], NEW g \in [Times -> Nat], \A t \in Times : f[t] <= g[t]
  PROVE  Rows(f) <= Rows(g)
<1>1. \A t \in Times : f[t] \in Int /\ g[t] \in Int /\ f[t] <= g[t]
  OBVIOUS
<1>2. QED
  BY <1>1, TimesFinite, SumOrder DEF Rows

LEMMA LiveNat ==
  ASSUME TypeInv
  PROVE  Cardinality(ticks) \in Nat /\ Rows(raw) \in Nat /\ Live \in Nat
  BY FS_CardinalityType, RowsNat DEF TypeInv, Live

LEMMA LimitPositive ==
  ASSUME NEW q \in Queries
  PROVE  NormalizeLimit(q.limit) \in Nat \ {0}
<1>1. q.limit \in Nat /\ MaxLimit \in Nat \ {0} /\ DefaultLimit \in Nat \ {0}
  BY StoreAssumption
<1>2. Min({q.limit, MaxLimit}) = IF q.limit <= MaxLimit THEN q.limit ELSE MaxLimit
  BY <1>1, MinPair
<1>3. QED
  BY <1>1, <1>2 DEF NormalizeLimit

-----------------------------------------------------------------------------
(* A page. *)

(* t is on page P, or P has its twin of another instrument. *)
OnPage(q, t, P) == t \in P \/ (q.inst = None /\ \E u \in P : Tied(u, t))

(* The pages are those before and P; P holds rows after the cursor c;      *)
(* the new cursor is after c and not before a row of P; and of the rows    *)
(* after c, what is not on P is after the new cursor.                      *)
PageIs(q, c, P) ==
  /\ got' = Append(got, P)
  /\ \A t \in P : t \in Trades /\ After(q, t, c)
  /\ more' => /\ cursor' \in Cursors
               /\ After(q, cursor', c)
               /\ \A t \in P : ~ Before(q, cursor', t)
  /\ \A t \in ticks :
       Selects(q, t) /\ After(q, t, c) =>
         OnPage(q, t, P) \/ (more' /\ Before(q, cursor', t))

LEMMA PageRead ==
  ASSUME TypeInv, NEW q \in Queries, NEW c, ReadPage(q, c)
  PROVE  \E P \in SUBSET Trades : PageIs(q, c, P)
<1> DEFINE rows == {t \in ticks : Selects(q, t) /\ After(q, t, c)}
           limit == NormalizeLimit(q.limit)
           Last(P) == CHOOSE t \in P : \A u \in P : ~ Before(q, t, u)
<1>1. PICK P \in SUBSET rows :
        /\ Cardinality(P) = Min({limit, Cardinality(rows)})
        /\ \A t \in P, u \in rows \ P : ~ Before(q, u, t)
        /\ got' = Append(got, P)
        /\ more' = (Cardinality(rows) > limit)
        /\ cursor' = IF Cardinality(rows) <= limit THEN None
                     ELSE [time |-> Last(P).time, id |-> Last(P).id]
  BY Zenon DEF ReadPage
<1>2. rows \subseteq ticks /\ P \subseteq ticks /\ ticks \subseteq Trades
  BY DEF TypeInv
<1>3. IsFiniteSet(rows) /\ IsFiniteSet(P)
  BY <1>2, FS_Subset DEF TypeInv
<1>4. limit \in Nat \ {0} /\ Cardinality(rows) \in Nat /\ Cardinality(P) \in Nat
  BY <1>3, LimitPositive, FS_CardinalityType
<1>5. Cardinality(P) = IF limit <= Cardinality(rows) THEN limit ELSE Cardinality(rows)
  BY <1>1, <1>4, MinPair
<1>6. \A t \in rows : Placed(t)
  BY <1>2, TradesPlaced
<1>7. ASSUME NEW t \in P PROVE t \in Trades /\ After(q, t, c)
  BY <1>1, <1>2
<1> DEFINE full == Cardinality(rows) > limit
<1>8. more' = full
  BY <1>1
<1>9. full <=> ~ (Cardinality(rows) <= limit)
  <2> HIDE DEF rows, limit
  <2>1. QED
    BY <1>4
<1>10. CASE Cardinality(rows) <= limit
  <2>1. Cardinality(rows) = Cardinality(P)
    BY <1>4, <1>5, <1>10
  <2>2. P = rows
    BY <1>3, <2>1, FS_Subset
  <2>3. ~ more'
    <3> HIDE DEF full
    <3>1. QED
      BY <1>10, <1>8, <1>9, Zenon
  <2>4. ASSUME NEW t \in ticks, Selects(q, t), After(q, t, c) PROVE OnPage(q, t, P)
    BY <2>2, <2>4 DEF OnPage
  <2> HIDE DEF rows, limit
  <2>5. PageIs(q, c, P)
    BY <1>1, <1>7, <2>3, <2>4 DEF PageIs
  <2>6. QED
    BY <1>7, <2>5
<1>11. CASE ~ (Cardinality(rows) <= limit)
  <2> DEFINE l == Last(P)
  <2>1. P # {}
    <3>1. Cardinality(P) = limit
      BY <1>4, <1>5, <1>11
    <3>2. Cardinality(P) # 0
      <4> HIDE DEF limit
      <4>1. QED
        BY <1>4, <3>1
    <3>3. QED
      BY <3>2, FS_EmptySet
  <2>2. l \in P /\ \A u \in P : ~ Before(q, l, u)
    <3>1. \E t \in P : \A u \in P : ~ Before(q, t, u)
      BY <1>1, <1>3, <1>6, <2>1, LastExists
    <3>2. QED
      BY <3>1
  <2>3. cursor' = [time |-> l.time, id |-> l.id]
    BY <1>1, <1>11
  <2> HIDE DEF l
  <2>4. Placed(l) /\ l \in rows
    BY <1>1, <1>6, <2>2
  <2>5. cursor' \in Cursors /\ Tied(cursor', l)
    BY <2>3, <2>4 DEF Cursors, Placed, Tied
  <2>6. \A t \in P : ~ Before(q, cursor', t)
    BY <2>2, <2>5, BeforeByPlace
  <2>7. After(q, cursor', c)
    BY <1>7, <2>2, <2>5, BeforeByPlace DEF After
  <2>8. more'
    <3> HIDE DEF full
    <3>1. QED
      BY <1>11, <1>8, <1>9, Zenon
  <2>9. ASSUME NEW t \in ticks, Selects(q, t), After(q, t, c)
        PROVE  OnPage(q, t, P) \/ Before(q, cursor', t)
    <3>1. CASE t \in P
      BY <3>1 DEF OnPage
    <3>2. CASE t \notin P
      <4>1. t \in rows
        BY <2>9
      <4>2. Placed(t)
        BY <1>6, <4>1
      <4>3. ~ Before(q, t, l)
        BY <1>1, <2>2, <3>2, <4>1
      <4>4. Before(q, l, t) \/ Tied(l, t)
        BY <2>4, <4>2, <4>3, BeforeOrTied
      <4>5. CASE Before(q, l, t)
        BY <2>5, <4>5, BeforeByPlace
      <4>6. CASE Tied(l, t)
        <5>1. CASE q.inst = None
          BY <2>2, <4>6, <5>1 DEF OnPage
        <5>2. CASE q.inst # None
          <6>1. q.inst = t.inst /\ q.inst = l.inst
            BY <2>4, <2>9, <5>2 DEF Selects
          <6>2. t \in Trades /\ l \in Trades
            BY <1>2, <2>4
          <6>3. l = t
            BY StoreAssumption, <4>6, <6>1, <6>2 DEF Tied
          <6>4. QED
            BY <2>2, <3>2, <6>3
        <5>3. QED
          BY <5>1, <5>2
      <4>7. QED
        BY <4>4, <4>5, <4>6
    <3>3. QED
      BY <3>1, <3>2
  <2> HIDE DEF rows, limit
  <2>10. PageIs(q, c, P)
    BY <1>1, <1>7, <2>5, <2>6, <2>7, <2>8, <2>9 DEF PageIs
  <2>11. QED
    BY <1>7, <2>10
<1>12. QED
  BY <1>10, <1>11

-----------------------------------------------------------------------------
(* The scan.  A row of base has been given out or is after the cursor, and *)
(* nothing given out is.                                                   *)

Given(t) == \E k \in DOMAIN got : OnPage(query, t, got[k])

ScanInv ==
  /\ query = None => got = << >> /\ ~ more
  /\ base \subseteq ticks
  /\ query # None =>
       \A t \in base : Selects(query, t) /\ (Given(t) \/ (more /\ Before(query, cursor, t)))
  /\ more => cursor \in Cursors
  /\ more => \A k \in DOMAIN got : \A t \in got[k] : ~ Before(query, cursor, t)

ScanIInv == TypeInv /\ ScanInv /\ ScanInOrder

LEMMA PageStep ==
  ASSUME TypeInv, NEW q \in Queries, NEW c, ReadPage(q, c),
         query' = q, UNCHANGED ticks, base' \subseteq ticks,
         c = None => got = << >>,
         c # None => c \in Cursors /\ \A k \in DOMAIN got : \A t \in got[k] : ~ Before(q, c, t),
         \A j, k \in DOMAIN got : j < k => \A t \in got[j], u \in got[k] : Before(q, t, u),
         \A t \in base' :
           Selects(q, t) /\ (After(q, t, c) \/ \E k \in DOMAIN got : OnPage(q, t, got[k]))
  PROVE  /\ got' \in Seq(SUBSET Trades)
         /\ ScanInv'
         /\ ScanInOrder'
<1>1. PICK P \in SUBSET Trades : PageIs(q, c, P)
  BY PageRead
<1> DEFINE n == Len(got)
<1>2. got \in Seq(SUBSET Trades) /\ n \in Nat
  BY DEF TypeInv
<1>3. DOMAIN got = 1 .. n
  BY <1>2
<1>4. /\ got' \in Seq(SUBSET Trades)
      /\ Len(got') = n + 1
      /\ \A k \in 1 .. n : got'[k] = got[k]
      /\ got'[n + 1] = P
  BY <1>1, <1>2, AppendFacts DEF PageIs
<1>5. DOMAIN got' = 1 .. (n + 1)
  BY <1>4
<1> HIDE DEF n
<1>6. \A k \in DOMAIN got' : k \in 1 .. n \/ k = n + 1
  BY <1>2, <1>5
<1>7. ASSUME NEW k \in 1 .. n, NEW t \in got[k]
      PROVE  c \in Cursors /\ ~ Before(q, c, t) /\ Placed(t) /\ Placed(c)
  <2>1. c # None
    <3>1. got # << >>
      <4>1. Len(<< >>) = 0
        OBVIOUS
      <4>2. Len(got) # 0
        BY <1>2, <1>7 DEF n
      <4>3. QED
        BY <4>1, <4>2
    <3>2. QED
      BY <3>1
  <2>2. c \in Cursors /\ ~ Before(q, c, t)
    BY <1>3, <1>7, <2>1
  <2>3. Placed(c)
    BY <2>2 DEF Cursors, Placed
  <2>4. got[k] \in SUBSET Trades
    BY <1>2, <1>3, <1>7
  <2>5. QED
    BY <1>7, <2>2, <2>3, <2>4, TradesPlaced
<1>8. ScanInOrder'
  <2>1. SUFFICES ASSUME NEW j \in DOMAIN got', NEW k \in DOMAIN got', j < k,
                        NEW t \in got'[j], NEW u \in got'[k]
                 PROVE  Before(q, t, u)
    BY DEF ScanInOrder
  <2>2. j \in 1 .. n
    BY <1>2, <1>5, <2>1
  <2>3. t \in got[j]
    BY <1>4, <2>1, <2>2
  <2>4. CASE k \in 1 .. n
    BY <1>3, <1>4, <2>1, <2>2, <2>3, <2>4
  <2>5. CASE k = n + 1
    <3>1. u \in Trades /\ After(q, u, c)
      BY <1>1, <1>4, <2>1, <2>5 DEF PageIs
    <3>2. c \in Cursors /\ ~ Before(q, c, t) /\ Placed(t) /\ Placed(c)
      BY <1>7, <2>2, <2>3
    <3>3. Before(q, c, u) /\ Placed(u)
      BY StoreAssumption, <3>1, <3>2, TradesPlaced DEF After, Cursors
    <3>4. QED
      BY <3>2, <3>3, NotAfterThenBefore
  <2>6. QED
    BY <1>6, <2>4, <2>5
<1>9. ASSUME more', NEW k \in DOMAIN got', NEW t \in got'[k]
      PROVE  ~ Before(q, cursor', t)
  <2>1. CASE k \in 1 .. n
    <3>1. c \in Cursors /\ ~ Before(q, c, t) /\ Placed(t) /\ Placed(c)
      BY <1>4, <1>7, <1>9, <2>1
    <3>2. Before(q, c, cursor') /\ cursor' \in Cursors
      BY StoreAssumption, <1>1, <1>9, <3>1 DEF PageIs, After, Cursors
    <3>3. Placed(cursor')
      BY <3>2 DEF Cursors, Placed
    <3>4. Before(q, t, cursor')
      BY <3>1, <3>2, <3>3, NotAfterThenBefore
    <3>5. QED
      BY <3>1, <3>3, <3>4, BeforeTransitive, NotBeforeItself
  <2>2. CASE k = n + 1
    BY <1>1, <1>4, <1>9, <2>2 DEF PageIs
  <2>3. QED
    BY <1>6, <1>9, <2>1, <2>2
<1>10. ASSUME NEW t \in base'
       PROVE  /\ Selects(q, t)
              /\ \/ \E k \in DOMAIN got' : OnPage(q, t, got'[k])
                 \/ more' /\ Before(q, cursor', t)
  <2>1. Selects(q, t) /\ t \in ticks
    BY <1>10
  <2>2. CASE After(q, t, c)
    <3>1. OnPage(q, t, P) \/ (more' /\ Before(q, cursor', t))
      BY <1>1, <2>1, <2>2 DEF PageIs
    <3>2. n + 1 \in DOMAIN got'
      BY <1>2, <1>5
    <3>3. QED
      BY <1>4, <2>1, <3>1, <3>2
  <2>3. CASE \E k \in DOMAIN got : OnPage(q, t, got[k])
    <3>1. PICK k \in DOMAIN got : OnPage(q, t, got[k])
      BY <2>3
    <3>2. k \in DOMAIN got' /\ got'[k] = got[k]
      BY <1>2, <1>3, <1>4, <1>5
    <3>3. QED
      BY <2>1, <3>1, <3>2
  <2>4. QED
    BY <1>10, <2>2, <2>3
<1>11. more' => cursor' \in Cursors
  BY <1>1 DEF PageIs
<1>12. query' # None
  BY StoreAssumption
<1>13. ScanInv'
  BY <1>9, <1>10, <1>11, <1>12 DEF ScanInv, Given
<1>14. QED
  BY <1>4, <1>8, <1>13

LEMMA ScanInit == Init => ScanIInv
<1>1. SUFFICES ASSUME Init PROVE ScanIInv
  OBVIOUS
<1>2. now \in Times /\ raw \in [Times -> Nat] /\ got \in Seq(SUBSET Trades)
  BY StoreAssumption, <1>1 DEF Init, Times
<1>3. IsFiniteSet(ticks)
  BY <1>1, FS_EmptySet DEF Init
<1>4. TypeInv
  BY <1>1, <1>2, <1>3 DEF Init, TypeInv
<1>5. DOMAIN got = {}
  BY <1>1 DEF Init
<1>6. ScanInv /\ ScanInOrder
  BY <1>1, <1>5 DEF Init, ScanInv, ScanInOrder
<1>7. QED
  BY <1>4, <1>6 DEF ScanIInv

(* The new page is the only step that touches what has been given out. *)
LEMMA ScanUnchanged ==
  ASSUME ScanInv, ScanInOrder, UNCHANGED scanVars,
         base' \subseteq base, base' \subseteq ticks'
  PROVE  ScanInv' /\ ScanInOrder'
<1>1. ScanInOrder'
  BY DEF scanVars, ScanInOrder
<1>2. \A t : Given(t)' <=> Given(t)
  BY DEF scanVars, Given
<1>3. \A t \in base' : t \in base
  OBVIOUS
<1>4. ScanInv'
  BY <1>2, <1>3 DEF scanVars, ScanInv
<1>5. QED
  BY <1>1, <1>4

LEMMA ScanStep == ScanIInv /\ [Next]_vars => ScanIInv'
<1>1. SUFFICES ASSUME ScanIInv, [Next]_vars PROVE ScanIInv'
  OBVIOUS
<1>2. TypeInv /\ ScanInv /\ ScanInOrder
  BY <1>1 DEF ScanIInv
<1>3. base \subseteq ticks
  BY <1>2 DEF ScanInv
<1>4. Cardinality(ticks) \in Nat /\ Rows(raw) \in Nat
  BY <1>2, LiveNat
<1>5. ASSUME NEW t \in Trades, AppendTick(t) PROVE ScanIInv'
  <2>1. IsFiniteSet(ticks') /\ Cardinality(ticks') \in Nat
    BY <1>2, <1>5, FS_AddElement, FS_CardinalityType DEF AppendTick, TypeInv
  <2>2. Cardinality(ticks') + Rows(raw) \in Nat /\ pages \in Nat
    BY <1>2, <1>4, <2>1 DEF TypeInv
  <2>3. pages' \in Nat
    <3>1. pages' = Max({pages, Cardinality(ticks') + Rows(raw)})
      BY <1>5 DEF AppendTick
    <3>2. QED
      BY <2>2, <3>1, MaxPair
  <2>4. TypeInv'
    BY <1>2, <1>5, <2>1, <2>3 DEF AppendTick, TypeInv, scanVars, janVars
  <2>5. base' \subseteq base /\ base' \subseteq ticks' /\ UNCHANGED scanVars
    BY <1>3, <1>5 DEF AppendTick
  <2>6. QED
    BY <1>2, <2>4, <2>5, ScanUnchanged DEF ScanIInv
<1>6. CASE AppendRaw
  <2>1. raw' \in [Times -> Nat]
    BY <1>2, <1>6 DEF AppendRaw, TypeInv
  <2>2. Cardinality(ticks) + Rows(raw') \in Nat /\ pages \in Nat
    BY <1>2, <1>4, <2>1, RowsNat DEF TypeInv
  <2>3. pages' \in Nat
    <3>1. pages' = Max({pages, Cardinality(ticks) + Rows(raw')})
      BY <1>6 DEF AppendRaw
    <3>2. QED
      BY <2>2, <3>1, MaxPair
  <2>4. TypeInv'
    BY <1>2, <1>6, <2>1, <2>3 DEF AppendRaw, TypeInv, scanVars, janVars
  <2>5. base' \subseteq base /\ base' \subseteq ticks' /\ UNCHANGED scanVars
    BY <1>3, <1>6 DEF AppendRaw
  <2>6. QED
    BY <1>2, <2>4, <2>5, ScanUnchanged DEF ScanIInv
<1>7. CASE Tick
  <2>1. now' \in Times
    BY StoreAssumption, <1>2, <1>7 DEF Tick, TypeInv, Times
  <2>2. TypeInv'
    BY <1>2, <1>7, <2>1 DEF Tick, TypeInv, tables, scanVars, janVars
  <2>3. base' \subseteq base /\ base' \subseteq ticks' /\ UNCHANGED scanVars
    BY <1>3, <1>7 DEF Tick, tables
  <2>4. QED
    BY <1>2, <2>2, <2>3, ScanUnchanged DEF ScanIInv
<1>8. ASSUME NEW q \in Queries, FirstPage(q) PROVE ScanIInv'
  <2>1. got = << >>
    BY <1>2, <1>8 DEF FirstPage, ScanInv
  <2>2. DOMAIN got = {}
    BY <2>1
  <2>3. \A t \in base' : t \in ticks /\ Selects(q, t) /\ After(q, t, None)
    BY <1>8 DEF FirstPage, After
  <2>4. ReadPage(q, None) /\ query' = q /\ UNCHANGED ticks
    BY <1>8 DEF FirstPage, tables
  <2>5. got' \in Seq(SUBSET Trades) /\ ScanInv' /\ ScanInOrder'
    BY <1>2, <2>1, <2>2, <2>3, <2>4, PageStep
  <2>6. TypeInv'
    BY <1>2, <1>8, <2>5 DEF FirstPage, TypeInv, tables, janVars
  <2>7. QED
    BY <2>5, <2>6 DEF ScanIInv
<1>9. CASE NextPage
  <2>1. query # None /\ more /\ ReadPage(query, cursor) /\ query' = query
    BY <1>9 DEF NextPage
  <2>2. query \in Queries
    BY <1>2, <2>1 DEF TypeInv
  <2>3. cursor \in Cursors /\ \A k \in DOMAIN got : \A t \in got[k] : ~ Before(query, cursor, t)
    BY <1>2, <2>1 DEF ScanInv
  <2>4. cursor # None
    BY StoreAssumption, <2>3 DEF Cursors
  <2>5. UNCHANGED ticks /\ base' = base /\ base' \subseteq ticks
    BY <1>3, <1>9 DEF NextPage, tables
  <2>6. \A t \in base' :
          /\ Selects(query, t)
          /\ After(query, t, cursor) \/ \E k \in DOMAIN got : OnPage(query, t, got[k])
    BY <1>2, <2>1, <2>5 DEF ScanInv, After, Given
  <2>7. \A j, k \in DOMAIN got :
          j < k => \A t \in got[j], u \in got[k] : Before(query, t, u)
    BY <1>2 DEF ScanInOrder
  <2>8. got' \in Seq(SUBSET Trades) /\ ScanInv' /\ ScanInOrder'
    BY <1>2, <2>1, <2>2, <2>3, <2>4, <2>5, <2>6, <2>7, PageStep
  <2>9. TypeInv'
    BY <1>2, <1>9, <2>8 DEF NextPage, TypeInv, tables, janVars
  <2>10. QED
    BY <2>8, <2>9 DEF ScanIInv
<1>10. ASSUME NEW D, D \subseteq ticks, Delete(D) PROVE ScanIInv'
  <2>1. IsFiniteSet(ticks') /\ ticks' \subseteq Trades
    BY <1>2, <1>10, FS_Subset DEF Delete, TypeInv
  <2>2. Cardinality(D) \in Nat
    BY <1>2, <1>10, FS_Subset, FS_CardinalityType DEF TypeInv
  <2>3. gone' \in Nat
    BY <1>2, <1>10, <2>2 DEF Delete, TypeInv
  <2>4. TypeInv'
    BY <1>2, <1>10, <2>1, <2>3 DEF Delete, TypeInv, scanVars
  <2>5. base' \subseteq base /\ base' \subseteq ticks' /\ UNCHANGED scanVars
    BY <1>3, <1>10 DEF Delete
  <2>6. QED
    BY <1>2, <2>4, <2>5, ScanUnchanged DEF ScanIInv
<1>11. CASE PruneTicks
  BY <1>10, <1>11 DEF PruneTicks
<1>12. CASE DropDay
  BY <1>10, <1>12 DEF DropDay
<1>13. CASE PruneRaw
  <2>1. raw' \in [Times -> Nat]
    BY <1>2, <1>13 DEF PruneRaw, TypeInv
  <2>2. gone' \in Nat
    <3>1. raw \in [Times -> Nat] /\ \A t \in Times : raw'[t] <= raw[t]
      BY <1>2, <1>13 DEF PruneRaw, TypeInv
    <3>2. Rows(raw') \in Nat /\ Rows(raw') <= Rows(raw)
      BY <2>1, <3>1, RowsNat, RowsLess
    <3>3. QED
      BY <1>4, <1>13, <3>2 DEF PruneRaw
  <2>3. TypeInv'
    BY <1>2, <1>13, <2>1, <2>2 DEF PruneRaw, TypeInv, scanVars
  <2>4. base' \subseteq base /\ base' \subseteq ticks' /\ UNCHANGED scanVars
    BY <1>3, <1>13 DEF PruneRaw
  <2>5. QED
    BY <1>2, <2>3, <2>4, ScanUnchanged DEF ScanIInv
<1>14. CASE PruneVacuum \/ Shrink
  <2>1. /\ UNCHANGED <<now, ticks, raw, cfg, scanVars, base>>
        /\ IncrementalVacuum
    BY <1>14 DEF PruneVacuum, Shrink
  <2>2. pages' \in Nat /\ gone' = 0
    BY <1>2, <2>1, LiveNat DEF IncrementalVacuum, TypeInv
  <2>3. TypeInv'
    BY <1>2, <2>1, <2>2 DEF TypeInv, scanVars
  <2>4. base' \subseteq base /\ base' \subseteq ticks' /\ UNCHANGED scanVars
    BY <1>3, <2>1
  <2>5. QED
    BY <1>2, <2>3, <2>4, ScanUnchanged DEF ScanIInv
<1>15. CASE Once \/ CheckSize \/ OldestDay \/ PassFails
  <2>1. UNCHANGED <<now, tables, cfg, scanVars, base>> /\ gone' \in {gone, 0}
    BY <1>15 DEF Once, CheckSize, OldestDay, PassFails
  <2>2. TypeInv'
    BY <1>2, <2>1 DEF TypeInv, tables, scanVars
  <2>3. base' \subseteq base /\ base' \subseteq ticks' /\ UNCHANGED scanVars
    BY <1>3, <2>1 DEF tables
  <2>4. QED
    BY <1>2, <2>2, <2>3, ScanUnchanged DEF ScanIInv
<1>16. CASE Restart
  <2>1. pages' \in Nat /\ gone' = 0
    BY <1>2, <1>16, LiveNat DEF Restart, TypeInv
  <2>2. got' = << >> /\ DOMAIN got' = {} /\ got' \in Seq(SUBSET Trades)
    BY <1>16 DEF Restart
  <2>3. query' = None /\ more' = FALSE /\ base' = {}
    BY <1>16 DEF Restart
  <2>4. TypeInv'
    BY <1>2, <1>16, <2>1, <2>2, <2>3 DEF Restart, TypeInv
  <2>5. ScanInv' /\ ScanInOrder'
    BY <2>2, <2>3 DEF ScanInv, ScanInOrder
  <2>6. QED
    BY <2>4, <2>5 DEF ScanIInv
<1>17. CASE UNCHANGED vars
  <2>1. TypeInv'
    BY <1>2, <1>17 DEF vars, TypeInv, tables, scanVars, janVars
  <2>2. base' \subseteq base /\ base' \subseteq ticks' /\ UNCHANGED scanVars
    BY <1>3, <1>17 DEF vars, tables
  <2>3. QED
    BY <1>2, <2>1, <2>2, ScanUnchanged DEF ScanIInv
<1>18. QED
  BY <1>1, <1>5, <1>6, <1>7, <1>8, <1>9, <1>11, <1>12, <1>13, <1>14, <1>15, <1>16, <1>17
  DEF Next

(* DB.Ticks, page by page: whatever is appended, pruned or appended again  *)
(* between two pages, by whatever query and limit, no row comes twice or   *)
(* out of order, and none that stays in the table is skipped, but for the  *)
(* twin of another instrument's row in a scan over all of them.            *)
THEOREM ScanExactHolds == Spec => []ScanExact
<1>1. ScanIInv => ScanExact
  BY DEF ScanIInv, ScanInv, ScanExact, ScanMissesNothing, Given, OnPage, Tied
<1>2. QED
  BY <1>1, ScanInit, ScanStep, PTL DEF Spec

-----------------------------------------------------------------------------
(* The size.  Where the janitor takes a day its deletions have all been    *)
(* vacuumed, so that the pages it found over the cap are rows.             *)

SizeInv ==
  /\ jan \in {"idle", "raw", "size", "day", "drop"} => gone = 0
  /\ vacuums /\ ~ missed => pages <= Live + gone
  /\ jan \in {"day", "drop"} /\ vacuums /\ ~ missed => Live > cfg.MaxBytes

LEMMA StillWithin ==
  ASSUME NEW p \in Nat, NEW l \in Nat, NEW m \in Nat, NEW g \in Nat, NEW h \in Nat,
         p <= l + g, l + g <= m + h
  PROVE  p <= m + h
  OBVIOUS

LEMMA MoreRows ==
  ASSUME NEW l \in Nat, NEW m \in Nat, NEW g \in Nat, m >= l
  PROVE  l + g <= m + g /\ m <= m + g
  OBVIOUS

LEMMA SizeStep == TypeInv /\ TypeInv' /\ SizeInv /\ [Next]_vars => SizeInv'
<1>1. SUFFICES ASSUME TypeInv, TypeInv', SizeInv, [Next]_vars PROVE SizeInv'
  OBVIOUS
<1>2. /\ Cardinality(ticks) \in Nat /\ Rows(raw) \in Nat /\ Live \in Nat
      /\ Cardinality(ticks') \in Nat /\ Rows(raw') \in Nat /\ Live' \in Nat
  <2>1. IsFiniteSet(ticks') /\ raw' \in [Times -> Nat]
    BY <1>1 DEF TypeInv
  <2>2. Cardinality(ticks') \in Nat /\ Rows(raw') \in Nat
    BY <2>1, FS_CardinalityType, RowsNat
  <2>3. Live' \in Nat
    BY <2>2 DEF Live
  <2>4. QED
    BY <1>1, <2>2, <2>3, LiveNat
<1>3. /\ Live = Cardinality(ticks) + Rows(raw)
      /\ Live' = Cardinality(ticks') + Rows(raw')
  BY DEF Live
<1>4. /\ pages \in Nat /\ gone \in Nat /\ cfg.MaxBytes \in Nat
      /\ pages' \in Nat /\ gone' \in Nat
  BY <1>1, StoreAssumption DEF TypeInv
<1>5. ASSUME Live' >= Live, pages' = Max({pages, Live'}),
             UNCHANGED <<jan, gone, vacuums, missed, cfg>>
      PROVE  SizeInv'
  <2>1. pages' = IF pages >= Live' THEN pages ELSE Live'
    BY <1>2, <1>4, <1>5, MaxPair
  <2>2. ASSUME vacuums, ~ missed PROVE pages' <= Live' + gone'
    <3>1. pages <= Live + gone
      BY <1>1, <2>2 DEF SizeInv
    <3>2. gone' = gone /\ Live + gone <= Live' + gone' /\ Live' <= Live' + gone'
      <4>1. gone' = gone /\ gone \in Nat
        BY <1>4, <1>5
      <4>2. Live \in Nat /\ Live' \in Nat /\ Live' >= Live
        BY <1>2, <1>5
      <4>3. Live + gone <= Live' + gone /\ Live' <= Live' + gone
        BY <4>1, <4>2, MoreRows
      <4>4. QED
        BY <4>1, <4>3
    <3>3. pages <= Live' + gone'
      BY <1>2, <1>4, <3>1, <3>2, StillWithin
    <3>4. QED
      BY <2>1, <3>2, <3>3
  <2>3. QED
    BY <1>1, <1>2, <1>4, <1>5, <2>2 DEF SizeInv
<1>6. ASSUME NEW t \in Trades, AppendTick(t) PROVE SizeInv'
  <2>1. Cardinality(ticks') >= Cardinality(ticks)
    <3>1. ticks' = ticks \cup {t} /\ IsFiniteSet(ticks)
      BY <1>1, <1>6 DEF AppendTick, TypeInv
    <3>2. Cardinality(ticks \cup {t}) = IF t \in ticks THEN Cardinality(ticks)
                                                       ELSE Cardinality(ticks) + 1
      BY <3>1, FS_AddElement
    <3>3. QED
      BY <1>2, <3>1, <3>2
  <2>2. pages' = Max({pages, Live'}) /\ raw' = raw
    BY <1>3, <1>6 DEF AppendTick
  <2>3. Live' >= Live
    BY <1>2, <1>3, <2>1, <2>2
  <2>4. UNCHANGED <<jan, gone, vacuums, missed, cfg>>
    BY <1>6 DEF AppendTick, janVars
  <2>5. QED
    BY <1>5, <2>2, <2>3, <2>4
<1>7. CASE AppendRaw
  <2>1. Rows(raw') = Rows(raw) + 1
    BY <1>1, <1>7, RowsAdd DEF AppendRaw, TypeInv
  <2>2. pages' = Max({pages, Live'}) /\ ticks' = ticks
    BY <1>3, <1>7 DEF AppendRaw
  <2>3. Live' >= Live
    BY <1>2, <1>3, <2>1, <2>2
  <2>4. UNCHANGED <<jan, gone, vacuums, missed, cfg>>
    BY <1>7 DEF AppendRaw, janVars
  <2>5. QED
    BY <1>5, <2>2, <2>3, <2>4
<1>8. ASSUME UNCHANGED <<tables, cfg, janVars, missed>> PROVE SizeInv'
  <2>1. Live' = Live
    BY <1>8 DEF Live, tables
  <2>2. QED
    BY <1>1, <1>8, <2>1 DEF SizeInv, tables, janVars
<1>9. ASSUME NEW q \in Queries, FirstPage(q) PROVE SizeInv'
  BY <1>8, <1>9 DEF FirstPage
<1>10. CASE Tick \/ NextPage \/ UNCHANGED vars
  BY <1>8, <1>10 DEF Tick, NextPage, vars
<1>11. ASSUME NEW D, D \subseteq ticks, Delete(D)
       PROVE  Live' + gone' = Live + gone
  <2>1. ticks' = ticks \ D /\ raw' = raw /\ gone' = gone + Cardinality(D)
    BY <1>11 DEF Delete
  <2>2. ticks \cap D = D
    BY <1>11
  <2>3. Cardinality(ticks') = Cardinality(ticks) - Cardinality(D)
    BY <1>1, <2>1, <2>2, FS_Difference, ZenonT(40) DEF TypeInv
  <2>4. Cardinality(D) \in Nat
    BY <1>1, <1>11, FS_Subset, FS_CardinalityType DEF TypeInv
  <2>5. QED
    BY <1>2, <1>3, <1>4, <2>1, <2>3, <2>4
<1>12. CASE PruneTicks
  <2>1. Live' + gone' = Live + gone /\ UNCHANGED <<pages, vacuums, missed>>
    BY <1>11, <1>12 DEF PruneTicks, Delete
  <2>2. /\ jan' = IF gone' > 0 THEN "vacuum" ELSE SizeNext
        /\ SizeNext \in {"size", "idle"}
    BY <1>12 DEF PruneTicks, GoTo, SizeNext
  <2>3. QED
    BY <1>1, <1>4, <2>1, <2>2 DEF SizeInv
<1>13. CASE DropDay
  <2>1. Live' + gone' = Live + gone /\ UNCHANGED <<pages, vacuums, missed>>
    BY <1>11, <1>13 DEF DropDay, Delete
  <2>2. jan' = "shrink"
    BY <1>13 DEF DropDay, GoTo
  <2>3. QED
    BY <1>1, <1>4, <2>1, <2>2 DEF SizeInv
<1>14. CASE PruneRaw
  <2>1. jan = "raw" /\ jan' = "ticks" /\ gone = 0
    BY <1>1, <1>14 DEF PruneRaw, GoTo, SizeInv
  <2>2. gone' = Rows(raw) - Rows(raw') /\ UNCHANGED <<ticks, pages, vacuums, missed>>
    BY <1>14 DEF PruneRaw
  <2>3. Live' + gone' = Live
    BY <1>2, <1>3, <2>2
  <2>4. vacuums /\ ~ missed => pages <= Live' + gone'
    <3>1. vacuums /\ ~ missed => pages <= Live + gone
      BY <1>1 DEF SizeInv
    <3>2. pages <= Live + gone => pages <= Live' + gone'
      <4>1. Live + gone <= Live' + gone'
        <5>1. Live \in Nat
          BY <1>2
        <5>2. Live + gone = Live
          BY <2>1, <5>1
        <5>3. QED
          BY <2>3, <5>1, <5>2
      <4>2. QED
        BY <1>2, <1>4, <4>1, StillWithin
    <3>3. QED
      BY <3>1, <3>2
  <2>5. QED
    BY <1>1, <2>1, <2>2, <2>4 DEF SizeInv
<1>15. CASE PruneVacuum \/ Shrink
  <2>1. /\ jan' \in {"size", "idle"}
        /\ gone' = 0
        /\ pages' = IF vacuums THEN Live ELSE pages
        /\ UNCHANGED <<ticks, raw, vacuums>>
    BY <1>15 DEF PruneVacuum, Shrink, GoTo, IncrementalVacuum, SizeNext
  <2>2. Live' = Live
    BY <2>1 DEF Live
  <2>3. vacuums' => pages' <= Live' + gone'
    BY <1>2, <2>1, <2>2
  <2>4. QED
    BY <1>1, <2>1, <2>3 DEF SizeInv
<1>16. CASE Once
  <2>1. jan = "idle" /\ jan' \in {"raw", "size"} /\ UNCHANGED <<tables, gone, missed>>
    BY <1>16 DEF Once, GoTo
  <2>2. Live' = Live
    BY <2>1 DEF Live, tables
  <2>3. QED
    BY <1>1, <2>1, <2>2 DEF SizeInv, tables
<1>17. CASE CheckSize
  <2>1. /\ jan = "size" /\ jan' \in {"day", "idle"} /\ UNCHANGED <<tables, cfg, gone, missed>>
        /\ jan' = "day" => pages > cfg.MaxBytes
    BY <1>17 DEF CheckSize, GoTo
  <2>2. Live' = Live /\ gone = 0
    BY <1>1, <2>1 DEF Live, tables, SizeInv
  <2>3. jan' = "day" /\ vacuums /\ ~ missed => Live > cfg.MaxBytes
    BY <1>1, <1>2, <1>4, <2>1, <2>2 DEF SizeInv
  <2>4. QED
    BY <1>1, <2>1, <2>2, <2>3 DEF SizeInv, tables
<1>18. CASE OldestDay
  <2>1. jan = "day" /\ jan' \in {"drop", "idle"} /\ UNCHANGED <<tables, cfg, gone, missed>>
    BY <1>18 DEF OldestDay, GoTo
  <2>2. Live' = Live
    BY <2>1 DEF Live, tables
  <2>3. QED
    BY <1>1, <2>1, <2>2 DEF SizeInv, tables
<1>19. ASSUME jan' = "idle", gone' = 0, missed' = (missed \/ gone > 0),
              UNCHANGED <<ticks, raw, pages, vacuums>>
       PROVE  SizeInv'
  <2>1. Live' = Live
    BY <1>19 DEF Live
  <2>2. missed' <=> missed \/ gone > 0
    BY <1>19, Zenon
  <2>3. vacuums /\ ~ missed' => pages <= Live
    BY <1>1, <1>2, <1>4, <2>2 DEF SizeInv
  <2>4. QED
    BY <1>1, <1>2, <1>4, <1>19, <2>1, <2>3 DEF SizeInv
<1>20. CASE PassFails
  BY <1>19, <1>20 DEF PassFails, GoTo, tables
<1>21. CASE Restart
  <2>1. jan' = "idle" /\ gone' = 0 /\ UNCHANGED <<ticks, raw>>
    BY <1>21 DEF Restart, GoTo
  <2>2. CASE UNCHANGED <<pages, vacuums>> /\ missed' = (missed \/ gone > 0)
    BY <1>19, <2>1, <2>2
  <2>3. CASE pages' = Live
    <3>1. Live' = Live
      BY <2>1 DEF Live
    <3>2. pages' <= Live' + gone'
      BY <1>2, <2>1, <2>3, <3>1
    <3>3. QED
      BY <1>1, <2>1, <3>2 DEF SizeInv
  <2>4. QED
    BY <1>21, <2>2, <2>3 DEF Restart
<1>22. QED
  BY <1>1, <1>6, <1>7, <1>9, <1>10, <1>12, <1>13, <1>14, <1>15, <1>16, <1>17, <1>18, <1>20, <1>21
  DEF Next

(* PruneToSize, whatever the appends between its statements: a day goes    *)
(* only while the rows themselves are over the cap, unless a pass ended    *)
(* between a deletion and its vacuum or the file cannot be vacuumed.       *)
THEOREM SizeCostsNoMoreHolds == Spec => SizeCostsNoMore
<1>1. Init => SizeInv
  <2>1. SUFFICES ASSUME Init PROVE SizeInv
    OBVIOUS
  <2>2. TypeInv
    BY <2>1, ScanInit DEF ScanIInv
  <2>3. Live \in Nat
    BY <2>2, LiveNat
  <2>4. QED
    BY <2>1, <2>3 DEF Init, SizeInv
<1>2. ScanIInv /\ SizeInv /\ [Next]_vars => ScanIInv' /\ SizeInv'
  BY ScanStep, SizeStep DEF ScanIInv
<1>3. SizeInv =>
        [jan = "drop" /\ ticks \ ticks' # {} => Live > cfg.MaxBytes \/ ~ vacuums \/ missed]_vars
  BY DEF SizeInv
<1>4. QED
  BY <1>1, <1>2, <1>3, ScanInit, PTL DEF Spec, SizeCostsNoMore
=============================================================================
