----------------------------- MODULE BusProofs ------------------------------
(***************************************************************************)
(* Theorems about Bus, for any number of subscriptions and instruments,    *)
(* any capacities, policies, filters and bounds.                           *)
(***************************************************************************)
EXTENDS Bus, Lemmas, TLAPS

(* The publisher's local states while it serves one subscription. *)
Holding == {"send", "count", "wait", "evict", "evicted", "recheck", "pend", "wake"}
Serving == Holding \cup {"check"}

(* How the program counters fit the data they guard: who is being served,  *)
(* when there is a tick in hand, and that only coalescing subscriptions    *)
(* use the pending map and the loop, and only the others are sent to.      *)
Shape ==
  /\ pc \in Serving <=> tgt # None
  /\ pc \in Holding => todo # << >>
  /\ pc \in {"pend", "wake"} => Policy[tgt] = "coalesce"
  /\ pc \in {"send", "count", "wait", "evict", "evicted", "recheck"} => Policy[tgt] # "coalesce"
  /\ tgt \notin rest
  /\ pc = "idle" => batch = << >>
  /\ \A h \in Handles :
       /\ Len(carry[h]) = (IF loop[h] = "send" THEN 1 ELSE 0)
       /\ h \notin made => loop[h] = "off"
       /\ Policy[h] # "coalesce" =>
            /\ loop[h] = "off"
            /\ \A i \in Instruments : pending[h][i] = 0

TypeInv == TypeOK /\ Shape

LEMMA UpdateFacts ==
  ASSUME NEW f \in [Handles -> [Instruments -> Nat]],
         NEW h \in Handles, NEW i \in Instruments, NEW n \in Nat
  PROVE  /\ [f EXCEPT ![h][i] = n] \in [Handles -> [Instruments -> Nat]]
         /\ [f EXCEPT ![h][i] = n][h][i] = n
         /\ \A g \in Handles, j \in Instruments :
              g # h \/ j # i => [f EXCEPT ![h][i] = n][g][j] = f[g][j]
  OBVIOUS

LEMMA PushType ==
  ASSUME QueueOK, NEW h \in Handles, NEW t \in Tick, ~Full(h), Push(h, t)
  PROVE  /\ QueueOK'
         /\ out'[h] = Append(out[h], t)
         /\ \A g \in Handles : g # h => out'[g] = out[g]
<1>1. out[h] \in Seq(Tick) /\ Len(out[h]) \in Nat /\ Capacity[h] \in Nat
  BY BusAssumption DEF QueueOK
<1>2. Append(out[h], t) \in Seq(Tick) /\ Len(Append(out[h], t)) <= Capacity[h]
  BY <1>1, AppendFacts DEF Full
<1>3. QED
  BY <1>2 DEF QueueOK, Push

LEMMA PopType ==
  ASSUME QueueOK, NEW h \in Handles, out[h] # << >>, Pop(h)
  PROVE  /\ QueueOK'
         /\ out'[h] = Tail(out[h])
         /\ \A g \in Handles : g # h => out'[g] = out[g]
<1>1. out[h] \in Seq(Tick) /\ Capacity[h] \in Nat /\ Len(out[h]) <= Capacity[h]
  BY BusAssumption DEF QueueOK
<1>2. Tail(out[h]) \in Seq(Tick) /\ Len(Tail(out[h])) <= Capacity[h]
  BY <1>1, TailFacts
<1>3. QED
  BY <1>2 DEF QueueOK, Pop

LEMMA QueueSame == QueueOK /\ out' = out => QueueOK'
  BY DEF QueueOK

LEMMA EvictType ==
  ASSUME TypeInv, Evict
  PROVE  QueueOK'
<1>1. QueueOK /\ tgt \in Handles
  <2>1. QueueOK /\ tgt \in Handles \cup {None}
    BY DEF TypeInv, TypeOK
  <2>2. pc = "evict" /\ (pc \in Serving <=> tgt # None)
    BY DEF TypeInv, Shape, Evict
  <2>3. QED
    BY <2>1, <2>2 DEF Serving, Holding
<1>2. CASE out[tgt] # << >> /\ Pop(tgt)
  BY <1>1, <1>2, PopType
<1>3. CASE UNCHANGED out
  BY <1>1, <1>3, QueueSame
<1>4. QED
  BY <1>2, <1>3 DEF Evict

LEMMA TypeInit == Init => TypeInv
<1> SUFFICES ASSUME Init PROVE TypeInv
  OBVIOUS
<1> USE BusAssumption DEF Init
<1>1. QueueOK
  BY DEF QueueOK
<1>a. /\ pending \in [Handles -> [Instruments -> Nat]]
      /\ last \in [Handles -> [Instruments -> Nat]]
      /\ newest \in [Handles -> [Instruments -> Nat]]
  OBVIOUS
<1>b. /\ done \in [Handles -> BOOLEAN]
      /\ wake \in [Handles -> BOOLEAN]
      /\ reading \in [Handles -> BOOLEAN]
      /\ cancelled \in BOOLEAN /\ closed \in BOOLEAN
  BY Zenon
<1>c. /\ next \in [Instruments -> Nat]
      /\ delivered \in [Handles -> Nat] /\ dropped \in [Handles -> Nat]
      /\ coalesced \in [Handles -> Nat] /\ got \in [Handles -> Nat]
      /\ offered \in [Handles -> Nat]
  OBVIOUS
<1>d. /\ batch \in Seq(Tick) /\ todo \in Seq(Tick)
      /\ carry \in [Handles -> Seq(Tick)]
  OBVIOUS
<1>e. loop \in [Handles -> LoopStates] /\ pc \in PubStates
  BY DEF LoopStates, PubStates
<1>2. TypeOK
  BY <1>1, <1>a, <1>b, <1>c, <1>d, <1>e DEF TypeOK
<1>3. Shape
  BY SMTT(30) DEF Shape, Holding, Serving
<1>4. QED
  BY <1>2, <1>3 DEF TypeInv

LEMMA TypeStep == TypeInv /\ [Next]_vars => TypeInv'
<1> SUFFICES ASSUME TypeInv, [Next]_vars PROVE TypeInv'
  OBVIOUS
<1> USE BusAssumption, QueueSame DEF TypeInv, TypeOK, Shape, PubStates, LoopStates,
        Holding, Serving, pubVars, regVars, loopVars, coalVars, statVars,
        readVars, offerVars, Policies
<1>1. ASSUME NEW i \in Instruments, Assign(i) PROVE TypeInv'
  <2>0. [inst |-> i, seq |-> next[i] + 1] \in Tick
    BY DEF Tick
  <2>1. TypeOK'
    BY <1>1, <2>0, AppendFacts, SMTT(30) DEF Assign
  <2>2. Shape'
    BY <1>1 DEF Assign
  <2> QED
    BY <2>1, <2>2
<1>2. CASE Publish
  BY <1>2 DEF Publish
<1>3. ASSUME NEW h \in Handles, NextTarget(h) PROVE TypeInv'
  BY <1>3 DEF NextTarget
<1>4. CASE PublishReturns
  <2>1. TypeOK'
    BY <1>4 DEF PublishReturns
  <2>2. Shape'
    BY <1>4 DEF PublishReturns
  <2> QED
    BY <2>1, <2>2
<1>5. CASE PumpStops
  BY <1>5 DEF PumpStops
<1>6. CASE TargetServed
  BY <1>6 DEF TargetServed
<1>7. CASE Skip
  BY <1>7, TailFacts, SMTT(30) DEF Skip, Return
<1>8. CASE Deliver
  <2>0. Head(todo) \in Tick /\ Head(todo).inst \in Instruments /\ Head(todo).seq \in Nat
    BY <1>8, TailFacts DEF Deliver, Tick
  <2>1. newest' \in [Handles -> [Instruments -> Nat]]
    BY <1>8, <2>0, UpdateFacts DEF Deliver
  <2>2. offered' \in [Handles -> Nat]
    BY <1>8 DEF Deliver
  <2>3. TypeOK'
    BY <1>8, <2>1, <2>2 DEF Deliver, Goto
  <2>4. Shape'
    BY <1>8, TailFacts DEF Deliver, Goto
  <2> QED
    BY <2>3, <2>4
<1>9. CASE TrySend
  <2>0. tgt \in Handles /\ Head(todo) \in Tick
    BY <1>9, TailFacts DEF TrySend
  <2>1. QueueOK'
    BY <1>9, <2>0, PushType DEF TrySend
  <2>2. TypeOK'
    BY <1>9, <2>1 DEF TrySend, Goto
  <2>3. Shape'
    BY <1>9 DEF TrySend, Goto
  <2> QED
    BY <2>2, <2>3
<1>10. CASE CountSent
  <2>a. todo' \in Seq(Tick)
    BY <1>10, TailFacts DEF CountSent, Return
  <2>b. delivered' \in [Handles -> Nat]
    BY <1>10 DEF CountSent
  <2>1. TypeOK'
    BY <1>10, <2>a, <2>b DEF CountSent, Return
  <2>2. Shape'
    BY <1>10, TailFacts DEF CountSent, Return
  <2> QED
    BY <2>1, <2>2
<1>11. CASE DropNewest
  <2>a. todo' \in Seq(Tick)
    BY <1>11, TailFacts DEF DropNewest, Return
  <2>b. dropped' \in [Handles -> Nat]
    BY <1>11 DEF DropNewest
  <2>1. TypeOK'
    BY <1>11, <2>a, <2>b DEF DropNewest, Return
  <2>2. Shape'
    BY <1>11, TailFacts DEF DropNewest, Return
  <2> QED
    BY <2>1, <2>2
<1>12. CASE BlockFull
  BY <1>12 DEF BlockFull, Goto
<1>13. CASE BlockSend
  <2>0. tgt \in Handles /\ Head(todo) \in Tick
    BY <1>13, TailFacts DEF BlockSend
  <2>1. QueueOK'
    BY <1>13, <2>0, PushType DEF BlockSend
  <2>2. TypeOK'
    BY <1>13, <2>1 DEF BlockSend, Goto
  <2>3. Shape'
    BY <1>13 DEF BlockSend, Goto
  <2> QED
    BY <2>2, <2>3
<1>14. CASE BlockDone
  BY <1>14, TailFacts DEF BlockDone, Return
<1>15. CASE BlockCancelled
  BY <1>15 DEF BlockCancelled
<1>16. CASE OldestFull
  BY <1>16 DEF OldestFull, Goto
<1>17. CASE Evict
  <2>0. QueueOK'
    BY <1>17, EvictType
  <2>1. TypeOK'
    BY <1>17, <2>0 DEF Evict, Goto
  <2>2. Shape'
    BY <1>17 DEF Evict, Goto
  <2> QED
    BY <2>1, <2>2
<1>18. CASE OldestRetry
  <2>1. CASE Return
    BY <1>18, <2>1, TailFacts DEF OldestRetry, Return
  <2>2. CASE Goto("send")
    BY <1>18, <2>2 DEF OldestRetry, Goto
  <2> QED
    BY <1>18, <2>1, <2>2 DEF OldestRetry
<1>19. CASE Pend
  <2>0. Head(todo).inst \in Instruments /\ Head(todo).seq \in Nat
    BY <1>19, TailFacts DEF Pend, Tick
  <2>1. pending' \in [Handles -> [Instruments -> Nat]]
    BY <1>19, <2>0, UpdateFacts DEF Pend
  <2>2. coalesced' \in [Handles -> Nat]
    BY <1>19 DEF Pend
  <2>3. TypeOK'
    BY <1>19, <2>1, <2>2 DEF Pend, Goto
  <2>4. \A g \in Handles : g # tgt => pending'[g] = pending[g]
    BY <1>19 DEF Pend
  <2>5. Shape'
    BY <1>19, <2>4 DEF Pend, Goto
  <2> QED
    BY <2>3, <2>5
<1>20. CASE Wake
  BY <1>20, TailFacts DEF Wake, Return
<1>21. CASE Cancel
  BY <1>21 DEF Cancel
<1>22. CASE CloseBus
  BY <1>22 DEF CloseBus
<1>23. ASSUME NEW h \in Handles, Subscribe(h) PROVE TypeInv'
  <2>1. TypeOK'
    BY <1>23 DEF Subscribe
  <2>2. Shape'
    <3>1. \A g \in Handles : loop'[g] = IF g = h /\ Policy[h] = "coalesce" THEN "select" ELSE loop[g]
      BY <1>23 DEF Subscribe
    <3>2. pc' = pc /\ tgt' = tgt /\ todo' = todo /\ rest' = rest /\ batch' = batch
          /\ carry' = carry /\ pending' = pending /\ made' = made \cup {h}
      BY <1>23 DEF Subscribe
    <3>3. loop[h] = "off"
      BY <1>23 DEF Subscribe
    <3> QED
      BY <3>1, <3>2, <3>3
  <2> QED
    BY <2>1, <2>2
<1>24. ASSUME NEW h \in Handles, CloseSub(h) PROVE TypeInv'
  <2>1. /\ subs' \subseteq subs /\ closing' \subseteq closing \cup {h}
        /\ reclosed' \subseteq reclosed \cup {h}
        /\ UNCHANGED <<pubVars, cancelled, closed, made, done, out, coalVars, loopVars,
                       statVars, readVars, offerVars>>
    BY <1>24 DEF CloseSub
  <2>2. QED
    BY <2>1
<1>25. ASSUME NEW h \in Handles, Shutdown(h) PROVE TypeInv'
  BY <1>25 DEF Shutdown
<1>26. ASSUME NEW h \in Handles, LoopWoken(h) PROVE TypeInv'
  BY <1>26 DEF LoopWoken
<1>27. ASSUME NEW h \in Handles, NEW i \in Instruments, LoopTake(h, i) PROVE TypeInv'
  <2>1. pending' \in [Handles -> [Instruments -> Nat]]
    BY <1>27, UpdateFacts DEF LoopTake
  <2>2. [inst |-> i, seq |-> pending[h][i]] \in Tick
    BY DEF Tick
  <2>3. carry' \in [Handles -> Seq(Tick)]
    BY <1>27, <2>2 DEF LoopTake
  <2>4. TypeOK'
    BY <1>27, <2>1, <2>3 DEF LoopTake
  <2>5. \A g \in Handles : g # h => /\ pending'[g] = pending[g]
                                     /\ carry'[g] = carry[g]
                                     /\ loop'[g] = loop[g]
    BY <1>27 DEF LoopTake
  <2>6. Len(carry'[h]) = 1 /\ loop'[h] = "send" /\ Policy[h] = "coalesce" /\ h \in made
    BY <1>27 DEF LoopTake
  <2>7. pc' = pc /\ tgt' = tgt /\ todo' = todo /\ rest' = rest /\ batch' = batch /\ made' = made
    BY <1>27 DEF LoopTake
  <2>8. ASSUME NEW g \in Handles
        PROVE  /\ Len(carry'[g]) = (IF loop'[g] = "send" THEN 1 ELSE 0)
               /\ g \notin made' => loop'[g] = "off"
               /\ Policy[g] # "coalesce" =>
                    loop'[g] = "off" /\ \A j \in Instruments : pending'[g][j] = 0
    <3>1. CASE g = h
      BY <2>6, <2>7, <3>1
    <3>2. CASE g # h
      <4>1. pending'[g] = pending[g] /\ carry'[g] = carry[g] /\ loop'[g] = loop[g] /\ made' = made
        BY <2>5, <2>7, <3>2
      <4>2. /\ Len(carry[g]) = (IF loop[g] = "send" THEN 1 ELSE 0)
            /\ g \notin made => loop[g] = "off"
            /\ Policy[g] # "coalesce" =>
                 loop[g] = "off" /\ \A j \in Instruments : pending[g][j] = 0
        OBVIOUS
      <4> HIDE DEF TypeInv, TypeOK, Shape
      <4> QED
        BY <4>1, <4>2
    <3> QED
      BY <3>1, <3>2
  <2>9. Shape'
    BY <2>7, <2>8
  <2> QED
    BY <2>4, <2>9
<1>28. ASSUME NEW h \in Handles, LoopEmpty(h) PROVE TypeInv'
  BY <1>28 DEF LoopEmpty
<1>29. ASSUME NEW h \in Handles, LoopSend(h) PROVE TypeInv'
  <2>1. carry[h] # << >> /\ Head(carry[h]) \in Tick
    BY <1>29, TailFacts DEF LoopSend
  <2>2. QueueOK'
    BY <1>29, <2>1, PushType DEF LoopSend
  <2>3. TypeOK'
    BY <1>29, <2>2 DEF LoopSend
  <2>4. Shape'
    BY <1>29 DEF LoopSend
  <2> QED
    BY <2>3, <2>4
<1>30. ASSUME NEW h \in Handles, LoopCount(h) PROVE TypeInv'
  <2>0. delivered' \in [Handles -> Nat] /\ loop' \in [Handles -> LoopStates]
    BY <1>30 DEF LoopCount
  <2>1. TypeOK'
    BY <1>30, <2>0 DEF LoopCount
  <2>2. Shape'
    BY <1>30 DEF LoopCount
  <2> QED
    BY <2>1, <2>2
<1>31. ASSUME NEW h \in Handles, LoopExit(h) PROVE TypeInv'
  <2>1. TypeOK'
    BY <1>31, SMTT(30) DEF LoopExit
  <2>2. Shape'
    BY <1>31, ZenonT(40) DEF LoopExit
  <2> QED
    BY <2>1, <2>2
<1>32. ASSUME NEW h \in Handles, Consume(h) PROVE TypeInv'
  <2>1. Head(out[h]) \in Tick /\ Head(out[h]).inst \in Instruments /\ Head(out[h]).seq \in Nat
    BY <1>32, TailFacts DEF Consume, Tick, QueueOK
  <2>2. last' \in [Handles -> [Instruments -> Nat]]
    BY <1>32, <2>1, UpdateFacts, SMTT(30) DEF Consume
  <2>3. QueueOK'
    BY <1>32, PopType DEF Consume
  <2>a. got' \in [Handles -> Nat]
    BY <1>32 DEF Consume
  <2>4. TypeOK'
    BY <1>32, <2>2, <2>3, <2>a DEF Consume
  <2>5. Shape'
    BY <1>32 DEF Consume
  <2> QED
    BY <2>4, <2>5
<1>33. ASSUME NEW h \in Handles, ConsumerStops(h) PROVE TypeInv'
  BY <1>33 DEF ConsumerStops
<1>34. CASE UNCHANGED vars
  BY <1>34 DEF vars
<1>35. CASE CountEvicted
  <2>1. dropped' \in [Handles -> Nat]
    BY <1>35 DEF CountEvicted
  <2>2. TypeOK'
    BY <1>35, <2>1 DEF CountEvicted, Goto
  <2>3. Shape'
    BY <1>35 DEF CountEvicted, Goto
  <2> QED
    BY <2>2, <2>3
<1>36. QED
  BY <1>1, <1>2, <1>3, <1>4, <1>5, <1>6, <1>7, <1>8, <1>9, <1>10, <1>11,
     <1>12, <1>13, <1>14, <1>15, <1>16, <1>17, <1>18, <1>19, <1>20, <1>21,
     <1>22, <1>23, <1>24, <1>25, <1>26, <1>27, <1>28, <1>29, <1>30, <1>31,
     <1>32, <1>33, <1>34, <1>35
  DEF Next, PublishStep, LoopStep

(* Every reachable state of the bus is well typed and keeps each queue     *)
(* within its subscription's capacity.                                     *)
THEOREM TypeCorrect == Spec => []TypeOK
<1>1. TypeInv => TypeOK
  BY DEF TypeInv
<1>2. QED
  BY TypeInit, TypeStep, <1>1, PTL DEF Spec
-----------------------------------------------------------------------------
(* Per-instrument order.  InOrder is not inductive: it does not say that   *)
(* the tick the publisher is about to add is later than all that precede   *)
(* it.  That rests on newest, the number of the newest tick the            *)
(* subscription has been offered: nothing on the line is later than it,    *)
(* and everything the publisher still has to offer is.                     *)

(* One subscription's line: queue o, carried c, pending p, read l, and the *)
(* newest offered n.                                                       *)
LineOK(o, c, p, l, n) ==
  /\ Ordered(o)
  /\ After(o, l)
  /\ UpTo(o, n)
  /\ After(c, l)
  /\ UpTo(c, n)
  /\ \A k \in DOMAIN c : Later(c[k], o)
  /\ \A i \in Instruments :
       /\ l[i] <= n[i]
       /\ p[i] <= n[i]
       /\ p[i] # 0 =>
            /\ l[i] < p[i]
            /\ \A k \in DOMAIN o : o[k].inst = i => o[k].seq < p[i]
            /\ \A k \in DOMAIN c : c[k].inst = i => c[k].seq < p[i]

(* Tick t is later than everything of its instrument on the line. *)
OnTop(t, o, c, p, l) ==
  /\ Later(t, o)
  /\ Later(t, c)
  /\ p[t.inst] < t.seq
  /\ l[t.inst] < t.seq

Lines ==
  \A h \in Handles : LineOK(out[h], carry[h], pending[h], last[h], newest[h])

InHandOnTop ==
  \A h \in Handles :
    InHand(h) => OnTop(Head(todo), out[h], carry[h], pending[h], last[h])

(* What the publisher still has to offer, and the numbers given so far. *)
Offers ==
  /\ Ordered(batch) /\ UpTo(batch, next)
  /\ Ordered(todo) /\ UpTo(todo, next)
  /\ \A h \in Handles, i \in Instruments : newest[h][i] <= next[i]
  /\ pc \in {"idle", "filled"} => \A h \in Handles : After(batch, newest[h])
  /\ pc \in Serving \cup {"target"} => \A h \in rest : After(batch, newest[h])
  /\ pc = "check" => After(todo, newest[tgt])
  /\ pc \in Holding => /\ UpTo(<<Head(todo)>>, newest[tgt])
                       /\ After(Tail(todo), newest[tgt])

OrderInv == TypeInv /\ Lines /\ InHandOnTop /\ Offers

IFun == [Instruments -> Nat]

LEMMA TickFacts ==
  ASSUME NEW s \in Seq(Tick)
  PROVE  /\ DOMAIN s = 1 .. Len(s) /\ Len(s) \in Nat
         /\ \A k \in DOMAIN s : s[k] \in Tick /\ s[k].inst \in Instruments /\ s[k].seq \in Nat
<1>1. \A t \in Tick : t.inst \in Instruments /\ t.seq \in Nat
  BY DEF Tick
<1>2. \A k \in DOMAIN s : s[k] \in Tick
  OBVIOUS
<1>3. QED
  BY <1>1, <1>2

(* The line operations.  The first four are the publisher's, the next      *)
(* three coalesceLoop's, the last the consumer's.                          *)
LEMMA LineOffer ==
  ASSUME NEW o \in Seq(Tick), NEW c \in Seq(Tick), NEW p \in IFun, NEW l \in IFun,
         NEW n \in IFun, NEW t \in Tick, LineOK(o, c, p, l, n), n[t.inst] < t.seq
  PROVE  /\ LineOK(o, c, p, l, [n EXCEPT ![t.inst] = t.seq])
         /\ OnTop(t, o, c, p, l)
<1> DEFINE m == [n EXCEPT ![t.inst] = t.seq]
<1>1. \A i \in Instruments : n[i] <= m[i] /\ m[i] \in Nat
  BY DEF Tick, IFun
<1>2. \A k \in DOMAIN o : o[k] \in Tick /\ o[k].inst \in Instruments /\ o[k].seq \in Nat
  BY TickFacts
<1>3. \A k \in DOMAIN c : c[k] \in Tick /\ c[k].inst \in Instruments /\ c[k].seq \in Nat
  BY TickFacts
<1>4. t.inst \in Instruments /\ t.seq \in Nat
  BY DEF Tick
<1> HIDE DEF m
<1>5. LineOK(o, c, p, l, m)
  BY <1>1, <1>2, <1>3, SMTT(30) DEF LineOK, UpTo, IFun
<1>6. OnTop(t, o, c, p, l)
  BY <1>2, <1>3, <1>4, SMTT(30) DEF LineOK, OnTop, UpTo, Later, IFun
<1>7. QED
  BY <1>5, <1>6 DEF m

LEMMA LinePush ==
  ASSUME NEW o \in Seq(Tick), NEW p \in IFun, NEW l \in IFun,
         NEW n \in IFun, NEW t \in Tick, LineOK(o, << >>, p, l, n),
         \A i \in Instruments : p[i] = 0,
         OnTop(t, o, << >>, p, l), t.seq <= n[t.inst]
  PROVE  LineOK(Append(o, t), << >>, p, l, n)
<1> DEFINE q == Append(o, t)
<1>1. /\ q \in Seq(Tick) /\ Len(q) = Len(o) + 1 /\ Len(o) \in Nat
      /\ \A k \in 1 .. Len(o) : q[k] = o[k]
      /\ q[Len(o) + 1] = t
  BY AppendFacts
<1>2. \A k \in DOMAIN q : q[k] \in Tick /\ q[k].inst \in Instruments /\ q[k].seq \in Nat
  BY <1>1, TickFacts
<1>3. \A k \in DOMAIN q : (k \in DOMAIN o /\ q[k] = o[k]) \/ (k = Len(o) + 1 /\ q[k] = t)
  BY <1>1
<1> HIDE DEF q
<1>4. Ordered(q)
  <2> SUFFICES ASSUME NEW j \in DOMAIN q, NEW k \in DOMAIN q, j < k, q[j].inst = q[k].inst
               PROVE  q[j].seq < q[k].seq
    BY DEF Ordered
  <2>1. j \in DOMAIN o /\ q[j] = o[j]
    BY <1>1, <1>3
  <2>2. QED
    BY <1>3, <2>1 DEF LineOK, OnTop, Ordered, Later
<1>5. After(q, l) /\ UpTo(q, n)
  BY <1>1, <1>2, <1>3 DEF LineOK, OnTop, After, UpTo
<1>6. LineOK(q, << >>, p, l, n)
  BY <1>4, <1>5 DEF LineOK, After, UpTo
<1>7. QED
  BY <1>6 DEF q

LEMMA LinePend ==
  ASSUME NEW o \in Seq(Tick), NEW c \in Seq(Tick), NEW p \in IFun, NEW l \in IFun,
         NEW n \in IFun, NEW t \in Tick, LineOK(o, c, p, l, n),
         OnTop(t, o, c, p, l), t.seq <= n[t.inst]
  PROVE  LineOK(o, c, [p EXCEPT ![t.inst] = t.seq], l, n)
  BY DEF LineOK, OnTop, Later, Tick, IFun

LEMMA LinePop ==
  ASSUME NEW o \in Seq(Tick), NEW c \in Seq(Tick), NEW p \in IFun, NEW l \in IFun,
         NEW n \in IFun, LineOK(o, c, p, l, n), o # << >>
  PROVE  /\ LineOK(Tail(o), c, p, l, n)
         /\ LineOK(Tail(o), c, p, [l EXCEPT ![Head(o).inst] = Head(o).seq], n)
         /\ \A t \in Tick : OnTop(t, o, c, p, l) =>
              /\ OnTop(t, Tail(o), c, p, l)
              /\ OnTop(t, Tail(o), c, p, [l EXCEPT ![Head(o).inst] = Head(o).seq])
<1> DEFINE q == Tail(o)
           m == [l EXCEPT ![Head(o).inst] = Head(o).seq]
<1>1. /\ q \in Seq(Tick) /\ Len(q) = Len(o) - 1 /\ Len(o) \in Nat \ {0}
      /\ \A k \in 1 .. (Len(o) - 1) : q[k] = o[k + 1]
      /\ Head(o) = o[1] /\ o[1] \in Tick
  BY TailFacts
<1>2. \A k \in DOMAIN o : o[k].inst \in Instruments /\ o[k].seq \in Nat
  BY TickFacts
<1>3. \A k \in DOMAIN c : c[k].inst \in Instruments /\ c[k].seq \in Nat
  BY TickFacts
<1>4. \A k \in DOMAIN q : k \in DOMAIN o /\ k + 1 \in DOMAIN o /\ q[k] = o[k + 1] /\ k + 1 > 1
  BY <1>1
<1>5. 1 \in DOMAIN o
  BY <1>1
<1>6. \A i \in Instruments : m[i] = IF i = o[1].inst THEN o[1].seq ELSE l[i]
  BY <1>1, <1>2, <1>5 DEF IFun
<1>7. m \in IFun
  BY <1>1, <1>2, <1>5 DEF IFun
<1> HIDE DEF q, m
<1>8. Ordered(q)
  <2> SUFFICES ASSUME NEW j \in DOMAIN q, NEW k \in DOMAIN q, j < k, q[j].inst = q[k].inst
               PROVE  q[j].seq < q[k].seq
    BY DEF Ordered
  <2>1. j \in Nat /\ k \in Nat
    BY <1>1
  <2>2. QED
    BY <1>4, <2>1 DEF LineOK, Ordered
<1>9. After(q, l) /\ UpTo(q, n)
  BY <1>4 DEF LineOK, After, UpTo
<1>10. After(q, m)
  BY <1>2, <1>4, <1>5, <1>6 DEF LineOK, After, Ordered
<1>11. After(c, m)
  BY <1>2, <1>3, <1>5, <1>6 DEF LineOK, After, Later
<1>12. \A k \in DOMAIN c : Later(c[k], q)
  BY <1>4 DEF LineOK, Later
<1>13. LineOK(q, c, p, l, n)
  BY <1>4, <1>8, <1>9, <1>12 DEF LineOK
<1>14. \A i \in Instruments : m[i] <= n[i] /\ (p[i] # 0 => m[i] < p[i])
  BY <1>2, <1>5, <1>6 DEF LineOK, UpTo
<1>15. LineOK(q, c, p, m, n)
  BY <1>8, <1>9, <1>10, <1>11, <1>12, <1>13, <1>14 DEF LineOK
<1>16. ASSUME NEW t \in Tick, OnTop(t, o, c, p, l)
       PROVE  OnTop(t, q, c, p, l) /\ OnTop(t, q, c, p, m)
  <2>1. t.inst \in Instruments
    BY DEF Tick
  <2>2. Later(t, q)
    BY <1>4, <1>16 DEF OnTop, Later
  <2>3. m[t.inst] < t.seq
    BY <1>5, <1>6, <1>16, <2>1 DEF OnTop, Later
  <2>4. QED
    BY <1>16, <2>2, <2>3 DEF OnTop
<1>17. QED
  BY <1>13, <1>15, <1>16 DEF q, m

LEMMA LineTake ==
  ASSUME NEW o \in Seq(Tick), NEW p \in IFun, NEW l \in IFun, NEW n \in IFun,
         NEW i \in Instruments, p[i] # 0, LineOK(o, << >>, p, l, n)
  PROVE  LET c == <<[inst |-> i, seq |-> p[i]]>>
             q == [p EXCEPT ![i] = 0] IN
         /\ LineOK(o, c, q, l, n)
         /\ \A t \in Tick : OnTop(t, o, << >>, p, l) => OnTop(t, o, c, q, l)
<1> DEFINE c == <<[inst |-> i, seq |-> p[i]]>>
           q == [p EXCEPT ![i] = 0]
<1>1. DOMAIN c = {1} /\ c[1].inst = i /\ c[1].seq = p[i] /\ p[i] \in Nat
  BY DEF IFun
<1>2. q \in IFun /\ q[i] = 0 /\ \A j \in Instruments : j # i => q[j] = p[j]
  BY DEF IFun
<1> HIDE DEF c, q
<1>3. After(c, l) /\ UpTo(c, n) /\ \A k \in DOMAIN c : Later(c[k], o)
  BY <1>1 DEF LineOK, After, UpTo, Later
<1>4. ASSUME NEW j \in Instruments
      PROVE  /\ l[j] <= n[j]
             /\ q[j] <= n[j]
             /\ q[j] # 0 =>
                  /\ l[j] < q[j]
                  /\ \A k \in DOMAIN o : o[k].inst = j => o[k].seq < q[j]
                  /\ \A k \in DOMAIN c : c[k].inst = j => c[k].seq < q[j]
  BY <1>1, <1>2 DEF LineOK, IFun
<1>5. LineOK(o, c, q, l, n)
  BY <1>3, <1>4 DEF LineOK
<1>6. ASSUME NEW t \in Tick, OnTop(t, o, << >>, p, l)
      PROVE  OnTop(t, o, c, q, l)
  <2>1. t.inst \in Instruments /\ t.seq \in Nat
    BY DEF Tick
  <2>2. Later(t, c)
    BY <1>1, <1>6 DEF OnTop, Later
  <2>3. q[t.inst] < t.seq
    <3>1. p[t.inst] < t.seq /\ p[t.inst] \in Nat
      BY <1>6, <2>1 DEF OnTop, IFun
    <3>2. QED
      BY <1>2, <2>1, <3>1
  <2>4. QED
    BY <1>6, <2>2, <2>3 DEF OnTop
<1>7. QED
  BY <1>5, <1>6 DEF c, q

LEMMA LineForward ==
  ASSUME NEW o \in Seq(Tick), NEW c \in Seq(Tick), NEW p \in IFun, NEW l \in IFun,
         NEW n \in IFun, LineOK(o, c, p, l, n), Len(c) = 1
  PROVE  /\ LineOK(Append(o, Head(c)), << >>, p, l, n)
         /\ \A t \in Tick : OnTop(t, o, c, p, l) => OnTop(t, Append(o, Head(c)), << >>, p, l)
<1> DEFINE q == Append(o, Head(c))
<1>1. /\ DOMAIN c = {1} /\ Head(c) = c[1] /\ c[1] \in Tick
      /\ c[1].inst \in Instruments /\ c[1].seq \in Nat
  BY TickFacts
<1>2. /\ q \in Seq(Tick) /\ Len(q) = Len(o) + 1 /\ Len(o) \in Nat
      /\ \A k \in 1 .. Len(o) : q[k] = o[k]
      /\ q[Len(o) + 1] = c[1]
  BY <1>1, AppendFacts
<1>3. \A k \in DOMAIN q : q[k] \in Tick /\ q[k].inst \in Instruments /\ q[k].seq \in Nat
  BY <1>2, TickFacts
<1>4. \A k \in DOMAIN q : (k \in DOMAIN o /\ q[k] = o[k]) \/ (k = Len(o) + 1 /\ q[k] = c[1])
  BY <1>2
<1> HIDE DEF q
<1>5. Ordered(q)
  BY <1>1, <1>2, <1>3, <1>4 DEF LineOK, Ordered, Later
<1>6. After(q, l) /\ UpTo(q, n)
  BY <1>1, <1>4 DEF LineOK, After, UpTo
<1>7. \A i \in Instruments : p[i] # 0 => \A k \in DOMAIN q : q[k].inst = i => q[k].seq < p[i]
  BY <1>1, <1>4 DEF LineOK
<1>8. LineOK(q, << >>, p, l, n)
  BY <1>5, <1>6, <1>7 DEF LineOK, After, UpTo
<1>9. ASSUME NEW t \in Tick, OnTop(t, o, c, p, l)
      PROVE  OnTop(t, q, << >>, p, l)
  BY <1>1, <1>4, <1>9 DEF OnTop, Later
<1>10. QED
  BY <1>8, <1>9 DEF q

LEMMA LineAbandon ==
  ASSUME NEW o, NEW c, NEW p, NEW l, NEW n, LineOK(o, c, p, l, n)
  PROVE  /\ LineOK(o, << >>, p, l, n)
         /\ \A t : OnTop(t, o, c, p, l) => OnTop(t, o, << >>, p, l)
  BY DEF LineOK, OnTop, After, UpTo, Later

LEMMA SeqTail ==
  ASSUME NEW s \in Seq(Tick), s # << >>, NEW f
  PROVE  /\ Ordered(s) => Ordered(Tail(s))
         /\ UpTo(s, f) => UpTo(Tail(s), f)
         /\ After(s, f) => After(Tail(s), f)
<1> DEFINE q == Tail(s)
<1>1. /\ Len(q) = Len(s) - 1 /\ Len(s) \in Nat \ {0} /\ q \in Seq(Tick)
      /\ \A k \in 1 .. (Len(s) - 1) : q[k] = s[k + 1]
  BY TailFacts
<1>2. \A k \in DOMAIN q : k \in Nat /\ k + 1 \in DOMAIN s /\ q[k] = s[k + 1]
  BY <1>1
<1> HIDE DEF q
<1>3. Ordered(s) => Ordered(q)
  BY <1>2 DEF Ordered
<1>4. (UpTo(s, f) => UpTo(q, f)) /\ (After(s, f) => After(q, f))
  BY <1>2 DEF UpTo, After
<1>5. QED
  BY <1>3, <1>4 DEF q

LEMMA OffersReturn ==
  ASSUME TypeInv, Offers, pc \in Serving, todo # << >>,
         After(Tail(todo), newest[tgt]), Return, newest' = newest
  PROVE  Offers'
<1>1. /\ todo \in Seq(Tick)
      /\ todo' = Tail(todo) /\ pc' = "check" /\ next' = next /\ batch' = batch
      /\ rest' = rest /\ tgt' = tgt
  BY DEF TypeInv, TypeOK, Return
<1>2. Ordered(todo') /\ UpTo(todo', next')
  BY <1>1, SeqTail DEF Offers
<1>3. QED
  BY <1>1, <1>2 DEF Offers, Serving, Holding

LEMMA OffersGoto ==
  ASSUME Offers, pc \in Holding, NEW l \in Holding, Goto(l), newest' = newest
  PROVE  Offers'
  BY DEF Offers, Serving, Holding, Goto

(* A step that leaves the line of every subscription alone. *)
LEMMA LinesFrame ==
  ASSUME Lines, UNCHANGED <<out, carry, pending, last, newest>>
  PROVE  Lines'
  BY DEF Lines

LEMMA OrderFrame ==
  ASSUME OrderInv, UNCHANGED <<out, carry, pending, last, newest, pubVars>>
  PROVE  Lines' /\ InHandOnTop' /\ Offers'
<1>1. InHandOnTop'
  BY DEF OrderInv, InHandOnTop, InHand, pubVars
<1>2. Offers'
  BY DEF OrderInv, Offers, pubVars
<1>3. QED
  BY <1>1, <1>2, LinesFrame DEF OrderInv

(* A publisher step that leaves the lines alone and has no tick in hand    *)
(* after it, or the same tick as before it.                                *)
LEMMA HandFrame ==
  ASSUME OrderInv, UNCHANGED <<out, carry, pending, last, newest>>,
         \/ pc' \notin {"send", "wait", "evict", "evicted", "recheck", "pend"}
         \/ /\ pc \in {"send", "wait", "evict", "evicted", "recheck", "pend"}
            /\ tgt' = tgt /\ todo' = todo
  PROVE  InHandOnTop'
  BY DEF OrderInv, InHandOnTop, InHand

LEMMA OrderInit == Init => OrderInv
<1> SUFFICES ASSUME Init PROVE OrderInv
  OBVIOUS
<1>1. Lines
  BY DEF Init, Lines, LineOK, Ordered, After, UpTo, Later
<1>2. InHandOnTop
  BY DEF Init, InHandOnTop, InHand
<1>3. Offers
  BY DEF Init, Offers, Ordered, After, UpTo, Serving, Holding
<1>4. QED
  BY <1>1, <1>2, <1>3, TypeInit DEF OrderInv

(* The types the line lemmas ask for. *)
LEMMA LineTypes ==
  ASSUME TypeInv, NEW h \in Handles
  PROVE  /\ out[h] \in Seq(Tick) /\ carry[h] \in Seq(Tick)
         /\ pending[h] \in IFun /\ last[h] \in IFun /\ newest[h] \in IFun
  BY DEF TypeInv, TypeOK, QueueOK, IFun

(* The served subscription and the tick in hand. *)
LEMMA ServedTypes ==
  ASSUME TypeInv, pc \in Serving, todo # << >>
  PROVE  /\ tgt \in Handles /\ todo \in Seq(Tick) /\ Head(todo) \in Tick
         /\ Head(todo).inst \in Instruments /\ Head(todo).seq \in Nat
         /\ Head(todo) = todo[1] /\ 1 \in DOMAIN todo
<1>1. tgt \in Handles /\ todo \in Seq(Tick)
  BY DEF TypeInv, TypeOK, Shape
<1>2. Head(todo) = todo[1] /\ 1 \in DOMAIN todo
  BY <1>1
<1>3. QED
  BY <1>1, <1>2, TickFacts

(* Steps of the publisher that leave the lines alone. *)
LEMMA OrderPublisherStep ==
  ASSUME OrderInv,
         \/ \E i \in Instruments : Assign(i)
         \/ \E h \in Handles : NextTarget(h)
         \/ Publish \/ PublishReturns \/ PumpStops \/ TargetServed \/ Skip
         \/ CountSent \/ DropNewest \/ BlockFull \/ BlockDone
         \/ BlockCancelled \/ OldestFull \/ CountEvicted \/ OldestRetry \/ Wake
  PROVE  Lines' /\ InHandOnTop' /\ Offers'
<1> USE DEF coalVars, loopVars, readVars, offerVars, Holding, Serving
<1>0. TypeInv /\ Offers /\ Lines
  BY DEF OrderInv
<1>1. ASSUME NEW i \in Instruments, Assign(i) PROVE Lines' /\ InHandOnTop' /\ Offers'
  <2> DEFINE t == [inst |-> i, seq |-> next[i] + 1]
  <2>1. /\ next \in [Instruments -> Nat] /\ batch \in Seq(Tick) /\ todo \in Seq(Tick)
        /\ newest \in [Handles -> [Instruments -> Nat]]
    BY <1>0 DEF TypeInv, TypeOK
  <2>2. t \in Tick /\ t.inst = i /\ t.seq = next[i] + 1
    BY <2>1 DEF Tick
  <2>3. /\ batch' = Append(batch, t) /\ next' = [next EXCEPT ![i] = @ + 1]
        /\ pc' = "filled" /\ pc \in {"idle", "filled"}
        /\ todo' = todo /\ newest' = newest
    BY <1>1 DEF Assign
  <2>4. \A j \in Instruments : next[j] <= next'[j] /\ next'[j] \in Nat /\ next[j] \in Nat
    BY <2>1, <2>3
  <2>5. next'[i] = next[i] + 1
    BY <2>1, <2>3
  <2> HIDE DEF t
  <2>6. /\ Len(batch') = Len(batch) + 1 /\ Len(batch) \in Nat
        /\ \A k \in 1 .. Len(batch) : batch'[k] = batch[k]
        /\ batch'[Len(batch) + 1] = t /\ batch' \in Seq(Tick)
    BY <2>1, <2>2, <2>3, AppendFacts
  <2>7. \A k \in DOMAIN batch' :
          \/ k \in DOMAIN batch /\ batch'[k] = batch[k]
          \/ k = Len(batch) + 1 /\ batch'[k] = t
    BY <2>6
  <2>8. \A k \in DOMAIN batch : batch[k].inst \in Instruments /\ batch[k].seq \in Nat
    BY <2>1, TickFacts
  <2>9. \A k \in DOMAIN todo : todo[k].inst \in Instruments /\ todo[k].seq \in Nat
    BY <2>1, TickFacts
  <2>10. UpTo(batch', next')
    BY <1>0, <2>2, <2>4, <2>5, <2>7, <2>8 DEF Offers, UpTo
  <2>11. Ordered(batch')
    <3> SUFFICES ASSUME NEW j \in DOMAIN batch', NEW k \in DOMAIN batch', j < k,
                        batch'[j].inst = batch'[k].inst
                 PROVE  batch'[j].seq < batch'[k].seq
      BY DEF Ordered
    <3>1. j \in DOMAIN batch /\ batch'[j] = batch[j]
      BY <2>6, <2>7
    <3>2. CASE k \in DOMAIN batch /\ batch'[k] = batch[k]
      BY <1>0, <3>1, <3>2 DEF Offers, Ordered
    <3>3. CASE batch'[k] = t
      BY <1>0, <2>2, <2>4, <2>8, <3>1, <3>3 DEF Offers, UpTo
    <3>4. QED
      BY <2>7, <3>2, <3>3
  <2>12. UpTo(todo', next')
    BY <1>0, <2>3, <2>4, <2>9 DEF Offers, UpTo
  <2>13. ASSUME NEW h \in Handles PROVE After(batch', newest'[h])
    <3>1. After(batch, newest[h]) /\ newest[h][i] <= next[i] /\ newest[h][i] \in Nat
      BY <1>0, <2>1, <2>3 DEF Offers
    <3>2. QED
      BY <2>2, <2>3, <2>4, <2>7, <3>1 DEF After
  <2>14. \A h \in Handles, j \in Instruments : newest'[h][j] <= next'[j]
    <3> TAKE h \in Handles, j \in Instruments
    <3>1. newest[h][j] <= next[j] /\ newest[h][j] \in Nat
      BY <1>0, <2>1 DEF Offers
    <3>2. QED
      BY <2>3, <2>4, <3>1
  <2>15. Offers'
    BY <1>0, <2>3, <2>10, <2>11, <2>12, <2>13, <2>14 DEF Offers
  <2>16. QED
    BY <1>0, <1>1, <2>15, LinesFrame, HandFrame DEF Assign
<1>2. ASSUME NEW h \in Handles, NextTarget(h) PROVE Lines' /\ InHandOnTop' /\ Offers'
  <2>1. Offers'
    BY <1>0, <1>2 DEF NextTarget, Offers
  <2>2. QED
    BY <1>0, <1>2, <2>1, LinesFrame, HandFrame DEF NextTarget
<1>3. CASE Publish
  <2>1. Offers'
    BY <1>0, <1>3 DEF Publish, Offers, TypeInv, TypeOK
  <2>2. QED
    BY <1>0, <1>3, <2>1, LinesFrame, HandFrame DEF Publish
<1>4. CASE PublishReturns
  <2>1. Offers'
    BY <1>0, <1>4 DEF PublishReturns, Offers, Ordered, After, UpTo
  <2>2. QED
    BY <1>0, <1>4, <2>1, LinesFrame, HandFrame DEF PublishReturns
<1>5. CASE PumpStops
  <2>1. Offers'
    BY <1>0, <1>5 DEF PumpStops, Offers
  <2>2. QED
    BY <1>0, <1>5, <2>1, LinesFrame, HandFrame DEF PumpStops
<1>6. CASE TargetServed
  <2>1. Offers'
    BY <1>0, <1>6 DEF TargetServed, Offers
  <2>2. QED
    BY <1>0, <1>6, <2>1, LinesFrame, HandFrame DEF TargetServed
<1>7. CASE Skip
  <2>1. After(Tail(todo), newest[tgt])
    BY <1>0, <1>7, SeqTail DEF Skip, Offers, TypeInv, TypeOK
  <2>2. Offers'
    BY <1>0, <1>7, <2>1, OffersReturn DEF Skip
  <2>3. QED
    BY <1>0, <1>7, <2>2, LinesFrame, HandFrame DEF Skip, Return
<1>8. CASE CountSent
  <2>1. After(Tail(todo), newest[tgt]) /\ todo # << >>
    BY <1>0, <1>8 DEF CountSent, Offers, TypeInv, Shape
  <2>2. Offers'
    BY <1>0, <1>8, <2>1, OffersReturn DEF CountSent
  <2>3. QED
    BY <1>0, <1>8, <2>2, LinesFrame, HandFrame DEF CountSent, Return
<1>9. CASE DropNewest
  <2>1. After(Tail(todo), newest[tgt]) /\ todo # << >>
    BY <1>0, <1>9 DEF DropNewest, Offers, TypeInv, Shape
  <2>2. Offers'
    BY <1>0, <1>9, <2>1, OffersReturn DEF DropNewest
  <2>3. QED
    BY <1>0, <1>9, <2>2, LinesFrame, HandFrame DEF DropNewest, Return
<1>10. CASE BlockDone
  <2>1. After(Tail(todo), newest[tgt]) /\ todo # << >>
    BY <1>0, <1>10 DEF BlockDone, Offers, TypeInv, Shape
  <2>2. Offers'
    BY <1>0, <1>10, <2>1, OffersReturn DEF BlockDone
  <2>3. QED
    BY <1>0, <1>10, <2>2, LinesFrame, HandFrame DEF BlockDone, Return
<1>11. CASE Wake
  <2>1. After(Tail(todo), newest[tgt]) /\ todo # << >>
    BY <1>0, <1>11 DEF Wake, Offers, TypeInv, Shape
  <2>2. Offers'
    BY <1>0, <1>11, <2>1, OffersReturn DEF Wake
  <2>3. QED
    BY <1>0, <1>11, <2>2, LinesFrame, HandFrame DEF Wake, Return
<1>12. CASE BlockFull
  <2>1. Offers'
    BY <1>0, <1>12, OffersGoto DEF BlockFull
  <2>2. QED
    BY <1>0, <1>12, <2>1, LinesFrame, HandFrame DEF BlockFull, Goto
<1>13. CASE OldestFull
  <2>1. Offers'
    BY <1>0, <1>13, OffersGoto DEF OldestFull
  <2>2. QED
    BY <1>0, <1>13, <2>1, LinesFrame, HandFrame DEF OldestFull, Goto
<1>14. CASE OldestRetry
  <2>1. After(Tail(todo), newest[tgt]) /\ todo # << >>
    BY <1>0, <1>14 DEF OldestRetry, Offers, TypeInv, Shape
  <2>2. Offers'
    BY <1>0, <1>14, <2>1, OffersReturn, OffersGoto DEF OldestRetry
  <2>3. QED
    BY <1>0, <1>14, <2>2, LinesFrame, HandFrame DEF OldestRetry, Return, Goto
<1>15. CASE BlockCancelled
  <2>1. Offers'
    BY <1>0, <1>15 DEF BlockCancelled, Offers
  <2>2. QED
    BY <1>0, <1>15, <2>1, LinesFrame, HandFrame DEF BlockCancelled
<1>16. CASE CountEvicted
  <2>1. Offers'
    BY <1>0, <1>16, OffersGoto DEF CountEvicted
  <2>2. QED
    BY <1>0, <1>16, <2>1, LinesFrame, HandFrame DEF CountEvicted, Goto
<1>17. QED
  BY <1>1, <1>2, <1>3, <1>4, <1>5, <1>6, <1>7, <1>8, <1>9, <1>10, <1>11, <1>12, <1>13, <1>14,
     <1>15, <1>16

(* The lines of all subscriptions but h stay as they are. *)
OnlyLine(h) ==
  \A g \in Handles : g # h =>
    /\ out'[g] = out[g] /\ carry'[g] = carry[g] /\ pending'[g] = pending[g]
    /\ last'[g] = last[g] /\ newest'[g] = newest[g]

LEMMA LinesAt ==
  ASSUME Lines, NEW h \in Handles, OnlyLine(h),
         LineOK(out'[h], carry'[h], pending'[h], last'[h], newest'[h])
  PROVE  Lines'
<1> SUFFICES ASSUME NEW g \in Handles
             PROVE  LineOK(out'[g], carry'[g], pending'[g], last'[g], newest'[g])
  BY DEF Lines
<1>1. CASE g = h
  BY <1>1
<1>2. CASE g # h
  <2>1. LineOK(out[g], carry[g], pending[g], last[g], newest[g])
    BY DEF Lines
  <2>2. QED
    BY <1>2, <2>1 DEF OnlyLine
<1>3. QED
  BY <1>1, <1>2

(* A step of coalesceLoop or of the consumer on the line of h, with the    *)
(* publisher possibly holding a tick for h.                                *)
LEMMA OrderOtherStep ==
  ASSUME OrderInv, NEW h \in Handles, OnlyLine(h), UNCHANGED <<pubVars, newest>>,
         LineOK(out'[h], carry'[h], pending'[h], last'[h], newest'[h]),
         \A t \in Tick : OnTop(t, out[h], carry[h], pending[h], last[h]) =>
                         OnTop(t, out'[h], carry'[h], pending'[h], last'[h])
  PROVE  Lines' /\ InHandOnTop' /\ Offers'
<1>1. Lines'
  BY LinesAt DEF OrderInv
<1>2. Offers'
  BY DEF OrderInv, Offers, pubVars
<1>3. ASSUME NEW g \in Handles, InHand(g)'
      PROVE  OnTop(Head(todo'), out'[g], carry'[g], pending'[g], last'[g])
  <2>1. InHand(g) /\ todo' = todo
    BY <1>3 DEF InHand, pubVars
  <2>2. OnTop(Head(todo), out[g], carry[g], pending[g], last[g])
    BY <2>1 DEF OrderInv, InHandOnTop
  <2>3. Head(todo) \in Tick
    <3>1. pc \in Serving /\ todo # << >>
      BY <2>1 DEF OrderInv, TypeInv, Shape, InHand, Serving, Holding
    <3>2. QED
      BY <3>1, ServedTypes DEF OrderInv
  <2>4. CASE g = h
    BY <2>1, <2>2, <2>3, <2>4
  <2>5. CASE g # h
    BY <2>1, <2>2, <2>5 DEF OnlyLine
  <2>6. QED
    BY <2>4, <2>5
<1>4. QED
  BY <1>1, <1>2, <1>3 DEF InHandOnTop

LEMMA OrderLoopStep ==
  ASSUME OrderInv, NEW h \in Handles, LoopStep(h) \/ Consume(h)
  PROVE  Lines' /\ InHandOnTop' /\ Offers'
<1> USE DEF coalVars, loopVars, readVars, offerVars
<1>1. TypeInv /\ TypeOK /\ Shape /\ QueueOK
  BY DEF OrderInv, TypeInv, TypeOK
<1>2. /\ out[h] \in Seq(Tick) /\ carry[h] \in Seq(Tick)
      /\ pending[h] \in IFun /\ last[h] \in IFun /\ newest[h] \in IFun
  BY <1>1, LineTypes
<1>3. LineOK(out[h], carry[h], pending[h], last[h], newest[h])
  BY DEF OrderInv, Lines
<1>4. CASE LoopWoken(h)
  BY <1>4, OrderFrame DEF LoopWoken
<1>5. CASE LoopEmpty(h)
  BY <1>5, OrderFrame DEF LoopEmpty
<1>6. CASE LoopCount(h)
  BY <1>6, OrderFrame DEF LoopCount
<1>7. ASSUME NEW i \in Instruments, LoopTake(h, i)
      PROVE  Lines' /\ InHandOnTop' /\ Offers'
  <2>1. carry[h] = << >>
    BY <1>1, <1>2, <1>7 DEF LoopTake, Shape
  <2>2. /\ out' = out /\ last' = last /\ newest' = newest /\ UNCHANGED pubVars
        /\ carry'[h] = <<[inst |-> i, seq |-> pending[h][i]]>>
        /\ pending'[h] = [pending[h] EXCEPT ![i] = 0]
        /\ \A g \in Handles : g # h => carry'[g] = carry[g] /\ pending'[g] = pending[g]
        /\ pending[h][i] # 0
    BY <1>1, <1>7 DEF LoopTake, TypeOK
  <2>3. OnlyLine(h)
    BY <2>2 DEF OnlyLine
  <2>4. /\ LineOK(out[h], carry'[h], pending'[h], last[h], newest[h])
        /\ \A t \in Tick : OnTop(t, out[h], << >>, pending[h], last[h]) =>
                            OnTop(t, out[h], carry'[h], pending'[h], last[h])
    <3>1. LineOK(out[h], << >>, pending[h], last[h], newest[h])
      BY <1>3, <2>1
    <3>2. LET c == <<[inst |-> i, seq |-> pending[h][i]]>>
              q == [pending[h] EXCEPT ![i] = 0] IN
          /\ LineOK(out[h], c, q, last[h], newest[h])
          /\ \A t \in Tick : OnTop(t, out[h], << >>, pending[h], last[h]) =>
                              OnTop(t, out[h], c, q, last[h])
      BY <1>2, <2>2, <3>1, LineTake
    <3>3. QED
      BY <2>2, <3>2
  <2>5. QED
    BY <2>1, <2>2, <2>3, <2>4, OrderOtherStep
<1>8. CASE LoopSend(h)
  <2>0. Len(carry[h]) = 1
    BY <1>1, <1>8 DEF LoopSend, Shape
  <2>1. Len(carry[h]) = 1 /\ Head(carry[h]) \in Tick
    BY <1>2, <2>0, TailFacts
  <2>2. /\ out'[h] = Append(out[h], Head(carry[h]))
        /\ \A g \in Handles : g # h => out'[g] = out[g]
    BY <1>1, <1>8, <2>1, PushType DEF LoopSend
  <2>3. /\ pending' = pending /\ last' = last /\ newest' = newest /\ UNCHANGED pubVars
        /\ carry'[h] = << >>
        /\ \A g \in Handles : g # h => carry'[g] = carry[g]
    BY <1>1, <1>8 DEF LoopSend, TypeOK
  <2>4. OnlyLine(h)
    BY <2>2, <2>3 DEF OnlyLine
  <2>5. /\ LineOK(out'[h], << >>, pending[h], last[h], newest[h])
        /\ \A t \in Tick : OnTop(t, out[h], carry[h], pending[h], last[h]) =>
                            OnTop(t, out'[h], << >>, pending[h], last[h])
    BY <1>2, <1>3, <2>1, <2>2, LineForward
  <2>6. QED
    BY <2>3, <2>4, <2>5, OrderOtherStep
<1>9. CASE LoopExit(h)
  <2>1. /\ out' = out /\ pending' = pending /\ last' = last /\ newest' = newest
        /\ UNCHANGED pubVars /\ carry'[h] = << >>
        /\ \A g \in Handles : g # h => carry'[g] = carry[g]
    BY <1>1, <1>9 DEF LoopExit, TypeOK
  <2>2. OnlyLine(h)
    BY <2>1 DEF OnlyLine
  <2>3. /\ LineOK(out[h], << >>, pending[h], last[h], newest[h])
        /\ \A t \in Tick : OnTop(t, out[h], carry[h], pending[h], last[h]) =>
                            OnTop(t, out[h], << >>, pending[h], last[h])
    BY <1>3, LineAbandon
  <2>4. QED
    BY <2>1, <2>2, <2>3, OrderOtherStep
<1>10. CASE Consume(h)
  <2>1. /\ out'[h] = Tail(out[h]) /\ out[h] # << >>
        /\ \A g \in Handles : g # h => out'[g] = out[g]
    BY <1>1, <1>10, PopType DEF Consume
  <2>2. /\ carry' = carry /\ pending' = pending /\ newest' = newest /\ UNCHANGED pubVars
        /\ last'[h] = [last[h] EXCEPT ![Head(out[h]).inst] = Head(out[h]).seq]
        /\ \A g \in Handles : g # h => last'[g] = last[g]
    BY <1>1, <1>10 DEF Consume, TypeOK
  <2>3. OnlyLine(h)
    BY <2>1, <2>2 DEF OnlyLine
  <2>4. /\ LineOK(out'[h], carry[h], pending[h], last'[h], newest[h])
        /\ \A t \in Tick : OnTop(t, out[h], carry[h], pending[h], last[h]) =>
                            OnTop(t, out'[h], carry[h], pending[h], last'[h])
    BY <1>2, <1>3, <2>1, <2>2, LinePop, SMTT(30)
  <2>5. QED
    BY <2>2, <2>3, <2>4, OrderOtherStep
<1>11. QED
  BY <1>4, <1>5, <1>6, <1>7, <1>8, <1>9, <1>10 DEF LoopStep

(* Steps of the publisher that change the line of its target. *)
LEMMA OrderDeliverStep ==
  ASSUME OrderInv, Deliver \/ TrySend \/ BlockSend \/ Evict \/ Pend
  PROVE  Lines' /\ InHandOnTop' /\ Offers'
<1> USE DEF coalVars, loopVars, readVars, offerVars
<1>1. TypeInv /\ TypeOK /\ Shape /\ QueueOK /\ Lines /\ Offers /\ InHandOnTop
  BY DEF OrderInv, TypeInv, TypeOK
<1>2. pc \in Serving /\ todo # << >>
  BY <1>1 DEF Deliver, TrySend, BlockSend, Evict, Pend, Shape, Serving, Holding
<1>3. /\ tgt \in Handles /\ todo \in Seq(Tick) /\ Head(todo) \in Tick
      /\ Head(todo).inst \in Instruments /\ Head(todo).seq \in Nat
      /\ Head(todo) = todo[1] /\ 1 \in DOMAIN todo
  BY <1>1, <1>2, ServedTypes
<1>4. /\ out[tgt] \in Seq(Tick) /\ carry[tgt] \in Seq(Tick)
      /\ pending[tgt] \in IFun /\ last[tgt] \in IFun /\ newest[tgt] \in IFun
  BY <1>1, <1>3, LineTypes
<1>5. LineOK(out[tgt], carry[tgt], pending[tgt], last[tgt], newest[tgt])
  BY <1>1, <1>3 DEF Lines
<1>6. CASE Deliver
  <2> DEFINE i == Head(todo).inst
             n == Head(todo).seq
  <2>1. /\ newest' = [newest EXCEPT ![tgt][i] = n]
        /\ out' = out /\ carry' = carry /\ pending' = pending /\ last' = last
        /\ next' = next /\ batch' = batch /\ rest' = rest /\ tgt' = tgt /\ todo' = todo
        /\ pc' \in {"pend", "send"} /\ pc = "check"
    BY <1>6 DEF Deliver, Goto
  <2>2. /\ newest'[tgt] = [newest[tgt] EXCEPT ![i] = n]
        /\ \A g \in Handles : g # tgt => newest'[g] = newest[g]
    BY <1>1, <1>3, <2>1 DEF TypeOK
  <2>3. After(todo, newest[tgt]) /\ newest[tgt][i] < n
    BY <1>1, <1>3, <2>1 DEF Offers, After
  <2>4. /\ LineOK(out[tgt], carry[tgt], pending[tgt], last[tgt], newest'[tgt])
        /\ OnTop(Head(todo), out[tgt], carry[tgt], pending[tgt], last[tgt])
    <3> DEFINE t == Head(todo)
    <3>1. t \in Tick /\ newest[tgt][t.inst] < t.seq /\ newest'[tgt] = [newest[tgt] EXCEPT ![t.inst] = t.seq]
      BY <1>3, <2>2, <2>3
    <3> HIDE DEF t
    <3>2. /\ LineOK(out[tgt], carry[tgt], pending[tgt], last[tgt], [newest[tgt] EXCEPT ![t.inst] = t.seq])
          /\ OnTop(t, out[tgt], carry[tgt], pending[tgt], last[tgt])
      BY <1>4, <1>5, <3>1, LineOffer
    <3>3. QED
      BY <3>1, <3>2 DEF t
  <2>5. OnlyLine(tgt)
    BY <2>1, <2>2 DEF OnlyLine
  <2>6. Lines'
    BY <1>1, <1>3, <2>1, <2>4, <2>5, LinesAt
  <2>7. InHandOnTop'
    BY <2>1, <2>4 DEF InHandOnTop, InHand
  <2>8. \A j \in Instruments : newest'[tgt][j] = IF j = i THEN n ELSE newest[tgt][j]
    BY <1>4, <2>2 DEF IFun
  <2>9. n <= next[i]
    BY <1>1, <1>3 DEF Offers, UpTo
  <2>10. \A h \in Handles, j \in Instruments : newest'[h][j] <= next'[j]
    BY <1>1, <2>1, <2>2, <2>8, <2>9 DEF Offers
  <2>11. \A h \in rest : h # tgt /\ h \in Handles
    BY <1>1 DEF Shape, TypeOK
  <2>12. \A h \in rest' : After(batch', newest'[h])
    BY <1>1, <1>2, <2>1, <2>2, <2>11 DEF Offers
  <2>13. UpTo(<<Head(todo)>>, newest'[tgt])
    BY <1>3, <2>8 DEF UpTo
  <2>14. After(Tail(todo), newest'[tgt])
    <3> DEFINE q == Tail(todo)
    <3>1. /\ Len(todo) \in Nat \ {0} /\ Len(q) = Len(todo) - 1 /\ q \in Seq(Tick)
          /\ \A k \in 1 .. (Len(todo) - 1) : q[k] = todo[k + 1]
      BY <1>2, <1>3, TailFacts
    <3>2. \A k \in DOMAIN q : k + 1 \in DOMAIN todo /\ q[k] = todo[k + 1] /\ 1 < k + 1
      BY <1>3, <3>1
    <3>3. \A k \in DOMAIN todo : todo[k].inst \in Instruments
      BY <1>3, TickFacts
    <3> HIDE DEF q
    <3>4. \A k \in DOMAIN q : newest'[tgt][q[k].inst] < q[k].seq
      BY <1>1, <1>3, <2>3, <2>8, <3>2, <3>3 DEF Offers, Ordered, After
    <3>5. QED
      BY <3>4 DEF After, q
  <2>15. Offers'
    BY <1>1, <2>1, <2>10, <2>12, <2>13, <2>14 DEF Offers, Serving, Holding
  <2>16. QED
    BY <2>6, <2>7, <2>15
<1>7. CASE TrySend \/ BlockSend
  <2>1. /\ Push(tgt, Head(todo)) /\ ~Full(tgt) /\ Goto("count")
        /\ carry' = carry /\ pending' = pending /\ last' = last /\ newest' = newest
        /\ pc \in {"send", "wait"}
    BY <1>7 DEF TrySend, BlockSend
  <2>2. /\ out'[tgt] = Append(out[tgt], Head(todo))
        /\ \A g \in Handles : g # tgt => out'[g] = out[g]
    BY <1>1, <1>3, <2>1, PushType
  <2>3. carry[tgt] = << >> /\ \A i \in Instruments : pending[tgt][i] = 0
    <3>1. Policy[tgt] # "coalesce" /\ loop[tgt] = "off"
      BY <1>1, <1>3, <2>1 DEF Shape
    <3>2. Len(carry[tgt]) = 0 /\ \A i \in Instruments : pending[tgt][i] = 0
      BY <1>1, <1>3, <3>1 DEF Shape
    <3>3. QED
      BY <1>4, <3>2
  <2>4. OnTop(Head(todo), out[tgt], carry[tgt], pending[tgt], last[tgt])
    BY <1>1, <1>3, <2>1 DEF InHandOnTop, InHand
  <2>5. Head(todo).seq <= newest[tgt][Head(todo).inst]
    BY <1>1, <2>1 DEF Offers, Holding, UpTo
  <2>6. LineOK(out'[tgt], carry'[tgt], pending'[tgt], last'[tgt], newest'[tgt])
    BY <1>3, <1>4, <1>5, <2>1, <2>2, <2>3, <2>4, <2>5, LinePush, SMTT(30)
  <2>7. OnlyLine(tgt)
    BY <2>1, <2>2 DEF OnlyLine
  <2>8. Lines'
    BY <1>1, <1>3, <2>6, <2>7, LinesAt
  <2>9. InHandOnTop'
    BY <2>1 DEF InHandOnTop, InHand, Goto
  <2>10. Offers'
    BY <1>1, <2>1, OffersGoto DEF Holding
  <2>11. QED
    BY <2>8, <2>9, <2>10
<1>8. CASE Evict
  <2>1. /\ pc = "evict" /\ (Goto("evicted") \/ Goto("recheck"))
        /\ carry' = carry /\ pending' = pending /\ last' = last /\ newest' = newest
    BY <1>8 DEF Evict
  <2>2. Offers'
    BY <1>1, <2>1, OffersGoto DEF Holding
  <2>3. CASE out' = out
    BY <1>1, <2>1, <2>2, <2>3, LinesFrame, HandFrame DEF Goto
  <2>4. CASE out[tgt] # << >> /\ Pop(tgt)
    <3>1. /\ out'[tgt] = Tail(out[tgt])
          /\ \A g \in Handles : g # tgt => out'[g] = out[g]
      BY <1>1, <1>3, <2>4, PopType
    <3>2. OnTop(Head(todo), out[tgt], carry[tgt], pending[tgt], last[tgt])
      BY <1>1, <1>3, <2>1 DEF InHandOnTop, InHand
    <3>3. /\ LineOK(out'[tgt], carry[tgt], pending[tgt], last[tgt], newest[tgt])
          /\ OnTop(Head(todo), out'[tgt], carry[tgt], pending[tgt], last[tgt])
      <4> DEFINE t == Head(todo)
      <4>1. t \in Tick /\ OnTop(t, out[tgt], carry[tgt], pending[tgt], last[tgt])
        BY <1>3, <3>2
      <4> HIDE DEF t
      <4>2. /\ LineOK(Tail(out[tgt]), carry[tgt], pending[tgt], last[tgt], newest[tgt])
            /\ OnTop(t, Tail(out[tgt]), carry[tgt], pending[tgt], last[tgt])
        BY <1>4, <1>5, <2>4, <4>1, LinePop
      <4>3. QED
        BY <3>1, <4>2 DEF t
    <3>4. OnlyLine(tgt)
      BY <2>1, <3>1 DEF OnlyLine
    <3>5. Lines'
      BY <1>1, <1>3, <2>1, <3>3, <3>4, LinesAt
    <3>6. InHandOnTop'
      BY <2>1, <3>3 DEF InHandOnTop, InHand, Goto
    <3>7. QED
      BY <2>2, <3>5, <3>6
  <2>5. QED
    BY <1>8, <2>3, <2>4 DEF Evict
<1>9. CASE Pend
  <2>1. /\ Goto("wake") /\ pc = "pend"
        /\ pending' = [pending EXCEPT ![tgt][Head(todo).inst] = Head(todo).seq]
        /\ out' = out /\ carry' = carry /\ last' = last /\ newest' = newest
    BY <1>9 DEF Pend
  <2>2. /\ pending'[tgt] = [pending[tgt] EXCEPT ![Head(todo).inst] = Head(todo).seq]
        /\ \A g \in Handles : g # tgt => pending'[g] = pending[g]
    BY <1>1, <1>3, <2>1 DEF TypeOK
  <2>3. OnTop(Head(todo), out[tgt], carry[tgt], pending[tgt], last[tgt])
    BY <1>1, <1>3, <2>1 DEF InHandOnTop, InHand
  <2>4. Head(todo).seq <= newest[tgt][Head(todo).inst]
    BY <1>1, <2>1 DEF Offers, Holding, UpTo
  <2>5. LineOK(out[tgt], carry[tgt], pending'[tgt], last[tgt], newest[tgt])
    <3> DEFINE t == Head(todo)
    <3>1. /\ t \in Tick /\ t.seq <= newest[tgt][t.inst]
          /\ pending'[tgt] = [pending[tgt] EXCEPT ![t.inst] = t.seq]
          /\ OnTop(t, out[tgt], carry[tgt], pending[tgt], last[tgt])
      BY <1>3, <2>2, <2>3, <2>4
    <3> HIDE DEF t
    <3>2. LineOK(out[tgt], carry[tgt], [pending[tgt] EXCEPT ![t.inst] = t.seq], last[tgt], newest[tgt])
      BY <1>4, <1>5, <3>1, LinePend
    <3>3. QED
      BY <3>1, <3>2
  <2>6. OnlyLine(tgt)
    BY <2>1, <2>2 DEF OnlyLine
  <2>7. Lines'
    BY <1>1, <1>3, <2>1, <2>5, <2>6, LinesAt
  <2>8. InHandOnTop'
    BY <2>1 DEF InHandOnTop, InHand, Goto
  <2>9. Offers'
    BY <1>1, <2>1, OffersGoto DEF Holding
  <2>10. QED
    BY <2>7, <2>8, <2>9
<1>10. QED
  BY <1>6, <1>7, <1>8, <1>9

LEMMA OrderStep == OrderInv /\ [Next]_vars => OrderInv'
<1> SUFFICES ASSUME OrderInv, [Next]_vars PROVE OrderInv'
  OBVIOUS
<1>1. TypeInv'
  BY TypeStep DEF OrderInv
<1>2. CASE PublishStep \/ PumpStops \/ \E i \in Instruments : Assign(i)
  BY <1>1, <1>2, OrderPublisherStep, OrderDeliverStep DEF PublishStep, OrderInv
<1>3. ASSUME NEW h \in Handles, LoopStep(h) \/ Consume(h) PROVE OrderInv'
  BY <1>1, <1>3, OrderLoopStep DEF OrderInv
<1>4. ASSUME NEW h \in Handles,
             Subscribe(h) \/ CloseSub(h) \/ Shutdown(h) \/ ConsumerStops(h)
      PROVE  OrderInv'
  <2>1. UNCHANGED <<out, carry, pending, last, newest, pubVars>>
    BY <1>4 DEF Subscribe, CloseSub, Shutdown, ConsumerStops, coalVars, loopVars,
                readVars, offerVars
  <2>2. QED
    BY <1>1, <2>1, OrderFrame DEF OrderInv
<1>5. CASE Cancel \/ CloseBus \/ UNCHANGED vars
  <2>1. UNCHANGED <<out, carry, pending, last, newest, pubVars>>
    BY <1>5 DEF Cancel, CloseBus, vars, coalVars, loopVars, readVars, offerVars
  <2>2. QED
    BY <1>1, <2>1, OrderFrame DEF OrderInv
<1>6. QED
  BY <1>2, <1>3, <1>4, <1>5 DEF Next

LEMMA OrderInvCorrect == Spec => []OrderInv
  BY OrderInit, OrderStep, PTL DEF Spec

(* Every subscriber's ticks stay in per-instrument order at every point of *)
(* its line, whatever its policy and however the goroutines interleave.    *)
THEOREM OrderCorrect == Spec => []InOrder
<1>1. OrderInv => InOrder
  <2> SUFFICES ASSUME OrderInv, NEW h \in Handles
               PROVE  /\ Ordered(out[h])
                      /\ After(out[h], last[h])
                      /\ After(carry[h], last[h])
                      /\ \A k \in DOMAIN carry[h] : Later(carry[h][k], out[h])
                      /\ \A i \in Instruments : pending[h][i] # 0 =>
                           LET t == [inst |-> i, seq |-> pending[h][i]] IN
                           last[h][i] < t.seq /\ Later(t, out[h]) /\ Later(t, carry[h])
    BY DEF InOrder
  <2>1. LineOK(out[h], carry[h], pending[h], last[h], newest[h])
    BY DEF OrderInv, Lines
  <2>2. QED
    BY <2>1 DEF LineOK, Later
<1>2. QED
  BY <1>1, OrderInvCorrect, PTL
-----------------------------------------------------------------------------
(* Refinement: a consumer's receive is a read of a later tick that exists, *)
(* numbering a tick is numbering a tick, and every other step stutters.    *)
LEMMA FeedStep == OrderInv /\ [Next]_vars => [F!FeedNext]_(F!feedVars)
<1> SUFFICES ASSUME OrderInv, [Next]_vars PROVE [F!FeedNext]_(F!feedVars)
  OBVIOUS
<1> USE DEF pubVars, readVars
<1>1. ASSUME NEW i \in Instruments, Assign(i) PROVE F!FeedNext
  <2>1. F!FeedAssign(i)
    BY <1>1 DEF Assign, F!FeedAssign
  <2>2. QED
    BY <2>1 DEF F!FeedNext
<1>2. ASSUME NEW h \in Handles, Consume(h) PROVE F!FeedNext
  <2> DEFINE t == Head(out[h])
  <2>1. out[h] \in Seq(Tick) /\ out[h] # << >> /\ last \in [Handles -> [Instruments -> Nat]]
    BY <1>2 DEF Consume, OrderInv, TypeInv, TypeOK, QueueOK
  <2>2. 1 \in DOMAIN out[h] /\ t = out[h][1]
    BY <2>1
  <2>3. t.inst \in Instruments /\ t.seq \in Nat
    BY <2>1, <2>2, TickFacts
  <2>4. last[h][t.inst] < t.seq /\ t.seq <= newest[h][t.inst]
    BY <2>2 DEF OrderInv, Lines, LineOK, After, UpTo
  <2>5. newest[h][t.inst] <= next[t.inst] /\ newest[h][t.inst] \in Nat /\ next[t.inst] \in Nat
    BY <2>3 DEF OrderInv, Offers, TypeInv, TypeOK
  <2>6. last[h][t.inst] \in Nat
    BY <2>1, <2>3
  <2>7. t.seq \in (last[h][t.inst] + 1) .. next[t.inst]
    BY <2>3, <2>4, <2>5, <2>6
  <2>8. /\ last' = [last EXCEPT ![h][t.inst] = t.seq]
        /\ got' = [got EXCEPT ![h] = @ + 1] /\ next' = next
    BY <1>2 DEF Consume
  <2>9. F!FeedRead(h, t.inst)
    BY <2>7, <2>8 DEF F!FeedRead
  <2>10. QED
    BY <2>3, <2>9 DEF F!FeedNext
<1>3. CASE PublishStep \/ PumpStops
  <2>1. UNCHANGED <<next, last, got>>
    BY <1>3 DEF PublishStep, NextTarget, Publish, PublishReturns, TargetServed, Skip,
         Deliver, TrySend, CountSent, DropNewest, BlockFull, BlockSend, BlockDone,
         BlockCancelled, OldestFull, Evict, CountEvicted, OldestRetry, Pend, Wake, PumpStops,
         Return, Goto
  <2>2. QED
    BY <2>1 DEF F!feedVars
<1>4. ASSUME NEW h \in Handles,
             \/ Subscribe(h) \/ CloseSub(h) \/ Shutdown(h) \/ ConsumerStops(h)
             \/ LoopStep(h)
      PROVE  UNCHANGED F!feedVars
  BY <1>4 DEF Subscribe, CloseSub, Shutdown, ConsumerStops, LoopStep, LoopWoken,
       LoopTake, LoopEmpty, LoopSend, LoopCount, LoopExit, F!feedVars
<1>5. CASE Cancel \/ CloseBus \/ UNCHANGED vars
  BY <1>5 DEF Cancel, CloseBus, vars, F!feedVars
<1>6. QED
  BY <1>1, <1>2, <1>3, <1>4, <1>5 DEF Next

(* The in-process bus implements the feed: every consumer reads a strictly *)
(* increasing subsequence of each instrument's ticks, none twice.          *)
THEOREM FeedRefinement == Spec => ImplementsFeed
<1>1. Init => F!FeedInit
  BY DEF Init, F!FeedInit
<1>2. QED
  BY <1>1, OrderInvCorrect, FeedStep, PTL DEF Spec, ImplementsFeed, F!FeedSpec

-----------------------------------------------------------------------------
(* The wake-up protocol.  Inductive with the shape of the loop: a pending  *)
(* tick is only ever left behind by a loop that will look again, a queued  *)
(* wake-up, or a publisher that is about to queue one.                     *)
WakeAt(h) ==
  ~done[h] /\ (\E i \in Instruments : pending[h][i] # 0) =>
    \/ wake[h]
    \/ loop[h] \in {"drain", "send", "count"}
    \/ pc = "wake" /\ tgt = h

LEMMA WakeStep == TypeInv /\ NoLostWake /\ [Next]_vars => NoLostWake'
<1> SUFFICES ASSUME TypeInv, NoLostWake, [Next]_vars, NEW h \in Handles
             PROVE  WakeAt(h)'
  BY DEF NoLostWake, WakeAt
<1>1. TypeOK /\ Shape /\ WakeAt(h)
  BY DEF TypeInv, NoLostWake, WakeAt
<1> USE DEF regVars, loopVars, coalVars, pubVars
<1>2. CASE Pend
  <2>1. pc' = "wake" /\ tgt' = tgt /\ done' = done /\ wake' = wake /\ loop' = loop
    BY <1>2 DEF Pend, Goto
  <2>2. CASE h = tgt
    BY <2>1, <2>2 DEF WakeAt
  <2>3. CASE h # tgt
    <3>1. pending'[h] = pending[h]
      BY <1>1, <1>2, <2>3 DEF Pend, TypeOK
    <3>2. pc # "wake"
      BY <1>2 DEF Pend
    <3>3. QED
      BY <1>1, <2>1, <3>1, <3>2 DEF WakeAt
  <2>4. QED
    BY <2>2, <2>3
<1>3. CASE Wake
  <2>1. done' = done /\ pending' = pending /\ loop' = loop /\ pc = "wake"
    BY <1>3 DEF Wake
  <2>2. wake'[h] = (h = tgt \/ wake[h])
    BY <1>1, <1>3, Zenon DEF Wake, TypeOK
  <2>3. QED
    BY <1>1, <2>1, <2>2 DEF WakeAt
<1>4. CASE PublishStep /\ ~Pend /\ ~Wake
  <2>1. /\ UNCHANGED <<done, pending, wake, loop>>
        /\ pc # "wake"
    BY <1>4 DEF PublishStep, NextTarget, Publish, PublishReturns, TargetServed, Skip,
         Deliver, TrySend, CountSent, DropNewest, BlockFull, BlockSend, BlockDone,
         BlockCancelled, OldestFull, Evict, CountEvicted, OldestRetry
  <2>2. QED
    BY <1>1, <2>1 DEF WakeAt
<1>5. CASE PumpStops \/ \E i \in Instruments : Assign(i)
  <2>1. UNCHANGED <<done, pending, wake, loop>> /\ pc # "wake"
    BY <1>5 DEF PumpStops, Assign
  <2>2. QED
    BY <1>1, <2>1 DEF WakeAt
<1>6. ASSUME NEW g \in Handles, LoopStep(g) PROVE WakeAt(h)'
  <2>1. CASE g # h
    <3>1. UNCHANGED <<done, pc, tgt>>
      BY <1>6 DEF LoopStep, LoopWoken, LoopTake, LoopEmpty, LoopSend, LoopCount, LoopExit
    <3>2. pending'[h] = pending[h] /\ loop'[h] = loop[h]
      BY <1>1, <1>6, <2>1 DEF LoopStep, LoopWoken, LoopTake, LoopEmpty, LoopSend,
           LoopCount, LoopExit, TypeOK
    <3>3. wake'[h] = wake[h]
      BY <1>1, <1>6, <2>1 DEF LoopStep, LoopWoken, LoopTake, LoopEmpty, LoopSend,
           LoopCount, LoopExit, TypeOK
    <3>4. QED
      BY <1>1, <3>1, <3>2, <3>3 DEF WakeAt
  <2>2. CASE g = h
    <3>1. CASE LoopWoken(h) \/ LoopSend(h) \/ LoopCount(h) \/ \E i \in Instruments : LoopTake(h, i)
      <4>1. loop'[h] \in {"drain", "send", "count"}
        BY <1>1, <3>1 DEF LoopWoken, LoopSend, LoopCount, LoopTake, TypeOK
      <4>2. QED
        BY <4>1 DEF WakeAt
    <3>2. CASE LoopEmpty(h)
      BY <3>2 DEF LoopEmpty, WakeAt
    <3>3. CASE LoopExit(h)
      BY <3>3 DEF LoopExit, WakeAt
    <3>4. QED
      BY <1>6, <2>2, <3>1, <3>2, <3>3 DEF LoopStep
  <2>3. QED
    BY <2>1, <2>2
<1>7. ASSUME NEW g \in Handles, Subscribe(g) PROVE WakeAt(h)'
  <2>1. UNCHANGED <<done, pending, wake, pc, tgt>>
    BY <1>7 DEF Subscribe
  <2>2. loop'[h] = loop[h] \/ loop[h] = "off"
    BY <1>1, <1>7 DEF Subscribe, TypeOK, Shape
  <2>3. QED
    BY <1>1, <2>1, <2>2 DEF WakeAt
<1>8. ASSUME NEW g \in Handles, Shutdown(g) PROVE WakeAt(h)'
  <2>1. UNCHANGED <<pending, wake, loop, pc, tgt>>
    BY <1>8 DEF Shutdown
  <2>2. done[h] => done'[h]
    BY <1>1, <1>8, Zenon DEF Shutdown, TypeOK
  <2>3. QED
    BY <1>1, <2>1, <2>2 DEF WakeAt
<1>9. ASSUME NEW g \in Handles, CloseSub(g) \/ Consume(g) \/ ConsumerStops(g) PROVE WakeAt(h)'
  <2>1. UNCHANGED <<done, pending, wake, loop, pc, tgt>>
    BY <1>9 DEF CloseSub, Consume, ConsumerStops
  <2>2. QED
    BY <1>1, <2>1 DEF WakeAt
<1>10. CASE Cancel \/ CloseBus \/ UNCHANGED vars
  <2>1. UNCHANGED <<done, pending, wake, loop, pc, tgt>>
    BY <1>10 DEF Cancel, CloseBus, vars
  <2>2. QED
    BY <1>1, <2>1 DEF WakeAt
<1>11. QED
  BY <1>2, <1>3, <1>4, <1>5, <1>6, <1>7, <1>8, <1>9, <1>10 DEF Next, PublishStep

(* No interleaving of deliverCoalesce and coalesceLoop leaves a pending    *)
(* tick that nobody is going to forward.                                   *)
THEOREM WakeCorrect == Spec => []NoLostWake
<1>1. Init => NoLostWake
  BY DEF Init, NoLostWake
<1>2. QED
  BY <1>1, TypeInit, TypeStep, WakeStep, PTL DEF Spec

-----------------------------------------------------------------------------
(* The registry.  Close deletes by name, so that it matters that a name is *)
(* registered once, and who the name belongs to by then.  A handle nobody  *)
(* closed may be neither registered nor shut down, and closing it removes  *)
(* yet another: reclosed holds the handle all this started with.           *)
CutOff(h) == \E g \in reclosed : Name[g] = Name[h]

Registry ==
  /\ subs \subseteq made /\ closing \subseteq made /\ made \subseteq Handles
  /\ subs \cap closing = {}
  /\ closed => subs = {}
  /\ \A h \in made : h \in subs \/ h \in closing \/ done[h] \/ CutOff(h)
  /\ \A h \in Handles : done[h] => h \in made /\ h \notin subs
  /\ \A g, h \in subs : Name[g] = Name[h] => g = h

LEMMA RegistryStep == TypeOK /\ Registry /\ [Next]_vars => Registry'
<1> SUFFICES ASSUME TypeOK, Registry, [Next]_vars PROVE Registry'
  OBVIOUS
<1>1. done \in [Handles -> BOOLEAN]
  BY DEF TypeOK
<1> USE DEF Registry, CutOff
<1>2. ASSUME NEW h \in Handles, Subscribe(h) PROVE Registry'
  <2>1. /\ h \notin made /\ subs' = subs \cup {h} /\ made' = made \cup {h}
        /\ closing' = closing /\ done' = done /\ reclosed' = reclosed
        /\ \A g \in subs : Name[g] # Name[h]
        /\ ~closed /\ closed' = closed
    BY <1>2 DEF Subscribe
  <2>2. QED
    BY <2>1
<1>3. ASSUME NEW h \in Handles, CloseSub(h) PROVE Registry'
  <2>1. /\ h \in made
        /\ subs' = {g \in subs : Name[g] # Name[h]}
        /\ closing \subseteq closing' /\ closing' \subseteq closing \cup {h}
        /\ h \in closing' \/ done[h]
        /\ made' = made /\ done' = done /\ closed' = closed
    BY <1>3 DEF CloseSub
  <2>2. /\ reclosed \subseteq reclosed'
        /\ (h \in closing \/ done[h]) /\ subs' # subs => h \in reclosed'
    BY <1>3 DEF CloseSub
  <2>3. h \notin subs'
    BY <2>1
  <2>4. ASSUME NEW g \in made
        PROVE  g \in subs' \/ g \in closing' \/ done'[g] \/ CutOff(g)'
    <3>1. CASE g \in subs' \/ g \in closing \/ done[g] \/ g = h
      BY <2>1, <3>1
    <3>2. CASE CutOff(g)
      BY <2>2, <3>2
    <3>3. CASE g \in subs /\ Name[g] = Name[h] /\ g # h
      <4>1. subs' # subs /\ h \notin subs
        BY <2>1, <3>3
      <4>2. CASE h \in closing \/ done[h]
        BY <2>2, <3>3, <4>1, <4>2
      <4>3. CASE CutOff(h)
        BY <2>2, <3>3, <4>3
      <4>4. QED
        BY <2>1, <4>1, <4>2, <4>3
    <3>4. QED
      BY <2>1, <3>1, <3>2, <3>3
  <2>5. QED
    BY <2>1, <2>3, <2>4
<1>4. CASE CloseBus
  <2>1. /\ subs' = {} /\ closing' = closing \cup subs /\ made' = made /\ done' = done
        /\ reclosed' = reclosed
    BY <1>4 DEF CloseBus
  <2>2. QED
    BY <2>1
<1>5. ASSUME NEW h \in Handles, Shutdown(h) PROVE Registry'
  <2>1. /\ h \in closing /\ closing' = closing \ {h} /\ subs' = subs /\ made' = made
        /\ done' = [done EXCEPT ![h] = TRUE] /\ closed' = closed /\ reclosed' = reclosed
    BY <1>5 DEF Shutdown
  <2>2. done'[h] /\ \A g \in Handles : g # h => done'[g] = done[g]
    BY <1>1, <2>1
  <2>3. QED
    BY <2>1, <2>2
<1>6. ASSUME UNCHANGED regVars PROVE Registry'
  BY <1>6 DEF regVars
<1>7. CASE PublishStep
  BY <1>6, <1>7 DEF PublishStep, NextTarget, Publish, PublishReturns, TargetServed, Skip,
       Deliver, TrySend, CountSent, DropNewest, BlockFull, BlockSend, BlockDone,
       BlockCancelled, OldestFull, Evict, CountEvicted, OldestRetry, Pend, Wake
<1>8. CASE PumpStops \/ Cancel \/ UNCHANGED vars \/ \E i \in Instruments : Assign(i)
  BY <1>6, <1>8 DEF PumpStops, Cancel, Assign, vars
<1>9. ASSUME NEW h \in Handles, LoopStep(h) \/ Consume(h) \/ ConsumerStops(h) PROVE Registry'
  BY <1>6, <1>9 DEF LoopStep, LoopWoken, LoopTake, LoopEmpty, LoopSend, LoopCount, LoopExit,
       Consume, ConsumerStops
<1>10. QED
  BY <1>2, <1>3, <1>4, <1>5, <1>7, <1>8, <1>9 DEF Next

(* Subscribe, Close, however often and by whomever, and Bus.Close, in      *)
(* every interleaving and however often a name is used again: what is      *)
(* registered has never been closed, and who is not registered hears of    *)
(* it, except where a handle has been closed a second time when its name   *)
(* was another's by then (inproc.go:192-195 deletes the name each time).   *)
THEOREM RegistryCorrect == Spec => []NoOrphan
<1>1. Init => Registry
  BY DEF Init, Registry
<1>2. Registry => NoOrphan
  BY DEF Registry, NoOrphan, CutOff
<1>3. TypeInv /\ Registry /\ [Next]_vars => TypeInv' /\ Registry'
  BY TypeStep, RegistryStep DEF TypeInv
<1>4. QED
  BY <1>1, <1>2, <1>3, TypeInit, PTL DEF Spec

-----------------------------------------------------------------------------
(* The counters.  NothingVanishes with its terms named; what it needs to   *)
(* be inductive is that pending is finite, so that its ticks can be        *)
(* counted, and that only drop_oldest evicts; what is evicted and not yet  *)
(* counted is Lost all the same.                                           *)
Counting(h) == IF (tgt = h /\ pc = "count") \/ loop[h] = "count" THEN 1 ELSE 0
Hand(h) == IF InHand(h) THEN 1 ELSE 0
Waiting(h) == {i \in Instruments : pending[h][i] # 0}
Evicted(h) == IF Policy[h] = "drop_oldest" THEN Lost(h) ELSE 0
Refused(h) == IF Policy[h] = "drop_newest" THEN dropped[h] ELSE 0
Open(h) == ~done[h] /\ pc # "stopped"

SentAddsUp(h) == delivered[h] + Counting(h) = got[h] + Len(out[h]) + Evicted(h)
OfferedAddsUp(h) ==
  offered[h] = delivered[h] + Counting(h) + Len(carry[h]) + Cardinality(Waiting(h))
                 + Hand(h) + coalesced[h] + Refused(h)

CountAt(h) ==
  /\ IsFiniteSet(Waiting(h))
  /\ SentAddsUp(h)
  /\ Open(h) => OfferedAddsUp(h)

EvictsOldest == pc \in {"evict", "evicted"} => Policy[tgt] = "drop_oldest"

Counts == EvictsOldest /\ \A h \in Handles : CountAt(h)

LEMMA CountTypes ==
  ASSUME TypeOK, NEW h \in Handles
  PROVE  /\ delivered[h] \in Nat /\ got[h] \in Nat /\ coalesced[h] \in Nat
         /\ offered[h] \in Nat /\ dropped[h] \in Nat
         /\ Len(out[h]) \in Nat /\ Len(carry[h]) \in Nat
         /\ Counting(h) \in {0, 1} /\ Hand(h) \in {0, 1}
         /\ Evicted(h) \in Nat /\ Refused(h) \in Nat
<1>1. /\ delivered[h] \in Nat /\ got[h] \in Nat /\ coalesced[h] \in Nat
      /\ offered[h] \in Nat /\ dropped[h] \in Nat
      /\ out[h] \in Seq(Tick) /\ carry[h] \in Seq(Tick)
  BY DEF TypeOK, QueueOK
<1>2. QED
  BY <1>1 DEF Counting, Hand, Evicted, Lost, Refused

(* What a step that does not concern h leaves alone. *)
Untouched(h) ==
  /\ delivered'[h] = delivered[h] /\ dropped'[h] = dropped[h]
  /\ coalesced'[h] = coalesced[h] /\ offered'[h] = offered[h]
  /\ got'[h] = got[h] /\ out'[h] = out[h]
  /\ carry'[h] = carry[h] /\ pending'[h] = pending[h]

LEMMA CountFrame ==
  ASSUME NEW h \in Handles, CountAt(h), Untouched(h), Counting(h)' = Counting(h),
         Lost(h)' = Lost(h),
         Open(h)' => Open(h) /\ Hand(h)' = Hand(h)
  PROVE  CountAt(h)'
<1>1. Waiting(h)' = Waiting(h) /\ Evicted(h)' = Evicted(h) /\ Refused(h)' = Refused(h)
  BY DEF Untouched, Waiting, Evicted, Refused
<1>2. SentAddsUp(h)'
  BY <1>1 DEF Untouched, SentAddsUp, CountAt
<1>3. Open(h)' => OfferedAddsUp(h)'
  BY <1>1 DEF Untouched, OfferedAddsUp, CountAt
<1>4. QED
  BY <1>1, <1>2, <1>3 DEF CountAt

LEMMA CountPublish ==
  ASSUME OrderInv, Counts, PublishStep, NEW h \in Handles
  PROVE  CountAt(h)'
<1>1. TypeOK /\ Shape /\ CountAt(h) /\ EvictsOldest
  BY DEF OrderInv, TypeInv, Counts
<1>2. UNCHANGED <<done, loop, got, carry>> /\ pc # "stopped"
  BY DEF PublishStep, NextTarget, Publish, PublishReturns, TargetServed, Skip,
       Deliver, TrySend, CountSent, DropNewest, BlockFull, BlockSend, BlockDone,
       BlockCancelled, OldestFull, Evict, CountEvicted, OldestRetry, Pend, Wake,
       regVars, loopVars, readVars
<1>3. Open(h)' => Open(h)
  BY <1>2 DEF Open
<1>4. /\ delivered \in [Handles -> Nat] /\ dropped \in [Handles -> Nat]
      /\ coalesced \in [Handles -> Nat] /\ offered \in [Handles -> Nat]
      /\ out \in [Handles -> Seq(Tick)] /\ pending \in [Handles -> [Instruments -> Nat]]
  BY <1>1 DEF TypeOK, QueueOK
<1> USE DEF regVars, loopVars, coalVars, statVars, readVars, offerVars
(* Steps between two ticks, or on the way to a wait. *)
<1>5. ASSUME UNCHANGED <<statVars, out, pending, offered>>,
             tgt # h \/ pc \notin {"count", "evicted"},
             tgt' # h \/ pc' \notin {"count", "evicted"},
             Open(h)' => Hand(h)' = Hand(h)
      PROVE  CountAt(h)'
  <2>1. Untouched(h)
    BY <1>2, <1>5 DEF Untouched
  <2>2. Counting(h)' = Counting(h) /\ Lost(h)' = Lost(h)
    BY <1>2, <1>5 DEF Counting, Lost
  <2>3. QED
    BY <1>1, <1>3, <1>5, <2>1, <2>2, CountFrame
<1>6. CASE Publish \/ PublishReturns \/ TargetServed \/ Skip \/ \E g \in Handles : NextTarget(g)
  <2>1. /\ UNCHANGED <<statVars, out, pending, offered>>
        /\ pc \in {"filled", "target", "check"} /\ pc' \in {"idle", "target", "check"}
    BY <1>6 DEF Publish, PublishReturns, TargetServed, Skip, NextTarget, Return
  <2>2. Hand(h) = 0 /\ Hand(h)' = 0
    BY <2>1 DEF Hand, InHand
  <2>3. QED
    BY <1>5, <2>1, <2>2
<1>7. CASE BlockFull \/ OldestFull \/ (OldestRetry /\ ~done[tgt])
  <2>1. /\ UNCHANGED <<statVars, out, pending, offered, tgt>>
        /\ pc \in {"send", "recheck"} /\ pc' \in {"wait", "evict", "send"}
    BY <1>7 DEF BlockFull, OldestFull, OldestRetry, Goto
  <2>2. Hand(h)' = Hand(h)
    BY <2>1 DEF Hand, InHand
  <2>3. QED
    BY <1>5, <2>1, <2>2
<1>8. CASE BlockDone \/ (OldestRetry /\ done[tgt])
  <2>1. /\ UNCHANGED <<statVars, out, pending, offered, tgt>>
        /\ pc \in {"wait", "recheck"} /\ pc' = "check" /\ done[tgt]
    BY <1>8 DEF BlockDone, OldestRetry, Return
  <2>2. Open(h)' => Hand(h)' = Hand(h)
    BY <1>2, <2>1 DEF Hand, InHand, Open
  <2>3. QED
    BY <1>5, <2>1, <2>2
<1>9. CASE BlockCancelled
  <2>1. UNCHANGED <<statVars, out, pending, offered>> /\ pc = "wait" /\ pc' = "stopped"
    BY <1>9 DEF BlockCancelled
  <2>2. ~ Open(h)'
    BY <2>1 DEF Open
  <2>3. QED
    BY <1>5, <2>1, <2>2
<1>10. CASE Wake
  <2>1. /\ UNCHANGED <<statVars, out, pending, offered, tgt>> /\ pc = "wake" /\ pc' = "check"
    BY <1>10 DEF Wake, Return
  <2>2. Hand(h)' = Hand(h)
    BY <2>1 DEF Hand, InHand
  <2>3. QED
    BY <1>5, <2>1, <2>2
(* Steps that count, queue, drop or park the tick in hand. *)
<1>11. CASE \/ Deliver \/ TrySend \/ BlockSend \/ CountSent \/ DropNewest
            \/ Evict \/ CountEvicted \/ Pend
  <2>1. tgt' = tgt /\ tgt \in Handles /\ pc \in Serving /\ pc' \in Serving
    BY <1>1, <1>11 DEF Deliver, TrySend, BlockSend, CountSent, DropNewest, Evict, CountEvicted, Pend, Goto,
         Return, Shape, TypeOK, Serving, Holding
  <2>2. CASE h # tgt
    <3>1. Untouched(h)
      BY <1>2, <1>4, <1>11, <2>2 DEF Deliver, TrySend, BlockSend, CountSent, DropNewest, Evict, CountEvicted,
           Pend, Push, Pop, Untouched
    <3>2. Counting(h)' = Counting(h) /\ Hand(h)' = Hand(h) /\ Lost(h)' = Lost(h)
      BY <1>2, <2>1, <2>2, <3>1 DEF Counting, Hand, InHand, Lost, Untouched
    <3>3. QED
      BY <1>1, <1>3, <3>1, <3>2, CountFrame
  <2>3. CASE h = tgt
    <3>1. /\ delivered[h] \in Nat /\ got[h] \in Nat /\ coalesced[h] \in Nat
          /\ offered[h] \in Nat /\ dropped[h] \in Nat
          /\ Len(out[h]) \in Nat /\ Len(carry[h]) \in Nat
      BY <1>1, CountTypes
    <3>2. /\ Evicted(h) \in Nat /\ Refused(h) \in Nat
          /\ IsFiniteSet(Waiting(h)) /\ Cardinality(Waiting(h)) \in Nat
          /\ SentAddsUp(h) /\ (Open(h) => OfferedAddsUp(h))
      BY <1>1, CountTypes, FS_CardinalityType DEF CountAt
    <3> DEFINE o == offered[h]
               d == delivered[h]
               c == Counting(h)
               l == Len(carry[h])
               w == Cardinality(Waiting(h))
               k == coalesced[h]
               r == Refused(h)
    <3>nat. o \in Nat /\ d \in Nat /\ l \in Nat /\ w \in Nat /\ k \in Nat /\ r \in Nat /\ c \in Nat
      BY <3>1, <3>2 DEF Counting
    <3> HIDE DEF o, d, c, l, w, k, r
    <3>3. got'[h] = got[h] /\ carry'[h] = carry[h] /\ loop'[h] = loop[h]
      BY <1>2
    <3>4. pc # "pend" /\ pc # "check" => loop[h] = "off"
      BY <1>1, <1>11, <2>3 DEF Deliver, TrySend, BlockSend, CountSent, DropNewest, Evict, CountEvicted, Pend,
           Shape
    <3>5. CASE Deliver
      <4>1. /\ UNCHANGED <<statVars, out, pending>> /\ offered'[h] = offered[h] + 1
            /\ pc = "check" /\ pc' \in {"pend", "send"}
        BY <1>4, <2>3, <3>5 DEF Deliver, Goto
      <4>2. Hand(h) = 0 /\ Hand(h)' = 1 /\ Counting(h)' = Counting(h)
        BY <2>1, <2>3, <3>3, <4>1 DEF Hand, InHand, Counting
      <4>3. Waiting(h)' = Waiting(h) /\ Evicted(h)' = Evicted(h) /\ Refused(h)' = Refused(h)
        BY <4>1 DEF Waiting, Evicted, Lost, Refused
      <4>4. SentAddsUp(h)'
        BY <3>2, <3>3, <4>1, <4>2, <4>3 DEF SentAddsUp
      <4>5. OfferedAddsUp(h) => OfferedAddsUp(h)'
        <5>1. Counting(h) \in Nat
          BY DEF Counting
        <5>2. /\ delivered'[h] = delivered[h] /\ coalesced'[h] = coalesced[h]
              /\ carry'[h] = carry[h] /\ offered'[h] = offered[h] + 1
          BY <3>3, <4>1
        <5>3. o = d + c + l + w + 0 + k + r => o + 1 = d + c + l + w + 1 + k + r
          BY <3>nat
        <5>4. QED
          BY <4>2, <4>3, <5>2, <5>3, Zenon DEF OfferedAddsUp, o, d, c, l, w, k, r
      <4>6. QED
        BY <1>3, <3>2, <4>3, <4>4, <4>5 DEF CountAt
    <3>6. CASE TrySend \/ BlockSend
      <4>1. /\ UNCHANGED <<statVars, pending, offered>> /\ pc \in {"send", "wait"} /\ pc' = "count"
            /\ Push(h, Head(todo)) /\ ~Full(h) /\ todo # << >>
        BY <1>1, <2>3, <3>6 DEF TrySend, BlockSend, Goto, Shape, Holding
      <4>2. Len(out'[h]) = Len(out[h]) + 1
        <5>1. Head(todo) \in Tick /\ out[h] \in Seq(Tick)
          BY <1>1, <1>4, <4>1, TailFacts DEF TypeOK
        <5>2. out'[h] = Append(out[h], Head(todo))
          BY <1>4, <4>1 DEF Push
        <5>3. QED
          BY <5>1, <5>2, AppendFacts
      <4>3. Hand(h) = 1 /\ Hand(h)' = 0 /\ Counting(h) = 0 /\ Counting(h)' = 1
        BY <2>1, <2>3, <3>3, <3>4, <4>1 DEF Hand, InHand, Counting
      <4>4. Waiting(h)' = Waiting(h) /\ Evicted(h)' = Evicted(h) /\ Refused(h)' = Refused(h)
        BY <4>1 DEF Waiting, Evicted, Lost, Refused
      <4>5. SentAddsUp(h)'
        BY <3>1, <3>2, <3>3, <4>1, <4>2, <4>3, <4>4, SMTT(30) DEF SentAddsUp
      <4>6. OfferedAddsUp(h) => OfferedAddsUp(h)'
        <5>1. /\ delivered'[h] = delivered[h] /\ coalesced'[h] = coalesced[h]
              /\ carry'[h] = carry[h] /\ offered'[h] = offered[h]
          BY <3>3, <4>1
        <5>2. o = d + 0 + l + w + 1 + k + r => o = d + 1 + l + w + 0 + k + r
          BY <3>nat
        <5>3. QED
          BY <4>3, <4>4, <5>1, <5>2, Zenon DEF OfferedAddsUp, o, d, c, l, w, k, r
      <4>7. QED
        BY <1>3, <3>2, <4>4, <4>5, <4>6 DEF CountAt
    <3>7. CASE CountSent
      <4>1. /\ UNCHANGED <<dropped, coalesced, out, pending, offered>>
            /\ delivered'[h] = delivered[h] + 1 /\ pc = "count" /\ pc' = "check"
        BY <1>4, <2>3, <3>7 DEF CountSent, Return
      <4>2. Hand(h) = 0 /\ Hand(h)' = 0 /\ Counting(h) = 1 /\ Counting(h)' = 0
        BY <2>1, <2>3, <3>3, <3>4, <4>1 DEF Hand, InHand, Counting
      <4>3. Waiting(h)' = Waiting(h) /\ Evicted(h)' = Evicted(h) /\ Refused(h)' = Refused(h)
        BY <4>1 DEF Waiting, Evicted, Lost, Refused
      <4>4. SentAddsUp(h)'
        BY <3>1, <3>2, <3>3, <4>1, <4>2, <4>3 DEF SentAddsUp
      <4>5. OfferedAddsUp(h) => OfferedAddsUp(h)'
        BY <3>1, <3>2, <3>3, <4>1, <4>2, <4>3 DEF OfferedAddsUp
      <4>6. QED
        BY <1>3, <3>2, <4>3, <4>4, <4>5 DEF CountAt
    <3>8. CASE DropNewest
      <4>1. /\ UNCHANGED <<delivered, coalesced, out, pending, offered>>
            /\ dropped'[h] = dropped[h] + 1 /\ pc = "send" /\ pc' = "check"
            /\ Policy[h] = "drop_newest"
        BY <1>4, <2>3, <3>8 DEF DropNewest, Return
      <4>2. Hand(h) = 1 /\ Hand(h)' = 0 /\ Counting(h)' = Counting(h) /\ Counting(h) = 0
        BY <2>1, <2>3, <3>3, <3>4, <4>1 DEF Hand, InHand, Counting
      <4>3. Waiting(h)' = Waiting(h) /\ Evicted(h)' = Evicted(h) /\ Refused(h)' = Refused(h) + 1
        BY <4>1 DEF Waiting, Evicted, Lost, Refused
      <4>4. SentAddsUp(h)'
        BY <3>2, <3>3, <4>1, <4>2, <4>3 DEF SentAddsUp
      <4>5. OfferedAddsUp(h) => OfferedAddsUp(h)'
        <5>1. /\ delivered'[h] = delivered[h] /\ coalesced'[h] = coalesced[h]
              /\ carry'[h] = carry[h] /\ offered'[h] = offered[h] /\ Counting(h) \in Nat
          BY <3>3, <4>1, <4>2
        <5>2. o = d + c + l + w + 1 + k + r => o = d + c + l + w + 0 + k + (r + 1)
          BY <3>nat
        <5>3. QED
          BY <4>2, <4>3, <5>1, <5>2, Zenon DEF OfferedAddsUp, o, d, c, l, w, k, r
      <4>6. QED
        BY <1>3, <3>2, <4>3, <4>4, <4>5 DEF CountAt
    <3>9. CASE Evict
      <4>1. /\ UNCHANGED <<statVars, pending, offered>>
            /\ pc = "evict" /\ pc' \in {"evicted", "recheck"} /\ Policy[h] = "drop_oldest"
        BY <1>1, <2>3, <3>9 DEF Evict, Goto, EvictsOldest
      <4>2. Hand(h) = 1 /\ Hand(h)' = 1 /\ Counting(h)' = Counting(h) /\ Counting(h) = 0
        BY <2>1, <2>3, <3>3, <3>4, <4>1 DEF Hand, InHand, Counting
      <4>3. Waiting(h)' = Waiting(h) /\ Refused(h)' = Refused(h) /\ Evicted(h) = dropped[h]
        BY <3>1, <4>1 DEF Waiting, Evicted, Lost, Refused
      <4>4. \/ Len(out'[h]) = Len(out[h]) /\ Evicted(h)' = dropped[h]
            \/ Len(out'[h]) = Len(out[h]) - 1 /\ Evicted(h)' = dropped[h] + 1
        <5>1. CASE out[h] # << >> /\ Pop(h) /\ pc' = "evicted"
          <6>1. out'[h] = Tail(out[h]) /\ Evicted(h)' = dropped[h] + 1
            BY <1>4, <2>1, <2>3, <4>1, <5>1 DEF Pop, Evicted, Lost
          <6>2. Len(Tail(out[h])) = Len(out[h]) - 1 /\ Len(out[h]) \in Nat \ {0}
            BY <1>4, <5>1, TailFacts
          <6>3. QED
            BY <6>1, <6>2
        <5>2. CASE UNCHANGED out /\ pc' = "recheck"
          BY <3>1, <4>1, <5>2 DEF Evicted, Lost
        <5>3. QED
          BY <2>3, <3>9, <5>1, <5>2 DEF Evict, Goto
      <4>5. SentAddsUp(h)'
        <5>1. delivered[h] + 0 = got[h] + Len(out[h]) + dropped[h]
          BY <3>2, <4>2, <4>3 DEF SentAddsUp
        <5>2. delivered'[h] = delivered[h] /\ got'[h] = got[h]
          BY <3>3, <4>1
        <5>3. delivered[h] + 0 = got[h] + Len(out'[h]) + Evicted(h)'
          <6>1. CASE Len(out'[h]) = Len(out[h]) /\ Evicted(h)' = dropped[h]
            BY <5>1, <6>1
          <6>2. CASE Len(out'[h]) = Len(out[h]) - 1 /\ Evicted(h)' = dropped[h] + 1
            <7>1. got[h] + Len(out[h]) + dropped[h] = got[h] + (Len(out[h]) - 1) + (dropped[h] + 1)
              BY <3>1, SMTT(30)
            <7>2. QED
              BY <5>1, <6>2, <7>1
          <6>3. QED
            BY <4>4, <6>1, <6>2
        <5>4. QED
          BY <4>2, <5>2, <5>3 DEF SentAddsUp
      <4>6. OfferedAddsUp(h) => OfferedAddsUp(h)'
        BY <3>3, <4>1, <4>2, <4>3 DEF OfferedAddsUp
      <4>7. QED
        BY <1>3, <3>2, <4>3, <4>5, <4>6 DEF CountAt
    <3>10. CASE Pend
      <4> DEFINE i == Head(todo).inst
      <4>1. Head(todo) \in Tick /\ i \in Instruments
        <5>1. todo # << >> /\ todo \in Seq(Tick)
          BY <1>1, <3>10 DEF Pend, Shape, Holding, TypeOK
        <5>2. Head(todo) \in Tick
          BY <5>1, TailFacts
        <5>3. QED
          BY <5>2 DEF Tick
      <4>2. /\ UNCHANGED <<delivered, dropped, out, offered>> /\ pc = "pend" /\ pc' = "wake"
            /\ coalesced'[h] = IF pending[h][i] # 0 THEN coalesced[h] + 1 ELSE coalesced[h]
            /\ pending'[h] = [pending[h] EXCEPT ![i] = Head(todo).seq]
        BY <1>4, <2>3, <3>10 DEF Pend, Goto
      <4>3. Hand(h) = 1 /\ Hand(h)' = 0 /\ Counting(h)' = Counting(h)
        BY <2>1, <2>3, <3>3, <4>2 DEF Hand, InHand, Counting
      <4>4. Evicted(h)' = Evicted(h) /\ Refused(h)' = Refused(h)
        BY <4>2 DEF Evicted, Lost, Refused
      <4>5. Head(todo).seq \in Nat /\ Head(todo).seq # 0
        <5>1. OnTop(Head(todo), out[h], carry[h], pending[h], last[h])
          BY <2>3, <4>2 DEF OrderInv, InHandOnTop, InHand
        <5>2. pending[h][i] \in Nat /\ Head(todo).seq \in Nat
          BY <1>4, <4>1 DEF Tick
        <5>3. QED
          BY <5>1, <5>2 DEF OnTop
      <4>6. Waiting(h)' = Waiting(h) \cup {i}
        BY <1>4, <4>1, <4>2, <4>5 DEF Waiting
      <4>7. /\ IsFiniteSet(Waiting(h)')
            /\ Cardinality(Waiting(h)') = IF i \in Waiting(h) THEN Cardinality(Waiting(h))
                                                            ELSE Cardinality(Waiting(h)) + 1
        <5>1. /\ IsFiniteSet(Waiting(h) \cup {i})
              /\ Cardinality(Waiting(h) \cup {i}) = IF i \in Waiting(h) THEN Cardinality(Waiting(h))
                                                                ELSE Cardinality(Waiting(h)) + 1
          <6> HIDE DEF i
          <6> QED
            BY <3>2, FS_AddElement
        <5>2. QED
          BY <4>6, <5>1
      <4>8. i \in Waiting(h) <=> pending[h][i] # 0
        BY <4>1 DEF Waiting
      <4>9. SentAddsUp(h)'
        BY <3>2, <3>3, <4>2, <4>3, <4>4 DEF SentAddsUp
      <4>10. OfferedAddsUp(h) => OfferedAddsUp(h)'
        <5>1. /\ delivered'[h] = delivered[h] /\ carry'[h] = carry[h]
              /\ offered'[h] = offered[h]
          BY <3>3, <4>2
        <5>2. Counting(h) \in Nat
          BY DEF Counting
        <5>3. CASE i \in Waiting(h)
          <6>1. /\ coalesced'[h] = coalesced[h] + 1
                /\ Cardinality(Waiting(h)') = Cardinality(Waiting(h))
            BY <4>2, <4>7, <4>8, <5>3
          <6>2. o = d + c + l + w + 1 + k + r => o = d + c + l + w + 0 + (k + 1) + r
            BY <3>nat
          <6>3. QED
            BY <4>3, <4>4, <5>1, <6>1, <6>2, Zenon DEF OfferedAddsUp, o, d, c, l, w, k, r
        <5>4. CASE i \notin Waiting(h)
          <6>1. /\ coalesced'[h] = coalesced[h]
                /\ Cardinality(Waiting(h)') = Cardinality(Waiting(h)) + 1
            BY <4>2, <4>7, <4>8, <5>4
          <6>2. o = d + c + l + w + 1 + k + r => o = d + c + l + (w + 1) + 0 + k + r
            BY <3>nat
          <6>3. QED
            BY <4>3, <4>4, <5>1, <6>1, <6>2, Zenon DEF OfferedAddsUp, o, d, c, l, w, k, r
        <5>5. QED
          BY <5>3, <5>4
      <4>11. QED
        BY <1>3, <3>2, <4>7, <4>9, <4>10 DEF CountAt
    <3>11. CASE CountEvicted
      <4>1. /\ UNCHANGED <<delivered, coalesced, out, pending, offered>>
            /\ dropped'[h] = dropped[h] + 1
            /\ pc = "evicted" /\ pc' = "recheck" /\ Policy[h] = "drop_oldest"
        BY <1>1, <1>4, <2>3, <3>11 DEF CountEvicted, Goto, EvictsOldest
      <4>2. Hand(h)' = Hand(h) /\ Counting(h)' = Counting(h)
        BY <2>1, <2>3, <3>3, <4>1 DEF Hand, InHand, Counting
      <4>3. Waiting(h)' = Waiting(h) /\ Evicted(h)' = Evicted(h) /\ Refused(h)' = Refused(h)
        BY <2>1, <2>3, <3>1, <4>1 DEF Waiting, Evicted, Lost, Refused
      <4>4. SentAddsUp(h)' /\ (OfferedAddsUp(h) => OfferedAddsUp(h)')
        BY <3>2, <3>3, <4>1, <4>2, <4>3 DEF SentAddsUp, OfferedAddsUp
      <4>5. QED
        BY <1>3, <3>2, <4>3, <4>4 DEF CountAt
    <3>12. QED
      BY <1>11, <3>5, <3>6, <3>7, <3>8, <3>9, <3>10, <3>11
  <2>4. QED
    BY <2>2, <2>3
<1>12. QED
  BY <1>6, <1>7, <1>8, <1>9, <1>10, <1>11 DEF PublishStep

LEMMA CountLoop ==
  ASSUME OrderInv, Counts, NEW g \in Handles, LoopStep(g), NEW h \in Handles
  PROVE  CountAt(h)'
<1>1. TypeOK /\ Shape /\ CountAt(h)
  BY DEF OrderInv, TypeInv, Counts
<1>2. UNCHANGED <<done, pc, tgt, got, dropped, coalesced, offered>>
  BY DEF LoopStep, LoopWoken, LoopEmpty, LoopSend, LoopCount, LoopExit, LoopTake,
       pubVars, regVars, statVars, readVars, offerVars
<1>3. Open(h)' = Open(h) /\ Hand(h)' = Hand(h)
  BY <1>2 DEF Open, Hand, InHand
<1>4. /\ delivered \in [Handles -> Nat] /\ loop \in [Handles -> LoopStates]
      /\ out \in [Handles -> Seq(Tick)] /\ carry \in [Handles -> Seq(Tick)]
      /\ pending \in [Handles -> [Instruments -> Nat]]
  BY <1>1 DEF TypeOK, QueueOK
<1>5. Evicted(h)' = Evicted(h) /\ Refused(h)' = Refused(h)
  BY <1>2 DEF Evicted, Lost, Refused
<1> USE DEF coalVars, statVars
<1>6. CASE h # g
  <2>1. Untouched(h) /\ loop'[h] = loop[h]
    BY <1>2, <1>4, <1>6 DEF LoopStep, LoopWoken, LoopEmpty, LoopSend, LoopCount, LoopExit,
         LoopTake, Push, Untouched
  <2>2. Counting(h)' = Counting(h) /\ Lost(h)' = Lost(h)
    BY <1>2, <2>1 DEF Counting, Lost
  <2>3. QED
    BY <1>1, <1>3, <2>1, <2>2, CountFrame
<1>7. CASE h = g
  <2>1. tgt = h => pc # "count"
    BY <1>1, <1>7 DEF Shape, LoopStep, LoopWoken, LoopEmpty, LoopSend, LoopCount, LoopExit,
         LoopTake
  <2>2. /\ delivered[h] \in Nat /\ got[h] \in Nat /\ coalesced[h] \in Nat
        /\ offered[h] \in Nat /\ dropped[h] \in Nat
        /\ Len(out[h]) \in Nat /\ Len(carry[h]) \in Nat
    BY <1>1, CountTypes
  <2>3. /\ Evicted(h) \in Nat /\ Refused(h) \in Nat
        /\ IsFiniteSet(Waiting(h)) /\ Cardinality(Waiting(h)) \in Nat
        /\ SentAddsUp(h) /\ (Open(h) => OfferedAddsUp(h))
    BY <1>1, CountTypes, FS_CardinalityType DEF CountAt
  <2> DEFINE o == offered[h]
             d == delivered[h]
             n == Hand(h)
             w == Cardinality(Waiting(h))
             k == coalesced[h]
             r == Refused(h)
             q == Len(out[h])
             x == got[h]
             e == Evicted(h)
  <2>4. /\ o \in Nat /\ d \in Nat /\ w \in Nat /\ k \in Nat /\ r \in Nat /\ n \in Nat
        /\ q \in Nat /\ x \in Nat /\ e \in Nat
    BY <2>2, <2>3 DEF Hand
  <2> HIDE DEF o, d, n, w, k, r, q, x, e
  <2>5. CASE LoopWoken(h) \/ LoopEmpty(h)
    <3>1. Untouched(h) /\ loop[h] # "count" /\ loop'[h] # "count"
      BY <1>2, <1>4, <2>5 DEF LoopWoken, LoopEmpty, Untouched
    <3>2. Counting(h)' = Counting(h) /\ Lost(h)' = Lost(h)
      BY <1>2, <2>1, <3>1 DEF Counting, Lost
    <3>3. QED
      BY <1>1, <1>3, <3>1, <3>2, CountFrame
  <2>6. CASE LoopSend(h)
    <3>1. /\ delivered' = delivered /\ pending' = pending /\ loop[h] = "send"
          /\ loop'[h] = "count" /\ carry'[h] = << >> /\ out'[h] = Append(out[h], Head(carry[h]))
      BY <1>4, <2>6 DEF LoopSend, Push
    <3>2. Len(carry[h]) = 1 /\ Head(carry[h]) \in Tick
      BY <1>1, <1>4, <3>1, TailFacts DEF Shape
    <3>3. Len(out'[h]) = Len(out[h]) + 1 /\ Len(carry'[h]) = 0
      BY <1>4, <3>1, <3>2, AppendFacts
    <3>4. Counting(h) = 0 /\ Counting(h)' = 1 /\ Waiting(h)' = Waiting(h)
      BY <1>2, <2>1, <3>1 DEF Counting, Waiting
    <3>5. SentAddsUp(h)'
      <4>1. d + 0 = x + q + e => d + 1 = x + (q + 1) + e
        BY <2>4
      <4>2. QED
        BY <1>2, <1>5, <2>3, <3>1, <3>3, <3>4, <4>1 DEF SentAddsUp, d, x, q, e
    <3>6. OfferedAddsUp(h) => OfferedAddsUp(h)'
      <4>1. o = d + 0 + 1 + w + n + k + r => o = d + 1 + 0 + w + n + k + r
        BY <2>4
      <4>2. QED
        BY <1>2, <1>3, <1>5, <3>1, <3>2, <3>3, <3>4, <4>1 DEF OfferedAddsUp, o, d, w, n, k, r
    <3>7. QED
      BY <1>3, <2>3, <3>4, <3>5, <3>6 DEF CountAt
  <2>7. CASE LoopCount(h)
    <3>1. /\ delivered'[h] = delivered[h] + 1 /\ pending' = pending /\ loop[h] = "count"
          /\ loop'[h] = "drain" /\ carry' = carry /\ out' = out
      BY <1>4, <2>7 DEF LoopCount
    <3>2. Counting(h) = 1 /\ Counting(h)' = 0 /\ Waiting(h)' = Waiting(h)
      BY <1>2, <2>1, <3>1 DEF Counting, Waiting
    <3>3. SentAddsUp(h)'
      <4>1. d + 1 = x + q + e => (d + 1) + 0 = x + q + e
        BY <2>4
      <4>2. QED
        BY <1>2, <1>5, <2>3, <3>1, <3>2, <4>1 DEF SentAddsUp, d, x, q, e
    <3>4. OfferedAddsUp(h) => OfferedAddsUp(h)'
      <4>1. d + 1 = (d + 1) + 0
        BY <2>4
      <4>2. QED
        BY <1>2, <1>3, <1>5, <3>1, <3>2, <4>1 DEF OfferedAddsUp, d
    <3>5. QED
      BY <1>3, <2>3, <3>2, <3>3, <3>4 DEF CountAt
  <2>8. CASE LoopExit(h)
    <3>1. /\ delivered' = delivered /\ pending' = pending /\ loop[h] # "count" /\ done[h]
          /\ loop'[h] = "off" /\ out' = out
      BY <1>4, <2>8 DEF LoopExit
    <3>2. Counting(h)' = Counting(h) /\ Waiting(h)' = Waiting(h)
      BY <1>2, <2>1, <3>1 DEF Counting, Waiting
    <3>3. SentAddsUp(h)'
      BY <1>2, <1>5, <2>3, <3>1, <3>2 DEF SentAddsUp
    <3>4. ~Open(h)'
      BY <1>2, <3>1 DEF Open
    <3>5. QED
      BY <2>3, <3>2, <3>3, <3>4 DEF CountAt
  <2>9. CASE \E i \in Instruments : LoopTake(h, i)
    <3>1. PICK i \in Instruments : LoopTake(h, i)
      BY <2>9
    <3>2. /\ delivered' = delivered /\ out' = out /\ loop[h] = "drain" /\ loop'[h] = "send"
          /\ carry'[h] = <<[inst |-> i, seq |-> pending[h][i]]>>
          /\ pending[h][i] # 0 /\ pending'[h] = [pending[h] EXCEPT ![i] = 0]
      BY <1>4, <3>1 DEF LoopTake
    <3>3. Len(carry[h]) = 0 /\ Len(carry'[h]) = 1
      BY <1>1, <1>4, <3>2 DEF Shape
    <3>4. Waiting(h)' = Waiting(h) \ {i} /\ i \in Waiting(h)
      BY <1>4, <3>2 DEF Waiting
    <3>5. /\ IsFiniteSet(Waiting(h) \ {i})
          /\ Cardinality(Waiting(h) \ {i}) = Cardinality(Waiting(h)) - 1
      BY <2>3, <3>4, FS_RemoveElement
    <3>6. Counting(h) = 0 /\ Counting(h)' = 0
      BY <1>2, <2>1, <3>2 DEF Counting
    <3>7. SentAddsUp(h)'
      BY <1>2, <1>5, <2>3, <3>2, <3>6 DEF SentAddsUp
    <3>8. OfferedAddsUp(h) => OfferedAddsUp(h)'
      <4>1. o = d + 0 + 0 + w + n + k + r => o = d + 0 + 1 + (w - 1) + n + k + r
        BY <2>4
      <4>2. QED
        BY <1>2, <1>3, <1>5, <3>2, <3>3, <3>4, <3>5, <3>6, <4>1 DEF OfferedAddsUp, o, d, w, n, k, r
    <3>9. QED
      BY <1>3, <3>4, <3>5, <3>7, <3>8, <2>3 DEF CountAt
  <2>10. QED
    BY <1>7, <2>5, <2>6, <2>7, <2>8, <2>9 DEF LoopStep
<1>8. QED
  BY <1>6, <1>7

LEMMA CountConsume ==
  ASSUME OrderInv, Counts, NEW g \in Handles, Consume(g), NEW h \in Handles
  PROVE  CountAt(h)'
<1>1. TypeOK /\ CountAt(h)
  BY DEF OrderInv, TypeInv, Counts
<1>2. UNCHANGED <<done, pc, tgt, loop, carry, pending, delivered, dropped, coalesced, offered>>
  BY DEF Consume, pubVars, regVars, coalVars, loopVars, statVars, offerVars
<1>3. /\ Open(h)' = Open(h) /\ Hand(h)' = Hand(h) /\ Counting(h)' = Counting(h)
      /\ Evicted(h)' = Evicted(h) /\ Refused(h)' = Refused(h) /\ Waiting(h)' = Waiting(h)
  BY <1>2 DEF Open, Hand, InHand, Counting, Evicted, Lost, Refused, Waiting
<1>4. OfferedAddsUp(h) => OfferedAddsUp(h)'
  BY <1>2, <1>3 DEF OfferedAddsUp
<1>5. got \in [Handles -> Nat] /\ out \in [Handles -> Seq(Tick)]
  BY <1>1 DEF TypeOK, QueueOK
<1>6. SentAddsUp(h)'
  <2>1. CASE h # g
    <3>1. got'[h] = got[h] /\ out'[h] = out[h]
      BY <1>5, <2>1 DEF Consume, Pop
    <3>2. QED
      BY <1>1, <1>2, <1>3, <3>1 DEF SentAddsUp, CountAt
  <2>2. CASE h = g
    <3>1. got'[h] = got[h] + 1 /\ out'[h] = Tail(out[h]) /\ out[h] # << >>
      BY <1>5, <2>2 DEF Consume, Pop
    <3>2. Len(out'[h]) = Len(out[h]) - 1
      BY <1>5, <3>1, TailFacts
    <3> DEFINE x == got[h]
               q == Len(out[h])
               e == Evicted(h)
    <3>3. x \in Nat /\ q \in Nat /\ e \in Nat
      BY <1>1, CountTypes
    <3> HIDE DEF x, q, e
    <3>4. x + q + e = (x + 1) + (q - 1) + e
      BY <3>3
    <3>5. QED
      BY <1>1, <1>2, <1>3, <3>1, <3>2, <3>4 DEF SentAddsUp, CountAt, x, q, e
  <2>3. QED
    BY <2>1, <2>2
<1>7. QED
  BY <1>1, <1>3, <1>4, <1>6 DEF CountAt

(* Steps of the callers, of the pump between two frames, and of a consumer *)
(* that leaves: they move no tick.                                         *)
LEMMA CountIdle ==
  ASSUME TypeInv, Counts, NEW h \in Handles,
         \/ \E i \in Instruments : Assign(i)
         \/ PumpStops \/ Cancel \/ CloseBus
         \/ \E g \in Handles : Subscribe(g) \/ CloseSub(g) \/ Shutdown(g) \/ ConsumerStops(g)
         \/ UNCHANGED vars
  PROVE  CountAt(h)'
<1>1. TypeOK /\ Shape /\ CountAt(h)
  BY DEF TypeInv, Counts
<1>2. UNCHANGED <<carry, pending, out, got, delivered, dropped, coalesced, offered, tgt>>
  BY DEF Assign, PumpStops, Cancel, CloseBus, Subscribe, CloseSub, Shutdown, ConsumerStops, vars,
       pubVars, coalVars, loopVars, statVars, readVars, offerVars
<1>3. Untouched(h)
  BY <1>2 DEF Untouched
<1>4. pc' = pc \/ (pc \in {"idle", "filled"} /\ pc' \in {"filled", "stopped"})
  BY DEF Assign, PumpStops, Cancel, CloseBus, Subscribe, CloseSub, Shutdown, ConsumerStops, vars,
       pubVars
<1>5. loop'[h] = loop[h] \/ (loop[h] = "off" /\ loop'[h] \in {"off", "select"})
  <2>1. CASE \E g \in Handles : Subscribe(g)
    BY <1>1, <2>1 DEF Subscribe, TypeOK, Shape
  <2>2. CASE loop' = loop
    BY <2>2
  <2>3. QED
    BY <2>1, <2>2 DEF Assign, PumpStops, Cancel, CloseBus, CloseSub, Shutdown, ConsumerStops,
         vars, loopVars
<1>6. done[h] => done'[h]
  BY <1>1 DEF Assign, PumpStops, Cancel, CloseBus, Subscribe, CloseSub, Shutdown, ConsumerStops,
       vars, regVars, TypeOK
<1>7. pc = "stopped" => pc' = "stopped"
  BY <1>4
<1>8. Counting(h)' = Counting(h) /\ Lost(h)' = Lost(h)
  BY <1>2, <1>4, <1>5 DEF Counting, Lost
<1>9. Hand(h)' = Hand(h)
  BY <1>2, <1>4 DEF Hand, InHand
<1>10. Open(h)' => Open(h)
  BY <1>6, <1>7 DEF Open
<1>11. QED
  BY <1>1, <1>3, <1>8, <1>9, <1>10, CountFrame

LEMMA EvictsOldestStep ==
  ASSUME TypeInv, EvictsOldest, [Next]_vars
  PROVE  EvictsOldest'
<1>1. \/ pc' \notin {"evict", "evicted"}
      \/ pc' = pc /\ tgt' = tgt
      \/ OldestFull
      \/ pc = "evict" /\ tgt' = tgt
  BY DEF Next, PublishStep, LoopStep, Assign, PumpStops, Cancel, CloseBus, Subscribe, CloseSub,
       Shutdown, ConsumerStops, Consume, LoopWoken, LoopEmpty, LoopSend, LoopCount, LoopExit,
       LoopTake, NextTarget, Publish, PublishReturns, TargetServed, Skip, Deliver, TrySend,
       CountSent, DropNewest, BlockFull, BlockSend, BlockDone, BlockCancelled, Evict,
       CountEvicted, OldestRetry,
       Pend, Wake, Goto, Return, vars, pubVars
<1>2. OldestFull => Policy[tgt] = "drop_oldest" /\ tgt' = tgt
  BY DEF OldestFull, Goto
<1>3. QED
  BY <1>1, <1>2 DEF EvictsOldest

(* Every step keeps the counts. *)
LEMMA CountStep ==
  ASSUME OrderInv, Counts, [Next]_vars
  PROVE  Counts'
<1>1. ASSUME NEW h \in Handles
      PROVE  CountAt(h)'
  <2>1. CASE PublishStep
    BY <1>1, <2>1, CountPublish
  <2>2. CASE \E g \in Handles : LoopStep(g)
    BY <1>1, <2>2, CountLoop
  <2>3. CASE \E g \in Handles : Consume(g)
    BY <1>1, <2>3, CountConsume
  <2>4. CASE \/ \E i \in Instruments : Assign(i)
             \/ PumpStops \/ Cancel \/ CloseBus
             \/ \E g \in Handles : Subscribe(g) \/ CloseSub(g) \/ Shutdown(g) \/ ConsumerStops(g)
             \/ UNCHANGED vars
    BY <1>1, <2>4, CountIdle DEF OrderInv
  <2>5. QED
    BY <2>1, <2>2, <2>3, <2>4 DEF Next
<1>2. EvictsOldest'
  BY EvictsOldestStep DEF OrderInv, Counts
<1>3. QED
  BY <1>1, <1>2 DEF Counts

LEMMA CountInit == Init => Counts
<1> SUFFICES ASSUME Init, NEW h \in Handles PROVE CountAt(h) /\ EvictsOldest
  BY DEF Counts, Init, EvictsOldest
<1>1. EvictsOldest
  BY DEF Init, EvictsOldest
<1>2. /\ delivered[h] = 0 /\ dropped[h] = 0 /\ coalesced[h] = 0 /\ got[h] = 0 /\ offered[h] = 0
      /\ out[h] = << >> /\ carry[h] = << >> /\ loop[h] = "off" /\ pc = "idle"
  BY DEF Init
<1>3. Waiting(h) = {}
  BY DEF Init, Waiting
<1>4. Cardinality(Waiting(h)) = 0 /\ IsFiniteSet(Waiting(h))
  BY <1>3, FS_EmptySet
<1>5. Counting(h) = 0 /\ Hand(h) = 0 /\ Evicted(h) = 0 /\ Refused(h) = 0
  BY <1>2 DEF Counting, Hand, InHand, Evicted, Lost, Refused
<1>6. Len(out[h]) = 0 /\ Len(carry[h]) = 0
  BY <1>2
<1>7. SentAddsUp(h) /\ OfferedAddsUp(h)
  BY <1>2, <1>4, <1>5, <1>6 DEF SentAddsUp, OfferedAddsUp
<1>8. QED
  BY <1>1, <1>4, <1>7 DEF CountAt

LEMMA CountsGiveAll == TypeOK /\ Counts => NothingVanishes
<1> SUFFICES ASSUME TypeOK, Counts, NEW h \in Handles
             PROVE  /\ Sent(h) = got[h] + Len(out[h])
                                    + (IF Policy[h] = "drop_oldest" THEN Lost(h) ELSE 0)
                    /\ ~done[h] /\ pc # "stopped" =>
                         offered[h] = Sent(h) + Held(h) + coalesced[h]
                                       + (IF Policy[h] = "drop_newest" THEN dropped[h] ELSE 0)
  BY DEF NothingVanishes
<1>1. CountAt(h)
  BY DEF Counts
<1> DEFINE o == offered[h]
           d == delivered[h]
           c == Counting(h)
           l == Len(carry[h])
           w == Cardinality(Waiting(h))
           n == Hand(h)
           k == coalesced[h]
           r == Refused(h)
<1>2. /\ o \in Nat /\ d \in Nat /\ c \in Nat /\ l \in Nat /\ w \in Nat /\ n \in Nat
      /\ k \in Nat /\ r \in Nat
  BY <1>1, CountTypes, FS_CardinalityType DEF CountAt
<1>3. Sent(h) = d + c /\ Held(h) = l + w + n
  BY DEF Sent, Held, Counting, Waiting, Hand
<1>4. Open(h) => o = d + c + l + w + n + k + r
  BY <1>1 DEF CountAt, OfferedAddsUp
<1> HIDE DEF o, d, c, l, w, n, k, r
<1>5. d + c + l + w + n + k + r = (d + c) + (l + w + n) + k + r
  BY <1>2
<1>6. Open(h) => o = Sent(h) + Held(h) + k + r
  BY <1>3, <1>4, <1>5
<1>7. Sent(h) = got[h] + Len(out[h]) + Evicted(h)
  BY <1>1, <1>3 DEF CountAt, SentAddsUp, d, c
<1>8. QED
  BY <1>6, <1>7 DEF Open, Evicted, Refused, o, k, r

(* Nothing vanishes: at every moment the Stats counters, the queue, the    *)
(* tick in hand and the pending ones account for every tick that reached a *)
(* subscription, whatever the policies, the capacities and the interleaving *)
(* of publisher, coalesceLoop, consumer and shutdown.                      *)
THEOREM CountsCorrect == Spec => []NothingVanishes
<1>1. OrderInv => TypeOK
  BY DEF OrderInv, TypeInv
<1>2. OrderInv /\ Counts => NothingVanishes
  BY <1>1, CountsGiveAll
<1>3. OrderInv /\ Counts /\ [Next]_vars => OrderInv' /\ Counts'
  BY OrderStep, CountStep
<1>4. QED
  BY <1>2, <1>3, OrderInit, CountInit, PTL DEF Spec

-----------------------------------------------------------------------------
(* The policies.  The numbers of an instrument's ticks in a queue, and     *)
(* what a send and a receive do to them.                                   *)
Nums(s, i) == {s[k].seq : k \in {j \in DOMAIN s : s[j].inst = i}}

LEMMA NumsAre ==
  ASSUME NEW s, NEW i, NEW x
  PROVE  x \in Nums(s, i) <=> \E k \in DOMAIN s : s[k].inst = i /\ s[k].seq = x
  BY DEF Nums

LEMMA NumsAppend ==
  ASSUME NEW s \in Seq(Tick), NEW t \in Tick, NEW i
  PROVE  Nums(Append(s, t), i) = IF t.inst = i THEN Nums(s, i) \cup {t.seq} ELSE Nums(s, i)
<1> DEFINE q == Append(s, t)
<1>1. /\ Len(s) \in Nat /\ DOMAIN s = 1 .. Len(s) /\ DOMAIN q = 1 .. (Len(s) + 1)
      /\ q[Len(s) + 1] = t /\ \A k \in 1 .. Len(s) : q[k] = s[k]
  OBVIOUS
<1> HIDE DEF q
<1>2. \A x : (\E k \in DOMAIN q : q[k].inst = i /\ q[k].seq = x)
              <=> (t.inst = i /\ t.seq = x) \/ \E k \in DOMAIN s : s[k].inst = i /\ s[k].seq = x
  BY <1>1
<1>3. \A x : x \in Nums(q, i) <=> (t.inst = i /\ t.seq = x) \/ x \in Nums(s, i)
  BY <1>2, NumsAre
<1>4. QED
  BY <1>3 DEF q

LEMMA NumsTail ==
  ASSUME NEW s \in Seq(Tick), s # << >>, Ordered(s), NEW i
  PROVE  IF Head(s).inst = i
         THEN /\ Nums(Tail(s), i) = Nums(s, i) \ {Head(s).seq}
              /\ Head(s).seq \in Nums(s, i)
              /\ \A x \in Nums(s, i) : Head(s).seq <= x
         ELSE Nums(Tail(s), i) = Nums(s, i)
<1> DEFINE q == Tail(s)
<1>1. /\ Len(s) \in Nat \ {0} /\ DOMAIN s = 1 .. Len(s) /\ DOMAIN q = 1 .. (Len(s) - 1)
      /\ \A k \in 1 .. (Len(s) - 1) : q[k] = s[k + 1]
      /\ Head(s) = s[1] /\ \A k \in 1 .. Len(s) : s[k].seq \in Nat
  BY TailFacts, TickFacts
<1> HIDE DEF q
<1>2. \A k \in 1 .. Len(s) : k = 1 \/ (k - 1 \in DOMAIN q /\ q[k - 1] = s[k])
  BY <1>1
<1>3. \A k \in DOMAIN q : k + 1 \in DOMAIN s /\ s[k + 1] = q[k] /\ 1 < k + 1
  BY <1>1
<1>4. \A x : x \in Nums(s, i) <=> (s[1].inst = i /\ s[1].seq = x) \/ x \in Nums(q, i)
  <2>1. ASSUME NEW x, x \in Nums(s, i) PROVE (s[1].inst = i /\ s[1].seq = x) \/ x \in Nums(q, i)
    <3>1. PICK k \in DOMAIN s : s[k].inst = i /\ s[k].seq = x
      BY <2>1, NumsAre
    <3>2. CASE k = 1
      BY <3>1, <3>2
    <3>3. CASE k # 1
      BY <1>1, <1>2, <3>1, <3>3, NumsAre
    <3>4. QED
      BY <3>2, <3>3
  <2>2. ASSUME NEW x, s[1].inst = i /\ s[1].seq = x PROVE x \in Nums(s, i)
    BY <1>1, <2>2, NumsAre
  <2>3. ASSUME NEW x, x \in Nums(q, i) PROVE x \in Nums(s, i)
    <3>1. PICK k \in DOMAIN q : q[k].inst = i /\ q[k].seq = x
      BY <2>3, NumsAre
    <3>2. QED
      BY <1>3, <3>1, NumsAre
  <2>4. QED
    BY <2>1, <2>2, <2>3
<1>5. ASSUME s[1].inst = i, NEW x \in Nums(q, i) PROVE s[1].seq <= x /\ s[1].seq # x
  <2>1. PICK k \in DOMAIN q : q[k].inst = i /\ q[k].seq = x
    BY NumsAre
  <2>2. k + 1 \in DOMAIN s /\ s[k + 1].inst = i /\ s[k + 1].seq = x /\ 1 < k + 1 /\ 1 \in DOMAIN s
    BY <1>1, <1>3, <2>1
  <2>3. s[1].seq < x
    BY <1>5, <2>2 DEF Ordered
  <2>4. x \in Nat /\ s[1].seq \in Nat
    BY <1>1, <2>2
  <2>5. QED
    BY <2>3, <2>4
<1>6. CASE s[1].inst = i
  <2>1. s[1].seq \in Nat /\ \A x \in Nums(s, i) : x = s[1].seq \/ x \in Nums(q, i)
    BY <1>1, <1>4
  <2>2. \A x \in Nums(s, i) : s[1].seq <= x
    BY <1>5, <1>6, <2>1
  <2>3. s[1].seq \notin Nums(q, i)
    BY <1>5, <1>6, <2>1
  <2>4. Nums(q, i) = Nums(s, i) \ {s[1].seq}
    BY <1>4, <1>6, <2>3
  <2>5. QED
    BY <1>1, <1>4, <1>6, <2>2, <2>4 DEF q
<1>7. CASE s[1].inst # i
  <2>1. Nums(q, i) = Nums(s, i)
    BY <1>4, <1>7
  <2>2. QED
    BY <1>1, <1>7, <2>1 DEF q
<1>8. QED
  BY <1>6, <1>7

LEMMA RunPush ==
  ASSUME NEW m \in Nat, NEW n \in Nat, m <= n
  PROVE  (m .. (n - 1)) \cup {n} = m .. n
  OBVIOUS

LEMMA RunPop ==
  ASSUME NEW m \in Nat, NEW n \in Int, NEW x \in m .. n, \A y \in m .. n : x <= y
  PROVE  x = m /\ m <= n /\ (m .. n) \ {x} = (m + 1) .. n
<1>1. m <= n
  OBVIOUS
<1>2. m \in m .. n
  BY <1>1
<1>3. x = m
  BY <1>2
<1>4. QED
  BY <1>1, <1>3

-----------------------------------------------------------------------------
(* The supply: each frame numbers an instrument's ticks without a gap, and *)
(* what is still due to a registered subscription follows on the newest it *)
(* was offered.                                                            *)
HasNext(s, i, n, b) == n < b => \E k \in DOMAIN s : s[k] = [inst |-> i, seq |-> n + 1]
Consecutive(s, f) == \A k \in DOMAIN s : HasNext(s, s[k].inst, s[k].seq, f[s[k].inst])

Due(h) == IF h = tgt THEN todo
          ELSE IF h \in rest \/ pc \in {"idle", "filled"} THEN batch ELSE << >>
Fed(h) == h \in subs \/ h \in rest \/ h = tgt
Wanted(h) == {i \in Instruments : Filter[h] = {} \/ i \in Filter[h]}

Continues(h) ==
  pc # "stopped" /\ ~done[h] /\ Fed(h) =>
    \A i \in Wanted(h) : newest[h][i] # 0 => HasNext(Due(h), i, newest[h][i], next[i])

Supply ==
  /\ Consecutive(batch, next)
  /\ pc \in Serving => Consecutive(todo, next)
  /\ pc \in {"idle", "filled"} => rest = {}
  /\ subs \subseteq made /\ rest \subseteq made /\ tgt \in made \cup {None}
  /\ \A h \in Handles : h \notin made => \A i \in Instruments : newest[h][i] = 0
  /\ \A h \in Handles : Continues(h)

(* The tick in hand is the newest its subscription was offered. *)
Matches == pc \in Holding => newest[tgt][Head(todo).inst] = Head(todo).seq

(* Waiting and evicting belong to one policy each. *)
WaitsBlock == pc = "wait" => Policy[tgt] = "block"

(* What a step may do to the publisher and to the register of              *)
(* subscriptions.                                                          *)
Kept == <<next, batch, rest, newest, subs, made, done>>
Returns ==
  /\ pc \in Serving /\ todo # << >> /\ Return /\ UNCHANGED <<newest, subs, made, done>>
  /\ pc \in Holding \/ ~wants(tgt, Head(todo)) \/ done[tgt]
Moves == pc \in Holding /\ pc' \in Holding /\ UNCHANGED <<Kept, tgt, todo>>
Stops == pc' = "stopped" /\ UNCHANGED Kept /\ tgt' = None
Aside ==
  /\ UNCHANGED <<pubVars, newest>> /\ made \subseteq made' /\ subs' \subseteq made'
  /\ \A h \in subs' : h \in subs \/ h \notin made
  /\ \A h \in Handles : done[h] => done'[h]
Kind ==
  \/ \E i \in Instruments : Assign(i)
  \/ \E h \in Handles : NextTarget(h)
  \/ Publish \/ PublishReturns \/ TargetServed \/ Deliver
  \/ Returns \/ Moves \/ Stops \/ Aside

LEMMA StepKind ==
  ASSUME TypeInv, subs \subseteq made, [Next]_vars
  PROVE  Kind
<1> USE DEF pubVars, regVars, offerVars
<1>1. TypeOK /\ Shape
  BY DEF TypeInv
<1>2. CASE \/ \E i \in Instruments : Assign(i)
           \/ \E h \in Handles : NextTarget(h)
           \/ Publish \/ PublishReturns \/ TargetServed \/ Deliver
  BY <1>2 DEF Kind
<1>3. CASE Skip \/ CountSent \/ DropNewest \/ BlockDone \/ Wake \/ (OldestRetry /\ done[tgt])
  <2>1. pc \in Serving /\ todo # << >>
    BY <1>1, <1>3 DEF Skip, CountSent, DropNewest, BlockDone, Wake, OldestRetry, Shape, Serving, Holding
  <2>2. Return /\ UNCHANGED <<newest, subs, made, done>>
    BY <1>3 DEF Skip, CountSent, DropNewest, BlockDone, Wake, OldestRetry
  <2>3. pc \in Holding \/ ~wants(tgt, Head(todo)) \/ done[tgt]
    BY <1>3 DEF Skip, CountSent, DropNewest, BlockDone, Wake, OldestRetry, Holding
  <2>4. QED
    BY <2>1, <2>2, <2>3 DEF Kind, Returns
<1>4. CASE \/ TrySend \/ BlockFull \/ BlockSend \/ OldestFull \/ Evict \/ CountEvicted
           \/ Pend \/ (OldestRetry /\ ~done[tgt])
  <2>1. pc \in Holding /\ pc' \in Holding /\ UNCHANGED <<Kept, tgt, todo>>
    BY <1>4 DEF TrySend, BlockFull, BlockSend, OldestFull, Evict, CountEvicted, Pend, OldestRetry,
       Goto, Holding, Kept
  <2>2. QED
    BY <2>1 DEF Kind, Moves
<1>5. CASE PumpStops \/ BlockCancelled
  <2>1. pc' = "stopped" /\ UNCHANGED Kept /\ (tgt' = None \/ (tgt' = tgt /\ pc = "idle"))
    BY <1>5 DEF PumpStops, BlockCancelled, Kept
  <2>2. pc = "idle" => tgt = None
    BY <1>1 DEF Shape, Serving, Holding
  <2>3. QED
    BY <2>1, <2>2 DEF Kind, Stops
<1>6. CASE Cancel \/ CloseBus \/ UNCHANGED vars
           \/ \E h \in Handles : Subscribe(h) \/ CloseSub(h) \/ Shutdown(h) \/ LoopStep(h)
                                 \/ Consume(h) \/ ConsumerStops(h)
  <2>1. UNCHANGED <<pubVars, newest>>
    BY <1>6 DEF Cancel, CloseBus, vars, Subscribe, CloseSub, Shutdown, LoopStep, Consume, ConsumerStops,
         LoopWoken, LoopEmpty, LoopSend, LoopCount, LoopExit, LoopTake
  <2>2. /\ made \subseteq made' /\ subs' \subseteq made'
        /\ \A h \in subs' : h \in subs \/ h \notin made
    BY <1>6 DEF Cancel, CloseBus, vars, Subscribe, CloseSub, Shutdown, LoopStep, Consume, ConsumerStops,
         LoopWoken, LoopEmpty, LoopSend, LoopCount, LoopExit, LoopTake
  <2>3. \A h \in Handles : done[h] => done'[h]
    BY <1>1, <1>6 DEF Cancel, CloseBus, vars, Subscribe, CloseSub, Shutdown, LoopStep, Consume,
         ConsumerStops, LoopWoken, LoopEmpty, LoopSend, LoopCount, LoopExit, LoopTake, TypeOK
  <2>4. QED
    BY <2>1, <2>2, <2>3 DEF Kind, Aside
<1>7. QED
  BY <1>2, <1>3, <1>4, <1>5, <1>6 DEF Next, PublishStep

LEMMA MatchesStep ==
  ASSUME TypeInv, Matches, Kind
  PROVE  Matches'
<1>1. CASE Deliver
  <2>1. tgt' = tgt /\ todo' = todo /\ todo # << >> /\ pc = "check"
        /\ newest' = [newest EXCEPT ![tgt][Head(todo).inst] = Head(todo).seq]
    BY <1>1 DEF Deliver, Goto
  <2>2. tgt \in Handles /\ Head(todo).inst \in Instruments /\ newest \in [Handles -> IFun]
    BY <2>1, ServedTypes DEF TypeInv, TypeOK, Serving, IFun
  <2>3. newest'[tgt][Head(todo).inst] = Head(todo).seq
    BY <2>1, <2>2 DEF IFun
  <2>4. QED
    BY <2>1, <2>3 DEF Matches
<1>2. CASE Moves \/ Aside
  BY <1>2 DEF Moves, Aside, Matches, Kept, pubVars
<1>3. CASE pc' \notin Holding
  BY <1>3 DEF Matches
<1>4. QED
  BY <1>1, <1>2, <1>3 DEF Kind, Assign, NextTarget, Publish, PublishReturns, TargetServed, Returns,
       Return, Stops, Holding

LEMMA WaitsBlockStep ==
  ASSUME TypeInv, WaitsBlock, [Next]_vars
  PROVE  WaitsBlock'
<1>1. \/ pc' # "wait"
      \/ pc' = pc /\ tgt' = tgt
      \/ BlockFull
  BY DEF Next, PublishStep, LoopStep, Assign, PumpStops, Cancel, CloseBus, Subscribe, CloseSub,
       Shutdown, ConsumerStops, Consume, LoopWoken, LoopEmpty, LoopSend, LoopCount, LoopExit,
       LoopTake, NextTarget, Publish, PublishReturns, TargetServed, Skip, Deliver, TrySend,
       CountSent, DropNewest, OldestFull, BlockSend, BlockDone, BlockCancelled, Evict,
       CountEvicted, OldestRetry,
       Pend, Wake, Goto, Return, vars, pubVars
<1>2. BlockFull => Policy[tgt] = "block" /\ tgt' = tgt
  BY DEF BlockFull, Goto
<1>3. QED
  BY <1>1, <1>2 DEF WaitsBlock

LEMMA HasNextTail ==
  ASSUME NEW s \in Seq(Tick), s # << >>, NEW i, NEW n, NEW b, HasNext(s, i, n, b),
         Head(s) # [inst |-> i, seq |-> n + 1]
  PROVE  HasNext(Tail(s), i, n, b)
<1> SUFFICES ASSUME n < b PROVE \E k \in DOMAIN Tail(s) : Tail(s)[k] = [inst |-> i, seq |-> n + 1]
  BY DEF HasNext
<1>1. PICK k \in DOMAIN s : s[k] = [inst |-> i, seq |-> n + 1]
  BY DEF HasNext
<1>2. /\ Len(s) \in Nat \ {0} /\ DOMAIN s = 1 .. Len(s) /\ DOMAIN Tail(s) = 1 .. (Len(s) - 1)
      /\ \A j \in 1 .. (Len(s) - 1) : Tail(s)[j] = s[j + 1]
      /\ Head(s) = s[1]
  BY TailFacts
<1>3. k # 1
  BY <1>1, <1>2
<1>4. k - 1 \in 1 .. (Len(s) - 1) /\ (k - 1) + 1 = k
  BY <1>2, <1>3
<1>5. QED
  BY <1>1, <1>2, <1>4

LEMMA ConsecutiveTail ==
  ASSUME NEW s \in Seq(Tick), s # << >>, Ordered(s), NEW f, Consecutive(s, f)
  PROVE  Consecutive(Tail(s), f)
<1>1. /\ Len(s) \in Nat \ {0} /\ DOMAIN s = 1 .. Len(s) /\ DOMAIN Tail(s) = 1 .. (Len(s) - 1)
      /\ \A j \in 1 .. (Len(s) - 1) : Tail(s)[j] = s[j + 1]
      /\ Head(s) = s[1] /\ \A j \in DOMAIN s : s[j] \in Tick /\ s[j].seq \in Nat
  BY TailFacts, TickFacts
<1>2. ASSUME NEW k \in DOMAIN Tail(s)
      PROVE  HasNext(Tail(s), Tail(s)[k].inst, Tail(s)[k].seq, f[Tail(s)[k].inst])
  <2> DEFINE t == s[k + 1]
  <2>1. k + 1 \in DOMAIN s /\ Tail(s)[k] = t /\ 1 \in DOMAIN s /\ 1 < k + 1
    BY <1>1
  <2>2. HasNext(s, t.inst, t.seq, f[t.inst])
    BY <2>1 DEF Consecutive
  <2>3. s[1].inst = t.inst => s[1].seq < t.seq
    BY <2>1 DEF Ordered
  <2>4. t.seq \in Nat /\ s[1].seq \in Nat
    BY <1>1, <2>1
  <2>5. Head(s) # [inst |-> t.inst, seq |-> t.seq + 1]
    <3>1. SUFFICES ASSUME s[1] = [inst |-> t.inst, seq |-> t.seq + 1] PROVE FALSE
      BY <1>1
    <3>2. s[1].inst = t.inst /\ s[1].seq = t.seq + 1
      BY <3>1
    <3>3. QED
      BY <2>3, <2>4, <3>2
  <2> HIDE DEF t
  <2>6. HasNext(Tail(s), t.inst, t.seq, f[t.inst])
    BY <2>2, <2>5, HasNextTail
  <2>7. QED
    BY <2>1, <2>6
<1>3. QED
  BY <1>2 DEF Consecutive

LEMMA HasNextAppend ==
  ASSUME NEW s \in Seq(Tick), NEW j \in Instruments, NEW b \in Nat, NEW i \in Instruments,
         NEW n \in Nat, NEW c \in Nat, HasNext(s, i, n, c), n <= c, i = j => c = b
  PROVE  HasNext(Append(s, [inst |-> j, seq |-> b + 1]), i, n, IF i = j THEN b + 1 ELSE c)
<1> DEFINE t == [inst |-> j, seq |-> b + 1]
           q == Append(s, t)
<1>1. /\ Len(s) \in Nat /\ DOMAIN s = 1 .. Len(s) /\ DOMAIN q = 1 .. (Len(s) + 1)
      /\ q[Len(s) + 1] = t /\ \A k \in 1 .. Len(s) : q[k] = s[k]
  OBVIOUS
<1> HIDE DEF q
<1>2. HasNext(q, i, n, c)
  BY <1>1 DEF HasNext
<1>3. CASE i # j
  BY <1>2, <1>3 DEF q
<1>4. CASE i = j
  <2>1. CASE n = b
    BY <1>1, <1>4, <2>1 DEF HasNext, q
  <2>2. CASE n # b
    BY <1>2, <1>4, <2>2 DEF HasNext, q
  <2>3. QED
    BY <2>1, <2>2
<1>5. QED
  BY <1>3, <1>4

LEMMA SupplyAssign ==
  ASSUME OrderInv, Supply, NEW j \in Instruments, Assign(j)
  PROVE  Supply'
<1>1. TypeOK /\ Shape /\ Offers
  BY DEF OrderInv, TypeInv
<1>2. /\ pc \in {"idle", "filled"} /\ pc' = "filled" /\ rest = {} /\ tgt = None
      /\ next' = [next EXCEPT ![j] = @ + 1]
      /\ batch' = Append(batch, [inst |-> j, seq |-> next[j] + 1])
      /\ UNCHANGED <<rest, tgt, todo, subs, made, done, newest>>
  BY <1>1 DEF Supply, Assign, Shape, Serving, Holding, regVars, offerVars
<1>3. /\ next \in [Instruments -> Nat] /\ batch \in Seq(Tick) /\ newest \in [Handles -> IFun]
  BY <1>1 DEF TypeOK, IFun
<1>4. \A i \in Instruments : next'[i] = IF i = j THEN next[j] + 1 ELSE next[i]
  BY <1>2, <1>3
<1>5. ASSUME NEW i \in Instruments, NEW n \in Nat, n <= next[i], HasNext(batch, i, n, next[i])
      PROVE  HasNext(batch', i, n, next'[i])
  <2>1. next[i] \in Nat /\ next[j] \in Nat
    BY <1>3
  <2>2. HasNext(Append(batch, [inst |-> j, seq |-> next[j] + 1]), i, n,
                IF i = j THEN next[j] + 1 ELSE next[i])
    BY <1>3, <1>5, <2>1, HasNextAppend
  <2>3. QED
    BY <1>2, <1>4, <2>2
<1>6. Consecutive(batch', next')
  <2> SUFFICES ASSUME NEW k \in DOMAIN batch'
               PROVE  HasNext(batch', batch'[k].inst, batch'[k].seq, next'[batch'[k].inst])
    BY DEF Consecutive
  <2>1. /\ Len(batch) \in Nat /\ DOMAIN batch = 1 .. Len(batch)
        /\ DOMAIN batch' = 1 .. (Len(batch) + 1)
        /\ batch'[Len(batch) + 1] = [inst |-> j, seq |-> next[j] + 1]
        /\ \A m \in 1 .. Len(batch) : batch'[m] = batch[m]
    BY <1>2, <1>3
  <2>2. CASE k = Len(batch) + 1
    <3>1. batch'[k].inst = j /\ batch'[k].seq = next[j] + 1 /\ next'[j] = next[j] + 1
      BY <1>4, <2>1, <2>2
    <3>2. ~ (next[j] + 1 < next[j] + 1)
      BY <1>3
    <3>3. QED
      BY <3>1, <3>2 DEF HasNext
  <2>3. CASE k # Len(batch) + 1
    <3>1. k \in DOMAIN batch /\ batch'[k] = batch[k]
      BY <2>1, <2>3
    <3>2. batch[k].inst \in Instruments /\ batch[k].seq \in Nat
      BY <1>3, <3>1, TickFacts
    <3>3. batch[k].seq <= next[batch[k].inst]
      BY <1>1, <3>1 DEF Offers, UpTo
    <3>4. HasNext(batch, batch[k].inst, batch[k].seq, next[batch[k].inst])
      BY <3>1 DEF Supply, Consecutive
    <3>5. QED
      BY <1>5, <3>1, <3>2, <3>3, <3>4
  <2>4. QED
    BY <2>2, <2>3
<1>7. ASSUME NEW h \in Handles PROVE Continues(h)'
  <2>1. Due(h) = batch /\ Due(h)' = batch' /\ Fed(h)' = Fed(h)
    BY <1>2, BusAssumption DEF Due, Fed
  <2>2. SUFFICES ASSUME pc' # "stopped", ~done'[h], Fed(h)', NEW i \in Wanted(h), newest'[h][i] # 0
                 PROVE  HasNext(Due(h)', i, newest'[h][i], next'[i])
    BY DEF Continues
  <2>3. HasNext(batch, i, newest[h][i], next[i])
    BY <1>2, <2>1, <2>2 DEF Supply, Continues
  <2>4. i \in Instruments /\ newest[h][i] \in Nat /\ newest[h][i] <= next[i]
    BY <1>1, <1>3 DEF Wanted, IFun, Offers
  <2>5. QED
    BY <1>2, <1>5, <2>1, <2>3, <2>4
<1>8. pc' \in Serving => FALSE
  BY <1>2 DEF Serving, Holding
<1>9. QED
  BY <1>2, <1>6, <1>7, <1>8 DEF Supply

LEMMA SupplyReturns ==
  ASSUME OrderInv, Supply, Matches, Returns
  PROVE  Supply'
<1>1. TypeInv /\ TypeOK /\ Shape /\ Offers
  BY DEF OrderInv, TypeInv
<1>2. /\ pc \in Serving /\ todo # << >> /\ todo' = Tail(todo) /\ pc' = "check"
      /\ UNCHANGED <<next, batch, rest, tgt, newest, subs, made, done>>
      /\ pc \in Holding \/ ~wants(tgt, Head(todo)) \/ done[tgt]
  BY DEF Returns, Return
<1>3. tgt \in Handles /\ todo \in Seq(Tick) /\ Head(todo) \in Tick /\ Head(todo).seq \in Nat
  BY <1>1, <1>2, ServedTypes
<1>4. Consecutive(todo', next')
  BY <1>1, <1>2, <1>3, ConsecutiveTail DEF Supply, Offers
<1>5. ASSUME NEW h \in Handles PROVE Continues(h)'
  <2>1. SUFFICES ASSUME ~done'[h], Fed(h)', NEW i \in Wanted(h), newest'[h][i] # 0
                 PROVE  HasNext(Due(h)', i, newest'[h][i], next'[i])
    BY DEF Continues
  <2>2. Fed(h) /\ ~done[h] /\ newest[h][i] # 0 /\ pc # "stopped"
    BY <1>2, <2>1 DEF Fed, Serving, Holding
  <2>3. HasNext(Due(h), i, newest[h][i], next[i])
    BY <2>2 DEF Supply, Continues
  <2>4. CASE h # tgt
    <3>1. Due(h)' = Due(h)
      BY <1>2, <2>4 DEF Due, Serving, Holding
    <3>2. QED
      BY <1>2, <2>3, <3>1
  <2>5. CASE h = tgt
    <3>1. Due(h) = todo /\ Due(h)' = Tail(todo)
      BY <1>2, <2>5 DEF Due
    <3>2. Head(todo) # [inst |-> i, seq |-> newest[h][i] + 1]
      <4>1. SUFFICES ASSUME Head(todo) = [inst |-> i, seq |-> newest[h][i] + 1] PROVE FALSE
        OBVIOUS
      <4>2. Head(todo).inst = i /\ Head(todo).seq = newest[h][i] + 1
        BY <4>1
      <4>3. wants(tgt, Head(todo)) /\ ~done[tgt]
        BY <2>2, <2>5, <4>2 DEF wants, Wanted
      <4>4. newest[h][i] = newest[h][i] + 1
        BY <1>2, <2>5, <4>2, <4>3 DEF Matches
      <4>5. newest[h][i] \in Nat
        BY <1>1 DEF TypeOK, Wanted
      <4>6. QED
        BY <4>4, <4>5
    <3>3. HasNext(Tail(todo), i, newest[h][i], next[i])
      BY <1>2, <1>3, <2>3, <3>1, <3>2, HasNextTail
    <3>4. QED
      BY <1>2, <3>1, <3>3
  <2>6. QED
    BY <2>4, <2>5
<1>6. QED
  BY <1>2, <1>4, <1>5 DEF Supply

LEMMA SupplyDeliver ==
  ASSUME OrderInv, Supply, Deliver
  PROVE  Supply'
<1>1. TypeInv /\ TypeOK /\ Shape
  BY DEF OrderInv, TypeInv
<1>2. /\ pc = "check" /\ todo # << >> /\ pc' \in {"pend", "send"}
      /\ newest' = [newest EXCEPT ![tgt][Head(todo).inst] = Head(todo).seq]
      /\ UNCHANGED <<next, batch, rest, tgt, todo, subs, made, done>>
  BY DEF Deliver, Goto, regVars
<1>3. /\ tgt \in Handles /\ Head(todo).inst \in Instruments /\ Head(todo) = todo[1]
      /\ 1 \in DOMAIN todo
  BY <1>1, <1>2, ServedTypes DEF Serving
<1>4. newest \in [Handles -> IFun]
  BY <1>1 DEF TypeOK, IFun
<1>5. \A h \in Handles, i \in Instruments :
        newest'[h][i] = IF h = tgt /\ i = Head(todo).inst THEN Head(todo).seq ELSE newest[h][i]
  BY <1>2, <1>3, <1>4 DEF IFun
<1>6. ASSUME NEW h \in Handles PROVE Continues(h)'
  <2>1. SUFFICES ASSUME ~done'[h], Fed(h)', NEW i \in Wanted(h), newest'[h][i] # 0
                 PROVE  HasNext(Due(h)', i, newest'[h][i], next'[i])
    BY DEF Continues
  <2>2. Due(h)' = Due(h) /\ Fed(h) /\ i \in Instruments /\ next' = next
    BY <1>2, <2>1 DEF Due, Fed, Wanted
  <2>3. CASE h = tgt /\ i = Head(todo).inst
    <3>1. HasNext(todo, todo[1].inst, todo[1].seq, next[todo[1].inst])
      BY <1>2, <1>3 DEF Supply, Consecutive, Serving
    <3>2. newest'[h][i] = Head(todo).seq /\ Due(h) = todo
      BY <1>5, <2>2, <2>3 DEF Due
    <3>3. QED
      BY <1>3, <2>2, <2>3, <3>1, <3>2
  <2>4. CASE ~ (h = tgt /\ i = Head(todo).inst)
    <3>1. newest'[h][i] = newest[h][i]
      BY <1>5, <2>2, <2>4
    <3>2. HasNext(Due(h), i, newest[h][i], next[i])
      BY <1>2, <2>1, <2>2, <3>1 DEF Supply, Continues
    <3>3. QED
      BY <2>2, <3>1, <3>2
  <2>5. QED
    BY <2>3, <2>4
<1>7. \A h \in Handles : h \notin made' => \A i \in Instruments : newest'[h][i] = 0
  <2>1. tgt \in made
    BY <1>3, BusAssumption DEF Supply
  <2>2. QED
    BY <1>2, <1>5, <2>1 DEF Supply
<1>8. Consecutive(batch, next)' /\ Consecutive(todo, next)'
  BY <1>2 DEF Supply, Serving
<1>9. QED
  BY <1>2, <1>6, <1>7, <1>8 DEF Supply

(* Steps that neither number, offer nor finish a tick. *)
LEMMA SupplyRest ==
  ASSUME OrderInv, Supply,
         \/ \E g \in Handles : NextTarget(g)
         \/ Publish \/ PublishReturns \/ TargetServed \/ Moves \/ Stops \/ Aside
  PROVE  Supply'
<1> USE DEF pubVars, regVars, offerVars
<1>1. TypeInv /\ TypeOK /\ Shape
  BY DEF OrderInv, TypeInv
<1>2. next' = next /\ newest' = newest /\ \A h \in Handles : done[h] => done'[h]
  BY DEF NextTarget, Publish, PublishReturns, TargetServed, Moves, Stops, Aside, Kept
<1>3. /\ Consecutive(batch', next') /\ (pc' \in Serving => Consecutive(todo', next'))
  <2>1. Consecutive(<< >>, next)
    BY DEF Consecutive
  <2>2. CASE \E g \in Handles : NextTarget(g)
    BY <1>2, <2>2 DEF NextTarget, Supply
  <2>3. CASE Publish \/ TargetServed \/ Stops
    BY <1>2, <2>3 DEF Publish, TargetServed, Stops, Kept, Supply, Serving, Holding
  <2>4. CASE PublishReturns
    BY <1>2, <2>1, <2>4 DEF PublishReturns, Serving, Holding
  <2>5. CASE Moves \/ Aside
    BY <1>2, <2>5 DEF Moves, Aside, Kept, Supply, Serving
  <2>6. QED
    BY <2>2, <2>3, <2>4, <2>5
<1>4. /\ pc' \in {"idle", "filled"} => rest' = {}
      /\ subs' \subseteq made' /\ rest' \subseteq made' /\ tgt' \in made' \cup {None}
  BY DEF NextTarget, Publish, PublishReturns, TargetServed, Moves, Stops, Aside, Kept, Supply,
       Holding
<1>5. \A h \in Handles : h \notin made' => \A i \in Instruments : newest'[h][i] = 0
  BY <1>2 DEF NextTarget, Publish, PublishReturns, TargetServed, Moves, Stops, Aside, Kept, Supply
<1>6. ASSUME NEW h \in Handles PROVE Continues(h)'
  <2>1. CASE Stops
    BY <2>1 DEF Stops, Continues
  <2>2. ASSUME pc # "stopped", Fed(h)' => Fed(h), Due(h)' = Due(h) PROVE Continues(h)'
    BY <1>2, <2>2 DEF Supply, Continues
  <2>3. h # None
    BY BusAssumption
  <2>4. CASE \E g \in Handles : NextTarget(g)
    <3>1. PICK g \in Handles : NextTarget(g)
      BY <2>4
    <3>2. tgt = None
      BY <1>1, <3>1 DEF Shape, NextTarget, Serving, Holding
    <3>3. QED
      BY <2>2, <2>3, <3>1, <3>2 DEF NextTarget, Fed, Due
  <2>5. CASE Publish
    <3>1. tgt = None /\ rest = {}
      BY <1>1, <2>5 DEF Shape, Publish, Serving, Holding, Supply
    <3>2. Fed(h)' => Fed(h)
      BY <2>3, <2>5, <3>1 DEF Publish, Fed
    <3>3. Fed(h)' => Due(h)' = Due(h)
      BY <2>3, <2>5, <3>1 DEF Publish, Fed, Due
    <3>4. CASE Fed(h)'
      BY <2>2, <2>5, <3>2, <3>3, <3>4 DEF Publish
    <3>5. CASE ~Fed(h)'
      BY <3>5 DEF Continues
    <3>6. QED
      BY <3>4, <3>5
  <2>6. CASE PublishReturns
    <3>1. tgt = None
      BY <1>1, <2>6 DEF Shape, PublishReturns, Serving, Holding
    <3>2. QED
      BY <2>2, <2>3, <2>6, <3>1 DEF PublishReturns, Fed, Due
  <2>7. CASE TargetServed
    <3>1. tgt \notin rest
      BY <1>1 DEF Shape
    <3>2. QED
      BY <2>2, <2>3, <2>7, <3>1 DEF TargetServed, Fed, Due
  <2>8. CASE Moves
    BY <2>2, <2>8 DEF Moves, Kept, Fed, Due, Holding
  <2>9. CASE Aside
    <3>1. Due(h)' = Due(h) /\ pc' = pc
      BY <2>9 DEF Aside, Due
    <3>2. CASE h \in made \/ Fed(h)
      <4>1. Fed(h)' => Fed(h)
        BY <2>9, <3>2 DEF Aside, Fed
      <4>2. CASE pc = "stopped"
        BY <3>1, <4>2 DEF Continues
      <4>3. QED
        BY <2>2, <3>1, <4>1, <4>2
    <3>3. CASE h \notin made
      <4>1. \A i \in Wanted(h) : newest'[h][i] = 0
        BY <1>2, <3>3 DEF Supply, Wanted
      <4>2. QED
        BY <4>1 DEF Continues
    <3>4. QED
      BY <3>2, <3>3
  <2>10. QED
    BY <2>1, <2>4, <2>5, <2>6, <2>7, <2>8, <2>9
<1>7. QED
  BY <1>3, <1>4, <1>5, <1>6 DEF Supply

LEMMA SupplyStep ==
  ASSUME OrderInv, Supply, Matches, Kind
  PROVE  Supply'
  BY SupplyAssign, SupplyReturns, SupplyDeliver, SupplyRest DEF Kind

-----------------------------------------------------------------------------
(* The queue of a subscription that drops its oldest or blocks is, of each *)
(* instrument, a run of numbers up to the newest that has been sent.       *)
Top(h, i) == IF InHand(h) /\ Head(todo).inst = i THEN newest[h][i] - 1 ELSE newest[h][i]

Run(h, i, m) ==
  /\ m <= Top(h, i) + 1
  /\ Nums(out[h], i) = m .. Top(h, i)
  /\ Policy[h] = "block" /\ last[h][i] # 0 => m = last[h][i] + 1

Unbroken(h) ==
  /\ Policy[h] \in {"drop_oldest", "block"}
  /\ ~done[h]
  /\ Policy[h] = "block" => pc # "stopped"

RunAt(h) == Unbroken(h) => \A i \in Instruments : \E m \in Nat : Run(h, i, m)
Runs == \A h \in Handles : RunAt(h)

LEMMA RunFrame ==
  ASSUME NEW h \in Handles, RunAt(h), Unbroken(h)' => Unbroken(h),
         out'[h] = out[h], newest'[h] = newest[h], last'[h] = last[h],
         Unbroken(h)' => InHand(h)' = InHand(h) /\ (InHand(h) => todo' = todo)
  PROVE  RunAt(h)'
<1> SUFFICES ASSUME Unbroken(h)', NEW i \in Instruments PROVE \E m \in Nat : Run(h, i, m)'
  BY DEF RunAt
<1>1. PICK m \in Nat : Run(h, i, m)
  BY DEF RunAt
<1>2. InHand(h)' = InHand(h) /\ (InHand(h) => todo' = todo)
  OBVIOUS
<1>3. Top(h, i)' = Top(h, i)
  BY <1>2 DEF Top
<1>4. Run(h, i, m)'
  BY <1>1, <1>3 DEF Run
<1>5. QED
  BY <1>4

(* The oldest leaves the queue. *)
LEMMA RunPops ==
  ASSUME OrderInv, NEW h \in Handles, NEW i \in Instruments, NEW m \in Nat, Run(h, i, m),
         out[h] # << >>
  PROVE  IF Head(out[h]).inst = i
         THEN /\ Head(out[h]).seq = m
              /\ m + 1 <= Top(h, i) + 1
              /\ Nums(Tail(out[h]), i) = (m + 1) .. Top(h, i)
         ELSE Nums(Tail(out[h]), i) = m .. Top(h, i)
<1>1. out[h] \in Seq(Tick) /\ Ordered(out[h]) /\ newest[h] \in IFun
  BY LineTypes DEF OrderInv, Lines, LineOK
<1>2. Top(h, i) \in Int
  BY <1>1 DEF Top, IFun
<1>3. Nums(out[h], i) = m .. Top(h, i)
  BY DEF Run
<1>4. CASE Head(out[h]).inst = i
  <2> DEFINE x == Head(out[h]).seq
             n == Top(h, i)
  <2>1. /\ Nums(Tail(out[h]), i) = Nums(out[h], i) \ {x}
        /\ x \in Nums(out[h], i) /\ \A y \in Nums(out[h], i) : x <= y
    BY <1>1, <1>4, NumsTail
  <2>2. x \in m .. n /\ \A y \in m .. n : x <= y
    BY <1>3, <2>1
  <2>3. n \in Int
    BY <1>2
  <2> HIDE DEF x, n
  <2>4. x = m /\ m <= n /\ (m .. n) \ {x} = (m + 1) .. n
    BY <2>2, <2>3, RunPop
  <2>5. m + 1 <= n + 1
    BY <2>3, <2>4
  <2>6. QED
    BY <1>3, <1>4, <2>1, <2>4, <2>5 DEF x, n
<1>5. CASE Head(out[h]).inst # i
  BY <1>1, <1>3, <1>5, NumsTail
<1>6. QED
  BY <1>4, <1>5

(* What Deliver offers next follows on the newest. *)
LEMMA NextIsDue ==
  ASSUME OrderInv, Supply, Deliver, newest[tgt][Head(todo).inst] # 0
  PROVE  Head(todo).seq = newest[tgt][Head(todo).inst] + 1
<1> DEFINE t == Head(todo)
           i == Head(todo).inst
           n == newest[tgt][i]
<1>1. TypeInv /\ TypeOK /\ Offers
  BY DEF OrderInv, TypeInv
<1>2. pc = "check" /\ todo # << >> /\ wants(tgt, t) /\ ~done[tgt]
  BY DEF Deliver
<1>3. /\ tgt \in Handles /\ todo \in Seq(Tick) /\ t \in Tick /\ i \in Instruments
      /\ t.seq \in Nat /\ t = todo[1] /\ 1 \in DOMAIN todo
  BY <1>1, <1>2, ServedTypes DEF Serving
<1>4. n \in Nat /\ next[i] \in Nat
  BY <1>1, <1>3 DEF TypeOK
<1>5. n < t.seq /\ t.seq <= next[i]
  BY <1>1, <1>2, <1>3 DEF Offers, After, UpTo
<1>6. HasNext(todo, i, n, next[i])
  <2>1. Fed(tgt) /\ Due(tgt) = todo /\ i \in Wanted(tgt)
    BY <1>2, <1>3 DEF Fed, Due, Wanted, wants
  <2>2. QED
    BY <1>2, <1>3, <2>1 DEF Supply, Continues
<1>7. PICK k \in DOMAIN todo : todo[k] = [inst |-> i, seq |-> n + 1]
  <2>1. n < next[i]
    BY <1>3, <1>4, <1>5
  <2>2. QED
    BY <1>6, <2>1 DEF HasNext
<1>8. todo[k].inst = i /\ todo[k].seq = n + 1
  BY <1>7
<1>9. CASE k = 1
  BY <1>3, <1>8, <1>9
<1>10. CASE k # 1
  <2>1. 1 < k
    BY <1>3, <1>10, TickFacts
  <2>2. t.seq < n + 1
    BY <1>1, <1>3, <1>8, <2>1 DEF Offers, Ordered
  <2>3. QED
    BY <1>3, <1>4, <1>5, <2>2
<1>11. QED
  BY <1>9, <1>10

LEMMA RunDeliver ==
  ASSUME OrderInv, Supply, Deliver, NEW h \in Handles, h = tgt, RunAt(h), Unbroken(h)'
  PROVE  \A i \in Instruments : \E m \in Nat : Run(h, i, m)'
<1>1. TypeInv /\ TypeOK /\ Lines
  BY DEF OrderInv, TypeInv
<1>2. /\ pc = "check" /\ todo # << >> /\ pc' \in {"pend", "send"} /\ ~done[h]
      /\ newest' = [newest EXCEPT ![tgt][Head(todo).inst] = Head(todo).seq]
      /\ UNCHANGED <<tgt, todo, out, last, done>>
  BY DEF Deliver, Goto, regVars, readVars
<1>3. Head(todo).inst \in Instruments /\ Head(todo).seq \in Nat
  BY <1>1, <1>2, ServedTypes DEF Serving
<1>4. newest \in [Handles -> IFun] /\ newest[h] \in IFun /\ last[h] \in IFun
  BY <1>1 DEF TypeOK, IFun
<1>5. \A i \in Instruments :
        newest'[h][i] = IF i = Head(todo).inst THEN Head(todo).seq ELSE newest[h][i]
  BY <1>2, <1>3, <1>4 DEF IFun
<1>6. ~InHand(h) /\ InHand(h)' /\ Unbroken(h)
  BY <1>2 DEF InHand, Unbroken
<1>7. TAKE i \in Instruments
<1>8. PICK m \in Nat : Run(h, i, m)
  BY <1>6 DEF RunAt
<1>9. Top(h, i) = newest[h][i] /\ newest[h][i] \in Nat /\ last[h][i] \in Nat
  BY <1>4, <1>6 DEF Top, IFun
<1>10. ASSUME Top(h, i)' = Top(h, i) PROVE Run(h, i, m)'
  BY <1>2, <1>8, <1>10 DEF Run
<1>11. CASE i # Head(todo).inst
  <2>1. Top(h, i)' = Top(h, i)
    BY <1>2, <1>5, <1>9, <1>11 DEF Top
  <2>2. QED
    BY <1>10, <2>1
<1>12. CASE i = Head(todo).inst /\ newest[h][i] # 0
  <2>1. Head(todo).seq = newest[h][i] + 1
    BY <1>12, NextIsDue
  <2>2. Top(h, i)' = Head(todo).seq - 1
    BY <1>2, <1>5, <1>6, <1>12 DEF Top
  <2>3. Top(h, i)' = Top(h, i)
    BY <1>9, <2>1, <2>2
  <2>4. QED
    BY <1>10, <2>3
<1>13. CASE i = Head(todo).inst /\ newest[h][i] = 0
  <2>a. PICK s \in Nat : s = Head(todo).seq
    BY <1>3
  <2>1. Top(h, i)' = s - 1
    BY <1>2, <2>a, <1>5, <1>6, <1>13 DEF Top
  <2>2. LineOK(out[h], carry[h], pending[h], last[h], newest[h]) /\ out[h] \in Seq(Tick)
    BY <1>1, LineTypes DEF Lines
  <2>3. last[h][i] = 0
    BY <1>9, <1>13, <2>2 DEF LineOK
  <2>4. Nums(out[h], i) = {}
    <3>1. SUFFICES ASSUME NEW x \in Nums(out[h], i) PROVE FALSE
      OBVIOUS
    <3>2. PICK k \in DOMAIN out[h] : out[h][k].inst = i /\ out[h][k].seq = x
      BY NumsAre
    <3>3. last[h][i] < x /\ x <= newest[h][i] /\ x \in Nat
      BY <2>2, <3>2, TickFacts DEF LineOK, After, UpTo
    <3>4. QED
      BY <1>13, <2>3, <3>3
  <2>5. s .. (s - 1) = {} /\ s <= (s - 1) + 1
    OBVIOUS
  <2>6. Run(h, i, s)'
    BY <1>2, <2>1, <2>3, <2>4, <2>5 DEF Run
  <2>7. QED
    BY <2>5, <2>6
<1>14. QED
  BY <1>10, <1>11, <1>12, <1>13

LEMMA RunSend ==
  ASSUME OrderInv, Matches, TrySend \/ BlockSend, NEW h \in Handles, h = tgt, RunAt(h),
         Unbroken(h)'
  PROVE  \A i \in Instruments : \E m \in Nat : Run(h, i, m)'
<1>1. TypeInv /\ TypeOK /\ Shape
  BY DEF OrderInv, TypeInv
<1>2. /\ pc \in {"send", "wait"} /\ pc' = "count" /\ Push(h, Head(todo))
      /\ UNCHANGED <<tgt, todo, newest, last, done>>
  BY DEF TrySend, BlockSend, Goto, regVars, readVars, offerVars
<1>3. todo # << >> /\ pc \in Holding /\ pc \in Serving
  BY <1>1, <1>2 DEF Shape, Holding, Serving
<1>4. Head(todo) \in Tick /\ Head(todo).seq \in Nat
  BY <1>1, <1>3, ServedTypes
<1>5. out[h] \in Seq(Tick) /\ out'[h] = Append(out[h], Head(todo)) /\ newest[h] \in IFun
  BY <1>1, <1>2 DEF Push, TypeOK, QueueOK, IFun
<1>6. InHand(h) /\ ~InHand(h)' /\ Unbroken(h)
  BY <1>2 DEF InHand, Unbroken
<1>7. TAKE i \in Instruments
<1>8. PICK m \in Nat : Run(h, i, m)
  BY <1>6 DEF RunAt
<1>9. Top(h, i)' = newest[h][i]
  BY <1>2, <1>6 DEF Top
<1>10. CASE Head(todo).inst # i
  <2>1. Top(h, i) = newest[h][i]
    BY <1>10 DEF Top
  <2>2. Nums(out'[h], i) = Nums(out[h], i)
    BY <1>4, <1>5, <1>10, NumsAppend
  <2>3. Run(h, i, m)'
    BY <1>2, <1>8, <1>9, <2>1, <2>2 DEF Run
  <2>4. QED
    BY <2>3
<1>11. CASE Head(todo).inst = i
  <2>1. PICK s \in Nat : s = newest[h][i]
    BY <1>5 DEF IFun
  <2>2. s = Head(todo).seq
    BY <1>3, <1>11, <2>1 DEF Matches
  <2>3. Top(h, i) = s - 1 /\ Top(h, i)' = s
    BY <1>6, <1>9, <1>11, <2>1 DEF Top
  <2>4. m <= (s - 1) + 1 /\ Nums(out[h], i) = m .. (s - 1)
    BY <1>8, <2>3 DEF Run
  <2>5. m <= s /\ m <= s + 1
    BY <2>4
  <2>6. Nums(out'[h], i) = Nums(out[h], i) \cup {s}
    BY <1>4, <1>5, <1>11, <2>2, NumsAppend
  <2>7. Nums(out'[h], i) = m .. s
    BY <2>4, <2>5, <2>6, RunPush
  <2>8. Run(h, i, m)'
    BY <1>2, <1>8, <2>3, <2>5, <2>7 DEF Run
  <2>9. QED
    BY <2>8
<1>12. QED
  BY <1>10, <1>11

LEMMA RunEvict ==
  ASSUME OrderInv, EvictsOldest, Evict, NEW h \in Handles, h = tgt, RunAt(h), Unbroken(h)'
  PROVE  \A i \in Instruments : \E m \in Nat : Run(h, i, m)'
<1>1. TypeInv /\ TypeOK /\ Shape
  BY DEF OrderInv, TypeInv
<1>2. /\ pc = "evict" /\ pc' \in {"evicted", "recheck"} /\ Policy[h] = "drop_oldest"
      /\ UNCHANGED <<tgt, todo, newest, last, done>>
  BY DEF Evict, EvictsOldest, Goto, regVars, readVars, offerVars
<1>3. Unbroken(h) /\ \A i : Top(h, i)' = Top(h, i)
  BY <1>2 DEF Unbroken, Top, InHand
<1>4. TAKE i \in Instruments
<1>5. PICK m \in Nat : Run(h, i, m)
  BY <1>3 DEF RunAt
<1>6. CASE out' = out
  <2>1. Run(h, i, m)'
    BY <1>2, <1>3, <1>5, <1>6 DEF Run
  <2>2. QED
    BY <2>1
<1>7. CASE out[h] # << >> /\ Pop(h)
  <2>1. out'[h] = Tail(out[h])
    BY <1>1, <1>7 DEF Pop, TypeOK, QueueOK
  <2>2. CASE Head(out[h]).inst = i
    <3>1. m + 1 <= Top(h, i) + 1 /\ Nums(Tail(out[h]), i) = (m + 1) .. Top(h, i)
      BY <1>5, <1>7, <2>2, RunPops
    <3>2. Run(h, i, m + 1)'
      BY <1>2, <1>3, <2>1, <3>1 DEF Run
    <3>3. QED
      BY <3>2
  <2>3. CASE Head(out[h]).inst # i
    <3>1. Nums(Tail(out[h]), i) = m .. Top(h, i)
      BY <1>5, <1>7, <2>3, RunPops
    <3>2. Run(h, i, m)'
      BY <1>2, <1>3, <1>5, <2>1, <3>1 DEF Run
    <3>3. QED
      BY <3>2
  <2>4. QED
    BY <2>2, <2>3
<1>8. QED
  BY <1>6, <1>7 DEF Evict

LEMMA RunConsume ==
  ASSUME OrderInv, NEW h \in Handles, Consume(h), RunAt(h), Unbroken(h)'
  PROVE  \A i \in Instruments : \E m \in Nat : Run(h, i, m)'
<1>1. TypeInv /\ TypeOK /\ Shape
  BY DEF OrderInv, TypeInv
<1>2. /\ out[h] # << >> /\ Pop(h)
      /\ last' = [last EXCEPT ![h][Head(out[h]).inst] = Head(out[h]).seq]
      /\ UNCHANGED <<pc, tgt, todo, newest, done>>
  BY DEF Consume, pubVars, regVars, offerVars
<1>3. Unbroken(h) /\ \A i : Top(h, i)' = Top(h, i)
  BY <1>2 DEF Unbroken, Top, InHand
<1>4. out'[h] = Tail(out[h]) /\ out[h] \in Seq(Tick)
  BY <1>1, <1>2 DEF Pop, TypeOK, QueueOK
<1>5. Head(out[h]).inst \in Instruments /\ last \in [Handles -> IFun]
  <2>1. Head(out[h]) \in Tick
    BY <1>2, <1>4, TailFacts
  <2>2. QED
    BY <1>1, <2>1 DEF TypeOK, IFun, Tick
<1>6. TAKE i \in Instruments
<1>7. PICK m \in Nat : Run(h, i, m)
  BY <1>3 DEF RunAt
<1>8. CASE Head(out[h]).inst = i
  <2>1. /\ Head(out[h]).seq = m /\ m + 1 <= Top(h, i) + 1
        /\ Nums(Tail(out[h]), i) = (m + 1) .. Top(h, i)
    BY <1>2, <1>7, <1>8, RunPops
  <2>2. last'[h][i] = m
    BY <1>2, <1>5, <1>8, <2>1 DEF IFun
  <2>3. Run(h, i, m + 1)'
    BY <1>3, <1>4, <2>1, <2>2 DEF Run
  <2>4. QED
    BY <2>3
<1>9. CASE Head(out[h]).inst # i
  <2>1. Nums(Tail(out[h]), i) = m .. Top(h, i)
    BY <1>2, <1>7, <1>9, RunPops
  <2>2. last'[h][i] = last[h][i]
    BY <1>2, <1>5, <1>9 DEF IFun
  <2>3. Run(h, i, m)'
    BY <1>3, <1>4, <1>7, <2>1, <2>2 DEF Run
  <2>4. QED
    BY <2>3
<1>10. QED
  BY <1>8, <1>9

LEMMA RunsPublish ==
  ASSUME OrderInv, Supply, Matches, EvictsOldest, WaitsBlock, Runs, PublishStep, NEW h \in Handles
  PROVE  RunAt(h)'
<1>1. TypeInv /\ TypeOK /\ Shape /\ RunAt(h) /\ h # None
  BY BusAssumption DEF OrderInv, TypeInv, Runs
<1> USE DEF regVars, readVars, offerVars
<1>2. UNCHANGED <<done, last>> /\ pc # "stopped"
  BY DEF PublishStep, NextTarget, Publish, PublishReturns, TargetServed, Skip,
       Deliver, TrySend, CountSent, DropNewest, BlockFull, BlockSend, BlockDone,
       BlockCancelled, OldestFull, Evict, CountEvicted, OldestRetry, Pend, Wake
<1>3. Unbroken(h)' => Unbroken(h)
  BY <1>2 DEF Unbroken
<1>4. out \in [Handles -> Seq(Tick)] /\ newest \in [Handles -> IFun]
  BY <1>1 DEF TypeOK, QueueOK, IFun
<1>5. CASE h # tgt
  <2>1. out'[h] = out[h] /\ newest'[h] = newest[h]
    BY <1>4, <1>5 DEF PublishStep, NextTarget, Publish, PublishReturns, TargetServed, Skip,
         Deliver, TrySend, CountSent, DropNewest, BlockFull, BlockSend, BlockDone,
         BlockCancelled, OldestFull, Evict, CountEvicted, OldestRetry, Pend, Wake, Push, Pop
  <2>2. tgt' = tgt \/ tgt' = None \/ pc' = "check"
    BY DEF PublishStep, NextTarget, Publish, PublishReturns, TargetServed, Skip,
         Deliver, TrySend, CountSent, DropNewest, BlockFull, BlockSend, BlockDone,
         BlockCancelled, OldestFull, Evict, CountEvicted, OldestRetry, Pend, Wake, Goto, Return
  <2>3. ~InHand(h) /\ InHand(h)' = InHand(h)
    BY <1>1, <1>5, <2>2 DEF InHand
  <2>4. QED
    BY <1>1, <1>2, <1>3, <2>1, <2>3, RunFrame
<1>6. CASE h = tgt
  <2>1. ASSUME ~Unbroken(h)' PROVE RunAt(h)'
    BY <2>1 DEF RunAt
  <2>2. CASE TargetServed \/ Skip \/ CountSent \/ Wake
    <3>1. UNCHANGED <<out, newest>> /\ ~InHand(h) /\ InHand(h)' = InHand(h)
      BY <2>2 DEF TargetServed, Skip, CountSent, Wake, Return, InHand
    <3>2. QED
      BY <1>1, <1>2, <1>3, <3>1, RunFrame
  <2>3. CASE BlockFull \/ OldestFull \/ CountEvicted \/ (OldestRetry /\ ~done[tgt])
    <3>1. UNCHANGED <<out, newest, todo>> /\ InHand(h) /\ InHand(h)'
      BY <1>6, <2>3 DEF BlockFull, OldestFull, CountEvicted, OldestRetry, Goto, InHand
    <3>2. QED
      BY <1>1, <1>2, <1>3, <3>1, RunFrame
  <2>4. CASE DropNewest \/ Pend
    <3>1. Policy[h] \notin {"drop_oldest", "block"}
      BY <1>1, <1>6, <2>4 DEF DropNewest, Pend, Shape
    <3>2. QED
      BY <2>1, <3>1 DEF Unbroken
  <2>5. CASE BlockDone \/ (OldestRetry /\ done[tgt])
    BY <1>2, <1>6, <2>1, <2>5 DEF BlockDone, Unbroken
  <2>6. CASE BlockCancelled
    BY <1>6, <2>1, <2>6 DEF BlockCancelled, WaitsBlock, Unbroken
  <2>7. CASE Deliver
    BY <1>1, <1>6, <2>7, RunDeliver DEF RunAt
  <2>8. CASE TrySend \/ BlockSend
    BY <1>1, <1>6, <2>8, RunSend DEF RunAt
  <2>9. CASE Evict
    BY <1>1, <1>6, <2>9, RunEvict DEF RunAt
  <2>10. CASE Publish \/ PublishReturns \/ \E g \in Handles : NextTarget(g)
    BY <1>1, <1>6, <2>10 DEF Publish, PublishReturns, NextTarget, Shape, Serving, Holding
  <2>11. QED
    BY <2>2, <2>3, <2>4, <2>5, <2>6, <2>7, <2>8, <2>9, <2>10 DEF PublishStep
<1>7. QED
  BY <1>5, <1>6

LEMMA RunsStep ==
  ASSUME OrderInv, Supply, Matches, EvictsOldest, WaitsBlock, Runs, [Next]_vars
  PROVE  Runs'
<1> SUFFICES ASSUME NEW h \in Handles PROVE RunAt(h)'
  BY DEF Runs
<1>1. TypeInv /\ TypeOK /\ Shape /\ RunAt(h)
  BY DEF OrderInv, TypeInv, Runs
<1> USE DEF pubVars, regVars, readVars, offerVars
<1>2. CASE PublishStep
  BY <1>2, RunsPublish
<1>3. ASSUME NEW g \in Handles, LoopStep(g) PROVE RunAt(h)'
  <2>1. UNCHANGED <<pubVars, last, newest, done>>
    BY <1>3 DEF LoopStep, LoopWoken, LoopEmpty, LoopSend, LoopCount, LoopExit, LoopTake
  <2>2. CASE h = g
    <3>1. Policy[h] = "coalesce"
      BY <1>1, <1>3, <2>2 DEF LoopStep, LoopWoken, LoopEmpty, LoopSend, LoopCount, LoopExit, LoopTake,
           Shape
    <3>2. QED
      BY <3>1 DEF RunAt, Unbroken
  <2>3. CASE h # g
    <3>1. out'[h] = out[h]
      BY <1>1, <1>3, <2>3 DEF LoopStep, LoopWoken, LoopEmpty, LoopSend, LoopCount, LoopExit, LoopTake,
           Push, TypeOK, QueueOK
    <3>2. InHand(h)' = InHand(h) /\ (Unbroken(h)' => Unbroken(h))
      BY <2>1 DEF InHand, Unbroken
    <3>3. QED
      BY <1>1, <2>1, <3>1, <3>2, RunFrame
  <2>4. QED
    BY <2>2, <2>3
<1>4. ASSUME NEW g \in Handles, Consume(g) PROVE RunAt(h)'
  <2>1. CASE h = g
    BY <1>1, <1>4, <2>1, RunConsume DEF RunAt
  <2>2. CASE h # g
    <3>1. /\ UNCHANGED <<pubVars, newest, done>> /\ out'[h] = out[h] /\ last'[h] = last[h]
      BY <1>1, <1>4, <2>2 DEF Consume, Pop, TypeOK, QueueOK
    <3>2. InHand(h)' = InHand(h) /\ (Unbroken(h)' => Unbroken(h))
      BY <3>1 DEF InHand, Unbroken
    <3>3. QED
      BY <1>1, <3>1, <3>2, RunFrame
  <2>3. QED
    BY <2>1, <2>2
<1>5. CASE \/ \E i \in Instruments : Assign(i)
           \/ PumpStops \/ Cancel \/ CloseBus
           \/ \E g \in Handles : Subscribe(g) \/ CloseSub(g) \/ Shutdown(g) \/ ConsumerStops(g)
           \/ UNCHANGED vars
  <2>1. UNCHANGED <<out, newest, last, tgt, todo>>
    BY <1>5 DEF Assign, PumpStops, Cancel, CloseBus, Subscribe, CloseSub, Shutdown, ConsumerStops, vars
  <2>2. pc' = pc \/ (pc \in {"idle", "filled"} /\ pc' \in {"filled", "stopped"})
    BY <1>5 DEF Assign, PumpStops, Cancel, CloseBus, Subscribe, CloseSub, Shutdown, ConsumerStops, vars
  <2>3. done[h] => done'[h]
    BY <1>1, <1>5 DEF Assign, PumpStops, Cancel, CloseBus, Subscribe, CloseSub, Shutdown,
         ConsumerStops, vars, TypeOK
  <2>4. InHand(h)' = InHand(h) /\ (Unbroken(h)' => Unbroken(h))
    BY <2>1, <2>2, <2>3 DEF InHand, Unbroken
  <2>5. QED
    BY <1>1, <2>1, <2>4, RunFrame
<1>6. QED
  BY <1>2, <1>3, <1>4, <1>5 DEF Next

-----------------------------------------------------------------------------
(* Where the newest tick of instrument i is, under coalesce. *)
Somewhere(h, i) ==
  \/ newest[h][i] \in {0, last[h][i], pending[h][i]}
  \/ newest[h][i] \in Nums(out[h], i)
  \/ carry[h] = <<[inst |-> i, seq |-> newest[h][i]]>>
  \/ InHand(h) /\ Head(todo).inst = i

Coalesces(h) == Policy[h] = "coalesce" /\ ~done[h]
SurvivesAt(h) == Coalesces(h) => \A i \in Instruments : Somewhere(h, i)
Survives == \A h \in Handles : SurvivesAt(h)

LEMMA SurviveFrame ==
  ASSUME NEW h \in Handles, SurvivesAt(h), Coalesces(h)' => Coalesces(h),
         out'[h] = out[h], newest'[h] = newest[h], last'[h] = last[h], pending'[h] = pending[h],
         carry'[h] = carry[h],
         Coalesces(h)' /\ InHand(h) => InHand(h)' /\ todo' = todo
  PROVE  SurvivesAt(h)'
  BY DEF SurvivesAt, Somewhere

LEMMA SurviveOffer ==
  ASSUME OrderInv, Matches, Deliver \/ Pend, NEW h \in Handles, h = tgt, SurvivesAt(h),
         Coalesces(h)'
  PROVE  \A i \in Instruments : Somewhere(h, i)'
<1>1. TypeInv /\ TypeOK /\ Shape
  BY DEF OrderInv, TypeInv
<1>2. /\ pc \in {"check", "pend"} /\ todo # << >> /\ pc \in Serving
      /\ UNCHANGED <<tgt, todo, out, last, done, carry>>
  BY <1>1 DEF Deliver, Pend, Goto, Shape, Holding, Serving, regVars, readVars, loopVars
<1>3. Head(todo).inst \in Instruments /\ Coalesces(h)
  BY <1>1, <1>2, ServedTypes DEF Coalesces
<1>4. newest \in [Handles -> IFun] /\ pending \in [Handles -> IFun]
  BY <1>1 DEF TypeOK, IFun
<1>5. TAKE i \in Instruments
<1>6. Somewhere(h, i)
  BY <1>3 DEF SurvivesAt
<1>7. CASE Deliver
  <2>1. InHand(h)' /\ ~InHand(h) /\ pending' = pending
    BY <1>7 DEF Deliver, Goto, InHand, coalVars
  <2>2. CASE i = Head(todo).inst
    BY <1>2, <2>1, <2>2 DEF Somewhere
  <2>3. CASE i # Head(todo).inst
    <3>1. newest'[h][i] = newest[h][i]
      BY <1>3, <1>4, <1>7, <2>3 DEF Deliver, IFun
    <3>2. QED
      BY <1>2, <1>6, <2>1, <3>1 DEF Somewhere
  <2>4. QED
    BY <2>2, <2>3
<1>8. CASE Pend
  <2>1. newest' = newest /\ pc \in Holding
    BY <1>8 DEF Pend, offerVars, Holding
  <2>2. CASE i = Head(todo).inst
    <3>1. pending'[h][i] = Head(todo).seq
      BY <1>3, <1>4, <1>8, <2>2 DEF Pend, IFun
    <3>2. newest'[h][i] = Head(todo).seq
      BY <2>1, <2>2 DEF Matches
    <3>3. QED
      BY <3>1, <3>2 DEF Somewhere
  <2>3. CASE i # Head(todo).inst
    <3>1. pending'[h][i] = pending[h][i]
      BY <1>3, <1>4, <1>8, <2>3 DEF Pend, IFun
    <3>2. QED
      BY <1>2, <1>6, <2>1, <2>3, <3>1 DEF Somewhere
  <2>4. QED
    BY <2>2, <2>3
<1>9. QED
  BY <1>7, <1>8

LEMMA SurviveLoop ==
  ASSUME OrderInv, NEW h \in Handles, LoopStep(h), SurvivesAt(h), Coalesces(h)'
  PROVE  \A i \in Instruments : Somewhere(h, i)'
<1>1. TypeInv /\ TypeOK /\ Shape
  BY DEF OrderInv, TypeInv
<1>2. UNCHANGED <<pc, tgt, todo, newest, last, done>>
  BY DEF LoopStep, LoopWoken, LoopEmpty, LoopSend, LoopCount, LoopExit, LoopTake,
       pubVars, regVars, readVars, offerVars
<1>3. Coalesces(h) /\ InHand(h)' = InHand(h)
  BY <1>2 DEF Coalesces, InHand
<1>4. /\ carry \in [Handles -> Seq(Tick)] /\ pending \in [Handles -> IFun]
      /\ out \in [Handles -> Seq(Tick)]
  BY <1>1 DEF TypeOK, QueueOK, IFun
<1>5. TAKE i \in Instruments
<1>6. Somewhere(h, i)
  BY <1>3 DEF SurvivesAt
<1>7. CASE LoopWoken(h) \/ LoopEmpty(h) \/ LoopCount(h)
  <2>1. UNCHANGED <<carry, pending, out>>
    BY <1>7 DEF LoopWoken, LoopEmpty, LoopCount, coalVars
  <2>2. QED
    BY <1>2, <1>3, <1>6, <2>1 DEF Somewhere
<1>8. CASE LoopExit(h)
  BY <1>3, <1>8 DEF LoopExit, Coalesces
<1>9. CASE LoopSend(h)
  <2>1. /\ loop[h] = "send" /\ out'[h] = Append(out[h], Head(carry[h])) /\ pending' = pending
    BY <1>4, <1>9 DEF LoopSend, Push, coalVars
  <2>2. Len(carry[h]) = 1
    BY <1>1, <2>1 DEF Shape
  <2>3. Head(carry[h]) \in Tick
    <3>1. carry[h] # << >> /\ carry[h] \in Seq(Tick)
      <4>1. Len(<< >>) # 1
        OBVIOUS
      <4>2. QED
        BY <1>4, <2>2, <4>1, Zenon
    <3>2. QED
      BY <3>1, TailFacts
  <2>4. Nums(out[h], i) \subseteq Nums(out'[h], i)
    <3>1. Nums(Append(out[h], Head(carry[h])), i)
            = IF Head(carry[h]).inst = i THEN Nums(out[h], i) \cup {Head(carry[h]).seq}
                                         ELSE Nums(out[h], i)
      BY <1>4, <2>3, NumsAppend
    <3>2. QED
      BY <2>1, <3>1
  <2>5. CASE carry[h] = <<[inst |-> i, seq |-> newest[h][i]]>>
    <3>1. Head(carry[h]) = [inst |-> i, seq |-> newest[h][i]]
      BY <2>5
    <3>2. Head(carry[h]).inst = i /\ Head(carry[h]).seq = newest[h][i]
      BY <3>1
    <3>3. newest[h][i] \in Nums(out'[h], i)
      BY <1>4, <2>1, <2>3, <3>2, NumsAppend
    <3>4. QED
      BY <1>2, <3>3 DEF Somewhere
  <2>6. CASE carry[h] # <<[inst |-> i, seq |-> newest[h][i]]>>
    BY <1>2, <1>3, <1>6, <2>1, <2>4, <2>6 DEF Somewhere
  <2>7. QED
    BY <2>5, <2>6
<1>10. ASSUME NEW j \in Instruments, LoopTake(h, j) PROVE Somewhere(h, i)'
  <2>1. /\ loop[h] = "drain" /\ carry'[h] = <<[inst |-> j, seq |-> pending[h][j]]>> /\ out' = out
        /\ pending'[h] = [pending[h] EXCEPT ![j] = 0] /\ pending[h] \in IFun
    BY <1>4, <1>10 DEF LoopTake
  <2>2. Len(carry[h]) = 0
    BY <1>1, <2>1 DEF Shape
  <2>3. carry[h] # <<[inst |-> i, seq |-> newest[h][i]]>>
    <3>1. Len(<<[inst |-> i, seq |-> newest[h][i]]>>) # 0
      OBVIOUS
    <3>2. QED
      BY <2>2, <3>1, Zenon
  <2>4. CASE i = j
    BY <1>2, <1>3, <1>6, <2>1, <2>3, <2>4 DEF Somewhere
  <2>5. CASE i # j
    <3>1. pending'[h][i] = pending[h][i]
      BY <2>1, <2>5 DEF IFun
    <3>2. QED
      BY <1>2, <1>3, <1>6, <2>1, <2>3, <3>1 DEF Somewhere
  <2>6. QED
    BY <2>4, <2>5
<1>11. QED
  BY <1>7, <1>8, <1>9, <1>10 DEF LoopStep

LEMMA SurviveConsume ==
  ASSUME OrderInv, NEW h \in Handles, Consume(h), SurvivesAt(h), Coalesces(h)'
  PROVE  \A i \in Instruments : Somewhere(h, i)'
<1>1. TypeInv /\ TypeOK
  BY DEF OrderInv, TypeInv
<1>2. /\ out[h] # << >> /\ Pop(h)
      /\ last' = [last EXCEPT ![h][Head(out[h]).inst] = Head(out[h]).seq]
      /\ UNCHANGED <<pc, tgt, todo, newest, done, pending, carry>>
  BY DEF Consume, pubVars, regVars, offerVars, coalVars, loopVars
<1>3. Coalesces(h) /\ InHand(h)' = InHand(h)
  BY <1>2 DEF Coalesces, InHand
<1>4. out'[h] = Tail(out[h]) /\ out[h] \in Seq(Tick) /\ Ordered(out[h])
  BY <1>1, <1>2 DEF Pop, TypeOK, QueueOK, OrderInv, Lines, LineOK
<1>5. Head(out[h]).inst \in Instruments /\ last \in [Handles -> IFun]
  <2>1. Head(out[h]) \in Tick
    BY <1>2, <1>4, TailFacts
  <2>2. QED
    BY <1>1, <2>1 DEF TypeOK, IFun, Tick
<1>6. TAKE i \in Instruments
<1>7. Somewhere(h, i)
  BY <1>3 DEF SurvivesAt
<1>8. CASE Head(out[h]).inst = i
  <2>1. /\ Nums(out'[h], i) = Nums(out[h], i) \ {Head(out[h]).seq}
        /\ \A x \in Nums(out[h], i) : Head(out[h]).seq <= x
        /\ Head(out[h]).seq \in Nums(out[h], i)
    BY <1>2, <1>4, <1>8, NumsTail
  <2>2. last'[h][i] = Head(out[h]).seq
    BY <1>2, <1>5, <1>8 DEF IFun
  <2>3. CASE newest[h][i] = last[h][i]
    <3>1. PICK k \in DOMAIN out[h] : out[h][k].inst = i /\ out[h][k].seq = Head(out[h]).seq
      BY <2>1, NumsAre
    <3>2. last[h][i] < Head(out[h]).seq /\ Head(out[h]).seq <= newest[h][i]
      BY <3>1 DEF OrderInv, Lines, LineOK, After, UpTo
    <3>3. last[h][i] \in Nat /\ Head(out[h]).seq \in Nat
      BY <1>4, <1>5, <3>1, TickFacts DEF IFun
    <3>4. QED
      BY <2>3, <3>2, <3>3
  <2>4. CASE newest[h][i] # last[h][i]
    BY <1>2, <1>3, <1>7, <2>1, <2>2, <2>4 DEF Somewhere
  <2>5. QED
    BY <2>3, <2>4
<1>9. CASE Head(out[h]).inst # i
  <2>1. Nums(out'[h], i) = Nums(out[h], i)
    BY <1>2, <1>4, <1>9, NumsTail
  <2>2. last'[h][i] = last[h][i]
    BY <1>2, <1>5, <1>9 DEF IFun
  <2>3. QED
    BY <1>2, <1>3, <1>7, <2>1, <2>2 DEF Somewhere
<1>10. QED
  BY <1>8, <1>9

LEMMA SurvivesStep ==
  ASSUME OrderInv, Matches, Survives, [Next]_vars
  PROVE  Survives'
<1> SUFFICES ASSUME NEW h \in Handles PROVE SurvivesAt(h)'
  BY DEF Survives
<1>1. TypeInv /\ TypeOK /\ Shape /\ SurvivesAt(h) /\ h # None
  BY BusAssumption DEF OrderInv, TypeInv, Survives
<1> USE DEF pubVars, regVars, readVars, offerVars, coalVars, loopVars
<1>2. /\ out \in [Handles -> Seq(Tick)] /\ newest \in [Handles -> IFun]
      /\ pending \in [Handles -> IFun] /\ carry \in [Handles -> Seq(Tick)]
      /\ last \in [Handles -> IFun]
  BY <1>1 DEF TypeOK, QueueOK, IFun
<1>3. CASE PublishStep
  <2>1. UNCHANGED <<done, last, carry>>
    BY <1>3 DEF PublishStep, NextTarget, Publish, PublishReturns, TargetServed, Skip,
         Deliver, TrySend, CountSent, DropNewest, BlockFull, BlockSend, BlockDone,
         BlockCancelled, OldestFull, Evict, CountEvicted, OldestRetry, Pend, Wake
  <2>2. Coalesces(h)' => Coalesces(h)
    BY <2>1 DEF Coalesces
  <2>3. CASE (Deliver \/ Pend) /\ h = tgt
    BY <1>1, <2>3, SurviveOffer DEF SurvivesAt
  <2>4. CASE h # tgt
    <3>1. out'[h] = out[h] /\ newest'[h] = newest[h] /\ pending'[h] = pending[h]
      BY <1>2, <1>3, <2>4 DEF PublishStep, NextTarget, Publish, PublishReturns, TargetServed, Skip,
           Deliver, TrySend, CountSent, DropNewest, BlockFull, BlockSend, BlockDone,
           BlockCancelled, OldestFull, Evict, CountEvicted, OldestRetry, Pend, Wake, Push, Pop
    <3>2. ~InHand(h)
      BY <2>4 DEF InHand
    <3>3. QED
      BY <1>1, <2>1, <2>2, <3>1, <3>2, SurviveFrame
  <2>5. CASE h = tgt /\ ~Deliver /\ ~Pend /\ pc \notin {"send", "wait", "evict", "evicted", "recheck"}
    <3>1. UNCHANGED <<out, newest, pending>> /\ pc # "pend"
      BY <1>3, <2>5 DEF PublishStep, NextTarget, Publish, PublishReturns, TargetServed, Skip,
           TrySend, CountSent, DropNewest, BlockFull, BlockSend, BlockDone,
           BlockCancelled, OldestFull, Evict, CountEvicted, OldestRetry, Wake
    <3>2. ~InHand(h)
      BY <2>5, <3>1 DEF InHand
    <3>3. QED
      BY <1>1, <2>1, <2>2, <3>1, <3>2, SurviveFrame
  <2>6. CASE h = tgt /\ pc \in {"send", "wait", "evict", "evicted", "recheck"}
    BY <1>1, <2>6 DEF Shape, SurvivesAt, Coalesces
  <2>7. QED
    BY <2>3, <2>4, <2>5, <2>6
<1>4. ASSUME NEW g \in Handles, LoopStep(g) \/ Consume(g) PROVE SurvivesAt(h)'
  <2>1. CASE h = g
    BY <1>1, <1>4, <2>1, SurviveLoop, SurviveConsume DEF SurvivesAt
  <2>2. CASE h # g
    <3>1. UNCHANGED <<pc, tgt, todo, newest, done>>
      BY <1>4 DEF LoopStep, LoopWoken, LoopEmpty, LoopSend, LoopCount, LoopExit, LoopTake, Consume
    <3>2. /\ out'[h] = out[h] /\ pending'[h] = pending[h] /\ carry'[h] = carry[h]
          /\ last'[h] = last[h]
      BY <1>2, <1>4, <2>2 DEF LoopStep, LoopWoken, LoopEmpty, LoopSend, LoopCount, LoopExit, LoopTake,
           Consume, Push, Pop
    <3>3. InHand(h)' = InHand(h) /\ (Coalesces(h)' => Coalesces(h))
      BY <3>1 DEF InHand, Coalesces
    <3>4. QED
      BY <1>1, <3>1, <3>2, <3>3, SurviveFrame
  <2>3. QED
    BY <2>1, <2>2
<1>5. CASE \/ \E i \in Instruments : Assign(i)
           \/ PumpStops \/ Cancel \/ CloseBus
           \/ \E g \in Handles : Subscribe(g) \/ CloseSub(g) \/ Shutdown(g) \/ ConsumerStops(g)
           \/ UNCHANGED vars
  <2>1. UNCHANGED <<out, newest, last, pending, carry, tgt, todo>>
    BY <1>5 DEF Assign, PumpStops, Cancel, CloseBus, Subscribe, CloseSub, Shutdown, ConsumerStops, vars
  <2>2. pc' = pc \/ pc \in {"idle", "filled"}
    BY <1>5 DEF Assign, PumpStops, Cancel, CloseBus, Subscribe, CloseSub, Shutdown, ConsumerStops, vars
  <2>3. done[h] => done'[h]
    BY <1>1, <1>5 DEF Assign, PumpStops, Cancel, CloseBus, Subscribe, CloseSub, Shutdown,
         ConsumerStops, vars, TypeOK
  <2>4. (InHand(h) => InHand(h)') /\ (Coalesces(h)' => Coalesces(h))
    BY <2>1, <2>2, <2>3 DEF InHand, Coalesces
  <2>5. QED
    BY <1>1, <2>1, <2>4, SurviveFrame
<1>6. QED
  BY <1>3, <1>4, <1>5 DEF Next

-----------------------------------------------------------------------------
PolicyInv ==
  /\ OrderInv /\ Supply /\ Matches /\ EvictsOldest /\ WaitsBlock
  /\ Runs /\ Survives

LEMMA PolicyInit == Init => PolicyInv
<1> SUFFICES ASSUME Init PROVE PolicyInv
  OBVIOUS
<1>1. /\ pc = "idle" /\ tgt = None /\ batch = << >> /\ rest = {} /\ subs = {} /\ made = {}
      /\ \A h \in Handles : out[h] = << >> /\ done[h] = FALSE
      /\ \A h \in Handles, i \in Instruments : newest[h][i] = 0 /\ last[h][i] = 0
  BY DEF Init
<1>2. Consecutive(batch, next) /\ \A h \in Handles : Continues(h)
  BY <1>1 DEF Consecutive, Continues, Wanted
<1>3. Supply
  BY <1>1, <1>2 DEF Supply, Serving, Holding
<1>4. Matches /\ EvictsOldest /\ WaitsBlock
  BY <1>1 DEF Matches, EvictsOldest, WaitsBlock, Holding
<1>5. Runs
  <2> SUFFICES ASSUME NEW h \in Handles, NEW i \in Instruments PROVE Run(h, i, 1)
    BY DEF Runs, RunAt
  <2>1. Top(h, i) = 0
    BY <1>1 DEF Top, InHand
  <2>2. Nums(out[h], i) = {}
    BY <1>1 DEF Nums
  <2>3. 1 .. 0 = {} /\ 1 <= 0 + 1
    OBVIOUS
  <2>4. QED
    BY <1>1, <2>1, <2>2, <2>3 DEF Run
<1>6. Survives
  BY <1>1 DEF Survives, SurvivesAt, Somewhere
<1>7. QED
  BY <1>3, <1>4, <1>5, <1>6, OrderInit DEF PolicyInv

LEMMA PolicyStep == PolicyInv /\ [Next]_vars => PolicyInv'
<1> SUFFICES ASSUME PolicyInv, [Next]_vars PROVE PolicyInv'
  OBVIOUS
<1>1. /\ OrderInv /\ Supply /\ Matches /\ EvictsOldest /\ WaitsBlock /\ Runs /\ Survives
      /\ TypeInv /\ subs \subseteq made
  BY DEF PolicyInv, OrderInv, Supply
<1>2. Kind
  BY <1>1, StepKind
<1>3. QED
  BY <1>1, <1>2, OrderStep, SupplyStep, MatchesStep, EvictsOldestStep, WaitsBlockStep, RunsStep,
     SurvivesStep DEF PolicyInv

LEMMA PolicyInvKeeps == PolicyInv => PolicyKept
<1> SUFFICES ASSUME PolicyInv PROVE PolicyKept
  OBVIOUS
<1>1. Runs /\ Survives /\ TypeOK
  BY DEF PolicyInv, OrderInv, TypeInv
<1>2. \A h, i : Window(h, i) = Nums(out[h], i)
  BY DEF Window, Nums
<1>3. LatestSurvives
  <2> SUFFICES ASSUME NEW h \in Handles, Policy[h] = "coalesce", ~done[h], NEW i \in Instruments
               PROVE  Somewhere(h, i)
    BY <1>2 DEF LatestSurvives, Somewhere
  <2>1. QED
    BY <1>1 DEF Survives, SurvivesAt, Coalesces
<1>4. ASSUME NEW h \in Handles, Unbroken(h), ~InHand(h), NEW i \in Instruments
      PROVE  \E m \in Nat : /\ m <= newest[h][i] + 1
                            /\ Window(h, i) = m .. newest[h][i]
                            /\ Policy[h] = "block" /\ last[h][i] # 0 => m = last[h][i] + 1
  <2>1. Top(h, i) = newest[h][i]
    BY <1>4 DEF Top
  <2>2. PICK m \in Nat : Run(h, i, m)
    BY <1>1, <1>4 DEF Runs, RunAt
  <2>3. QED
    BY <1>2, <2>1, <2>2 DEF Run
<1>5. GapOnlyInFront
  <2> SUFFICES ASSUME NEW h \in Handles, Policy[h] = "drop_oldest", ~done[h], ~InHand(h),
                      NEW i \in Instruments
               PROVE  Window(h, i) = (newest[h][i] + 1 - Cardinality(Window(h, i))) .. newest[h][i]
    BY DEF GapOnlyInFront
  <2>1. PICK m \in Nat : m <= newest[h][i] + 1 /\ Window(h, i) = m .. newest[h][i]
    BY <1>4 DEF Unbroken
  <2>2. PICK n \in Nat : n = newest[h][i]
    BY <1>1 DEF TypeOK
  <2>3. Cardinality(m .. n) = IF m > n THEN 0 ELSE n - m + 1
    <3>1. m \in Int /\ n \in Int
      OBVIOUS
    <3>2. QED
      BY <3>1, FS_Interval, Zenon
  <2>4. m <= n + 1
    BY <2>1, <2>2
  <2>5. m = n + 1 - Cardinality(m .. n)
    BY <2>3, <2>4
  <2>6. QED
    BY <2>1, <2>2, <2>5
<1>6. BlockIsLossless
  <2> SUFFICES ASSUME NEW h \in Handles, Policy[h] = "block", ~done[h], ~InHand(h), pc # "stopped",
                      NEW i \in Instruments, last[h][i] # 0
               PROVE  Window(h, i) = (last[h][i] + 1) .. newest[h][i]
    BY DEF BlockIsLossless
  <2>1. QED
    BY <1>4 DEF Unbroken
<1>7. QED
  BY <1>3, <1>5, <1>6 DEF PolicyKept

(* The policies keep what bus.go says of them, whatever the capacities and *)
(* however deliver, coalesceLoop, the consumer and the callers of Close    *)
(* interleave: under coalesce the newest tick of every instrument is read  *)
(* or on its way; under drop_oldest a gap can only be in front of the      *)
(* queue; under block there is none.                                       *)
THEOREM PolicyCorrect == Spec => []PolicyKept
  BY PolicyInit, PolicyStep, PolicyInvKeeps, PTL DEF Spec
=============================================================================
