---------------------------- MODULE FanoutProofs ----------------------------
(***************************************************************************)
(* Theorems about Fanout, for any set of clients and instruments, any      *)
(* filters, any length of a client's queue and any number of ticks.        *)
(***************************************************************************)
EXTENDS Fanout, Lemmas, TLAPS

Tick == [inst : Instruments, seq : Nat]
Lives == {"none", "select", "write", "ping", "leaving", "gone"}

FeedOK ==
  /\ published \in [Instruments -> Nat]
  /\ seen \in [{Sub} -> [Instruments -> Nat]]

RunOK ==
  /\ tick \in Seq(Tick)
  /\ targets \subseteq Conns
  /\ cur \in Conns \cup {None}
  /\ ~Idle => tick # << >>
  /\ evicted \in BOOLEAN
  /\ evicted => cur # None
  /\ clients \subseteq Conns
  /\ kicked \in Nat
  /\ offers \in [Conns -> Seq(Tick)]

ConnsOK ==
  /\ life \in [Conns -> Lives]
  /\ out \in [Conns -> Seq(Tick)]
  /\ hand \in [Conns -> Seq(Tick)]
  /\ \A c \in Conns : life[c] = "write" => hand[c] # << >>
  /\ done \in [Conns -> BOOLEAN]
  /\ got \in [Conns -> [Instruments -> Nat]]
  /\ wrote \in [Conns -> Nat]

TypeInv == FeedOK /\ RunOK /\ ConnsOK

(* What makes NobodyKicked inductive: queues keep to their length, and the *)
(* one that broadcast has evicted from has room until it comes back to it. *)
RoomInv ==
  /\ \A c \in Conns : Len(out[c]) <= ClientQueue
  /\ evicted => Len(out[cur]) < ClientQueue

LEMMA FeedSteps ==
  ASSUME FeedOK, NEW i \in Instruments
  PROVE  /\ In!FeedAssign(i) =>
              /\ FeedOK' /\ seen' = seen
              /\ published'[i] = published[i] + 1
              /\ \A j \in Instruments : published[j] <= published'[j]
         /\ In!FeedRead(Sub, i) =>
              /\ FeedOK' /\ published' = published
              /\ seen[Sub][i] < seen'[Sub][i] /\ seen'[Sub][i] <= published[i]
              /\ \A j \in Instruments : j # i => seen'[Sub][j] = seen[Sub][j]
<1>1. ASSUME In!FeedAssign(i)
      PROVE  /\ FeedOK' /\ seen' = seen
             /\ published'[i] = published[i] + 1
             /\ \A j \in Instruments : published[j] <= published'[j]
  BY <1>1 DEF FeedOK, In!FeedAssign
<1>2. ASSUME In!FeedRead(Sub, i)
      PROVE  /\ FeedOK' /\ published' = published
             /\ seen[Sub][i] < seen'[Sub][i] /\ seen'[Sub][i] <= published[i]
             /\ \A j \in Instruments : j # i => seen'[Sub][j] = seen[Sub][j]
  <2>1. PICK n \in (seen[Sub][i] + 1) .. published[i] :
          seen' = [seen EXCEPT ![Sub][i] = n] /\ published' = published
    BY <1>2 DEF In!FeedRead
  <2>2. seen[Sub] \in [Instruments -> Nat] /\ published[i] \in Nat /\ n \in Nat
    BY <2>1 DEF FeedOK
  <2>3. seen'[Sub] = [seen[Sub] EXCEPT ![i] = n] /\ seen' \in [{Sub} -> [Instruments -> Nat]]
    BY <2>1, <2>2 DEF FeedOK
  <2>4. QED
    BY <2>1, <2>2, <2>3 DEF FeedOK
<1>3. QED
  BY <1>1, <1>2

LEMMA TypeInit == Init => TypeInv /\ RoomInv /\ NobodyKicked
<1> SUFFICES ASSUME Init PROVE TypeInv /\ RoomInv /\ NobodyKicked
  OBVIOUS
<1> USE FanoutAssumption DEF Init
<1>1. FeedOK
  BY DEF FeedOK, In!FeedInit
<1>3. done \in [Conns -> BOOLEAN] /\ evicted \in BOOLEAN
  BY Zenon
<1>2. RunOK
  BY <1>3 DEF RunOK, Idle
<1>4. ConnsOK
  BY <1>3 DEF ConnsOK, Lives
<1>5. RoomInv /\ NobodyKicked
  BY DEF RoomInv, NobodyKicked
<1>6. QED
  BY <1>1, <1>2, <1>4, <1>5 DEF TypeInv

LEMMA PushType ==
  ASSUME NEW q \in [Conns -> Seq(Tick)], NEW c \in Conns, NEW t \in Tick
  PROVE  [q EXCEPT ![c] = Append(@, t)] \in [Conns -> Seq(Tick)]
<1>1. Append(q[c], t) \in Seq(Tick)
  BY AppendFacts
<1>2. QED
  BY <1>1

LEMMA TypeStep == TypeInv /\ [Next]_vars => TypeInv'
<1> SUFFICES ASSUME TypeInv, [Next]_vars PROVE TypeInv'
  OBVIOUS
<1> USE FanoutAssumption DEF TypeInv, RunOK, ConnsOK, Lives, Idle, runVars, connVars, feedVars
<1>1. ASSUME NEW i \in Instruments, Assign(i) PROVE TypeInv'
  <2>1. FeedOK'
    BY <1>1, FeedSteps DEF Assign
  <2>2. QED
    BY <1>1, <2>1 DEF Assign
<1>2. ASSUME NEW i \in Instruments, Receive(i) PROVE TypeInv'
  <2>1. FeedOK' /\ seen'[Sub][i] \in Nat
    BY <1>2, FeedSteps DEF Receive, FeedOK
  <2>2. tick' \in Seq(Tick) /\ tick' # << >>
    BY <1>2, <2>1 DEF Receive, Tick
  <2>3. QED
    BY <1>2, <2>1, <2>2 DEF Receive
<1>3. CASE Stop
  BY <1>3 DEF Stop, FeedOK
<1>4. ASSUME NEW c \in Conns, Turn(c), cur' \in {cur, c}, Push(c) \/ out' = out
      PROVE  TypeInv'
  <2>1. tick # << >> /\ tick[1] \in Tick
    BY <1>4 DEF Turn
  <2>2. offers' \in [Conns -> Seq(Tick)]
    BY <1>4, <2>1, PushType DEF Turn
  <2>3. [out EXCEPT ![c] = Append(@, tick[1])] \in [Conns -> Seq(Tick)]
    BY <2>1, PushType
  <2>4. out' \in [Conns -> Seq(Tick)]
    BY <1>4, <2>3, Zenon DEF Push
  <2>5. RunOK'
    BY <1>4, <2>1, <2>2 DEF Turn
  <2>6. ConnsOK'
    BY <1>4, <2>4 DEF Turn
  <2>7. FeedOK'
    BY <1>4 DEF Turn, FeedOK
  <2>8. QED
    BY <2>5, <2>6, <2>7
<1>5. CASE Evict
  <2>1. out' \in [Conns -> Seq(Tick)]
    BY <1>5, TailFacts DEF Evict
  <2>2. QED
    BY <1>5, <2>1 DEF Evict, FeedOK
<1>6. CASE Retry
  <2>1. tick # << >> /\ tick[1] \in Tick /\ cur \in Conns
    BY <1>6 DEF Retry
  <2>2. kicked' \in Nat
    BY <1>6 DEF Retry
  <2>3. done' \in [Conns -> BOOLEAN]
    BY <1>6, <2>1 DEF Retry
  <2>4. out' = out \/ out' = [out EXCEPT ![cur] = Append(@, tick[1])]
    BY <1>6 DEF Retry, Push
  <2>5. [out EXCEPT ![cur] = Append(@, tick[1])] \in [Conns -> Seq(Tick)]
    BY <2>1, PushType
  <2>6. out' \in [Conns -> Seq(Tick)]
    BY <2>4, <2>5, Zenon
  <2>7. QED
    BY <1>6, <2>1, <2>2, <2>3, <2>6 DEF Retry, FeedOK
<1>7. ASSUME NEW c \in Conns, Join(c) PROVE TypeInv'
  BY <1>7 DEF Join, FeedOK
<1>8. ASSUME NEW c \in Conns, NEW from, NEW to \in Lives \ {"write"}, Goes(c, from, to)
      PROVE  TypeInv'
  BY <1>8 DEF Goes, FeedOK
<1>9. ASSUME NEW c \in Conns, Take(c) PROVE TypeInv'
  <2>1. out' \in [Conns -> Seq(Tick)] /\ hand' \in [Conns -> Seq(Tick)] /\ hand'[c] # << >>
    BY <1>9, TailFacts DEF Take
  <2>2. QED
    BY <1>9, <2>1 DEF Take, FeedOK
<1>10. ASSUME NEW c \in Conns, WriteSucceeds(c) PROVE TypeInv'
  <2>1. hand[c][1] \in Tick
    BY <1>10 DEF WriteSucceeds
  <2>2. got' \in [Conns -> [Instruments -> Nat]]
    BY <1>10, <2>1 DEF WriteSucceeds, Tick
  <2>3. wrote' \in [Conns -> Nat]
    BY <1>10 DEF WriteSucceeds
  <2>4. QED
    BY <1>10, <2>2, <2>3 DEF WriteSucceeds, FeedOK
<1>11. ASSUME NEW c \in Conns, Remove(c) PROVE TypeInv'
  <2>1. done' \in [Conns -> BOOLEAN]
    BY <1>11 DEF Remove
  <2>2. QED
    BY <1>11, <2>1 DEF Remove, FeedOK
<1>12. ASSUME NEW c \in Conns, ReaderEnds(c) PROVE TypeInv'
  BY <1>12 DEF ReaderEnds, FeedOK
<1>13. ASSUME NEW c \in Conns, NEW to \in {"open", "silent", "left"}, PeerMoves(c, to)
       PROVE  TypeInv'
  BY <1>13 DEF PeerMoves, FeedOK
<1>14. CASE UNCHANGED vars
  BY <1>14 DEF vars, FeedOK
<1> HIDE FanoutAssumption DEF TypeInv, RunOK, ConnsOK, Idle, runVars, connVars, feedVars
<1>15. ASSUME NEW c \in Conns, TrySend(c) \/ FindFull(c) PROVE TypeInv'
  <2>1. CASE TrySend(c)
    BY <1>4, <2>1 DEF TrySend
  <2>2. CASE FindFull(c)
    BY <1>4, <2>2 DEF FindFull
  <2>3. QED
    BY <1>15, <2>1, <2>2
<1>16. ASSUME NEW c \in Conns, Serve(c) PROVE TypeInv'
  BY <1>8, <1>9, <1>10, <1>11, <1>16
  DEF Serve, Leave, WriteFails, Ping, Pong, PingFails, Lives
<1>17. QED
  BY <1>1, <1>2, <1>3, <1>5, <1>6, <1>7, <1>12, <1>13, <1>14, <1>15, <1>16
  DEF Next, Broadcast

-----------------------------------------------------------------------------
(* Nobody is kicked. *)

LEMMA RoomStep ==
  TypeInv /\ RoomInv /\ NobodyKicked /\ [Next]_vars => RoomInv' /\ NobodyKicked'
<1> SUFFICES ASSUME TypeInv, RoomInv, NobodyKicked, [Next]_vars
             PROVE  RoomInv' /\ NobodyKicked'
  OBVIOUS
<1> USE FanoutAssumption
    DEF TypeInv, RunOK, ConnsOK, RoomInv, NobodyKicked, Full, runVars, connVars
<1>1. CASE UNCHANGED <<out, cur, evicted, kicked, done, life>>
  BY <1>1
<1>2. ASSUME NEW c \in Conns, Turn(c),
             (~Full(c) /\ Push(c) /\ cur' = cur) \/ (out' = out /\ cur' = c)
      PROVE  RoomInv' /\ NobodyKicked'
  <2>1. ~evicted /\ ~evicted' /\ UNCHANGED <<kicked, done, life>>
    BY <1>2 DEF Turn
  <2>2. CASE ~Full(c) /\ Push(c)
    <3>1. tick[1] \in Tick
      BY <1>2 DEF Turn, Idle
    <3>2. out[c] \in Seq(Tick) /\ Len(Append(out[c], tick[1])) = Len(out[c]) + 1
      BY <3>1, AppendFacts
    <3>3. \A d \in Conns : Len(out'[d]) <= ClientQueue
      BY <2>2, <3>2 DEF Push
    <3>4. QED
      BY <2>1, <3>3
  <2>3. CASE out' = out
    BY <2>1, <2>3
  <2>4. QED
    BY <1>2, <2>2, <2>3
<1>3. CASE Evict
  <2>1. cur \in Conns /\ out[cur] \in Seq(Tick) /\ UNCHANGED <<kicked, done, life, cur>>
    BY <1>3 DEF Evict
  <2>2. out'[cur] = (IF out[cur] = << >> THEN << >> ELSE Tail(out[cur]))
    BY <1>3, <2>1 DEF Evict
  <2>3. Len(out'[cur]) < ClientQueue
    BY <2>1, <2>2, TailFacts
  <2>4. \A d \in Conns : Len(out'[d]) <= ClientQueue
    BY <1>3, <2>1, <2>3 DEF Evict
  <2>5. QED
    BY <2>1, <2>3, <2>4
<1>4. CASE Retry
  <2>1. cur \in Conns /\ ~Full(cur) /\ tick[1] \in Tick /\ out[cur] \in Seq(Tick)
    BY <1>4 DEF Retry, Idle
  <2>2. Push(cur) /\ ~evicted' /\ UNCHANGED <<kicked, done, life>>
    BY <1>4, <2>1 DEF Retry
  <2>3. Len(out'[cur]) = Len(out[cur]) + 1
    BY <2>1, <2>2, AppendFacts DEF Push
  <2>4. \A d \in Conns : Len(out'[d]) <= ClientQueue
    BY <2>1, <2>2, <2>3 DEF Push
  <2>5. QED
    BY <2>2, <2>4
<1>5. ASSUME NEW c \in Conns, NEW to, life[c] # "gone", life' = [life EXCEPT ![c] = to],
             UNCHANGED <<out, cur, evicted, kicked, done>>
      PROVE  RoomInv' /\ NobodyKicked'
  BY <1>5
<1>6. ASSUME NEW c \in Conns, Take(c) PROVE RoomInv' /\ NobodyKicked'
  <2>1. Len(out'[c]) = Len(out[c]) - 1 /\ Len(out[c]) \in Nat
    BY <1>6, TailFacts DEF Take
  <2>2. RoomInv'
    BY <1>6, <2>1 DEF Take
  <2>3. NobodyKicked'
    BY <1>6 DEF Take
  <2>4. QED
    BY <2>2, <2>3
<1>7. ASSUME NEW c \in Conns, Remove(c) PROVE RoomInv' /\ NobodyKicked'
  BY <1>7 DEF Remove
<1> HIDE FanoutAssumption
    DEF TypeInv, RunOK, ConnsOK, RoomInv, NobodyKicked, Full, runVars, connVars
<1>8. ASSUME NEW c \in Conns, TrySend(c) \/ FindFull(c) PROVE RoomInv' /\ NobodyKicked'
  <2>1. CASE TrySend(c)
    BY <1>2, <2>1 DEF TrySend
  <2>2. CASE FindFull(c)
    BY <1>2, <2>2 DEF FindFull
  <2>3. QED
    BY <1>8, <2>1, <2>2
<1>9. ASSUME NEW c \in Conns, NEW from, NEW to, from # "gone", Goes(c, from, to)
      PROVE RoomInv' /\ NobodyKicked'
  BY <1>5, <1>9 DEF Goes, runVars
<1>10. ASSUME NEW c \in Conns, Serve(c) PROVE RoomInv' /\ NobodyKicked'
  <2>1. CASE WriteSucceeds(c)
    BY <1>5, <2>1 DEF WriteSucceeds, runVars
  <2>2. QED
    BY <1>6, <1>7, <1>9, <1>10, <2>1
    DEF Serve, Leave, WriteFails, Ping, Pong, PingFails
<1>11. ASSUME NEW c \in Conns, Join(c) PROVE RoomInv' /\ NobodyKicked'
  BY <1>5, <1>11 DEF Join, runVars
<1>12. QED
  BY <1>1, <1>3, <1>4, <1>8, <1>10, <1>11
  DEF Next, Broadcast, Assign, Receive, Stop, ReaderEnds, PeerMoves, vars, connVars, runVars

(* Dropping the oldest is enough: a queue that was full has room when      *)
(* broadcast tries again, whatever the handlers do meanwhile, so no client *)
(* is ever kicked and a handler is ended by nobody but its own reader.     *)
THEOREM NobodyKickedHolds == Spec => []NobodyKicked
<1>1. Init => TypeInv /\ RoomInv /\ NobodyKicked
  BY TypeInit
<1>2. TypeInv /\ RoomInv /\ NobodyKicked /\ [Next]_vars
        => (TypeInv /\ RoomInv /\ NobodyKicked)'
  BY TypeStep, RoomStep
<1>3. QED
  BY <1>1, <1>2, PTL DEF Spec

-----------------------------------------------------------------------------
(* What waits for a client. *)

LEMMA EndOfPoints ==
  ASSUME NEW S, NEW s \in Seq(S), NEW t \in Seq(S)
  PROVE  EndOf(s, t) <=> /\ Len(s) <= Len(t)
                         /\ \A k \in 1 .. Len(s) : s[k] = t[Len(t) - Len(s) + k]
<1>1. ASSUME Len(s) <= Len(t)
      PROVE  /\ SubSeq(t, Len(t) + 1 - Len(s), Len(t)) \in Seq(S)
             /\ Len(SubSeq(t, Len(t) + 1 - Len(s), Len(t))) = Len(s)
             /\ \A k \in 1 .. Len(s) : SubSeq(t, Len(t) + 1 - Len(s), Len(t))[k]
                                         = t[Len(t) - Len(s) + k]
  BY <1>1
<1>2. ASSUME Len(s) <= Len(t), \A k \in 1 .. Len(s) : s[k] = t[Len(t) - Len(s) + k]
      PROVE  s = SubSeq(t, Len(t) + 1 - Len(s), Len(t))
  BY <1>1, <1>2
<1>3. QED
  BY <1>1, <1>2 DEF EndOf

LEMMA EndOfAppend ==
  ASSUME NEW S, NEW s \in Seq(S), NEW t \in Seq(S), NEW x \in S, EndOf(s, t)
  PROVE  EndOf(Append(s, x), Append(t, x))
<1>1. Append(s, x) \in Seq(S) /\ Append(t, x) \in Seq(S)
  BY AppendFacts
<1>2. Len(Append(s, x)) = Len(s) + 1 /\ Len(Append(t, x)) = Len(t) + 1
  BY AppendFacts
<1>3. Len(s) <= Len(t) /\ \A k \in 1 .. Len(s) : s[k] = t[Len(t) - Len(s) + k]
  BY EndOfPoints
<1>4. ASSUME NEW k \in 1 .. (Len(s) + 1)
      PROVE  Append(s, x)[k] = Append(t, x)[Len(t) - Len(s) + k]
  <2>1. CASE k = Len(s) + 1
    BY <2>1, AppendFacts
  <2>2. CASE k \in 1 .. Len(s)
    BY <1>3, <2>2, AppendFacts
  <2>3. Len(s) \in Nat
    OBVIOUS
  <2>4. k = Len(s) + 1 \/ k \in 1 .. Len(s)
    BY <2>3
  <2>5. QED
    BY <2>1, <2>2, <2>4, Zenon
<1>5. Len(Append(t, x)) - Len(Append(s, x)) = Len(t) - Len(s) /\ Len(s) + 1 <= Len(t) + 1
  BY <1>2, <1>3
<1>6. QED
  BY <1>1, <1>2, <1>4, <1>5, EndOfPoints

LEMMA EndOfTail ==
  ASSUME NEW S, NEW s \in Seq(S), NEW t \in Seq(S), s # << >>, EndOf(s, t)
  PROVE  EndOf(Tail(s), t)
<1>1. Len(s) <= Len(t) /\ \A k \in 1 .. Len(s) : s[k] = t[Len(t) - Len(s) + k]
  BY EndOfPoints
<1>2. /\ Tail(s) \in Seq(S) /\ Len(Tail(s)) = Len(s) - 1
      /\ \A k \in 1 .. (Len(s) - 1) : Tail(s)[k] = s[k + 1]
  BY TailFacts
<1>3. \A k \in 1 .. (Len(s) - 1) : Tail(s)[k] = t[Len(t) - (Len(s) - 1) + k]
  <2>1. TAKE k \in 1 .. (Len(s) - 1)
  <2>2. k + 1 \in 1 .. Len(s) /\ Len(t) - (Len(s) - 1) + k = Len(t) - Len(s) + (k + 1)
    OBVIOUS
  <2>3. QED
    BY <1>1, <1>2, <2>2
<1>4. Len(s) - 1 <= Len(t)
  BY <1>1
<1>5. QED
  BY <1>2, <1>3, <1>4, EndOfPoints

LEMMA EndOfLast ==
  ASSUME NEW S, NEW s \in Seq(S), NEW t \in Seq(S), EndOf(s, t), Len(s) > 0
  PROVE  s[Len(s)] = t[Len(t)]
<1>1. Len(s) <= Len(t) /\ \A k \in 1 .. Len(s) : s[k] = t[Len(t) - Len(s) + k]
  BY EndOfPoints
<1>2. Len(s) \in 1 .. Len(s) /\ Len(t) - Len(s) + Len(s) = Len(t)
  OBVIOUS
<1>3. QED
  BY <1>1, <1>2

(* All but the last of a sequence that has just grown is what it was. *)
LEMMA ButLast ==
  ASSUME NEW S, NEW t \in Seq(S), NEW x \in S
  PROVE  SubSeq(Append(t, x), 1, Len(t)) = t
  OBVIOUS

LEMMA LastBack ==
  ASSUME NEW S, NEW t \in Seq(S), Len(t) > 0
  PROVE  /\ SubSeq(t, 1, Len(t) - 1) \in Seq(S)
         /\ t = Append(SubSeq(t, 1, Len(t) - 1), t[Len(t)])
  OBVIOUS

(* Between finding the queue full and the second attempt, the last of what *)
(* there was for the client is the tick in hand.                           *)
OfferInv == cur # None => LET n == Len(offers[cur]) IN n > 0 /\ offers[cur][n] = tick[1]

LEMMA WaitsStep ==
  ASSUME TypeInv, RoomInv, OfferInv, NewestWaits, [Next]_vars
  PROVE  OfferInv' /\ NewestWaits'
<1> USE FanoutAssumption DEF OfferInv, NewestWaits
<1> DEFINE Types == /\ offers \in [Conns -> Seq(Tick)] /\ out \in [Conns -> Seq(Tick)]
                    /\ hand \in [Conns -> Seq(Tick)] /\ cur \in Conns \cup {None}
                    /\ targets \subseteq Conns
<1>1. Types
  BY DEF TypeInv, RunOK, ConnsOK
<1>2. CASE UNCHANGED <<out, cur, hand, offers>> /\ (cur # None => tick' = tick)
  BY <1>2
<1>3. ASSUME NEW c \in Conns, Turn(c) PROVE tick[1] \in Tick /\ cur # c
  BY <1>3 DEF Turn, TypeInv, RunOK, Idle
<1>4. ASSUME NEW c \in Conns, Turn(c)
      PROVE  /\ offers'[c] = Append(offers[c], tick[1])
             /\ Len(offers'[c]) = Len(offers[c]) + 1 /\ Len(offers[c]) \in Nat
             /\ offers'[c][Len(offers[c]) + 1] = tick[1]
             /\ SubSeq(offers'[c], 1, Len(offers[c])) = offers[c]
             /\ \A d \in Conns : d # c => offers'[d] = offers[d]
             /\ UNCHANGED <<tick, hand>>
  <2>1. /\ offers'[c] = Append(offers[c], tick[1]) /\ offers[c] \in Seq(Tick)
        /\ \A d \in Conns : d # c => offers'[d] = offers[d]
        /\ UNCHANGED <<tick, hand>>
    BY <1>1, <1>4 DEF Turn, connVars
  <2>2. QED
    BY <1>3, <1>4, <2>1, AppendFacts, ButLast
<1>5. ASSUME NEW c \in Conns, TrySend(c) PROVE OfferInv' /\ NewestWaits'
  <2>1. Turn(c) /\ cur' = None /\ cur = None
    BY <1>5 DEF TrySend, Turn
  <2>2. /\ out'[c] = Append(out[c], tick[1])
        /\ \A d \in Conns : d # c => out'[d] = out[d]
    BY <1>1, <1>5 DEF TrySend, Push
  <2>3. EndOf(out'[c], offers'[c]) /\ out'[c] # << >>
    <3>1. EndOf(out[c], offers[c])
      BY <2>1
    <3>2. EndOf(Append(out[c], tick[1]), Append(offers[c], tick[1]))
      BY <1>1, <1>3, <2>1, <3>1, EndOfAppend
    <3>3. out[c] \in Seq(Tick) /\ tick[1] \in Tick
      BY <1>1, <1>3, <2>1
    <3>4. Append(out[c], tick[1]) # << >>
      BY <3>3, AppendNotEmpty, SMTT(30)
    <3>5. QED
      BY <1>4, <2>1, <2>2, <3>2, <3>4
  <2>4. QED
    BY <1>4, <2>1, <2>2, <2>3, ZenonT(40)
<1>6. ASSUME NEW c \in Conns, FindFull(c) PROVE OfferInv' /\ NewestWaits'
  <2>1. Turn(c) /\ cur' = c /\ cur = None /\ out' = out
    BY <1>6 DEF FindFull, Turn
  <2>2. EndOf(out[c], offers[c])
    BY <2>1
  <2>3. \A d \in Conns : d # c => ~ (cur' = d) /\ ~ (cur = d)
    BY <2>1
  <2>4. Len(offers'[c]) - 1 = Len(offers[c])
    BY <1>4, <2>1
  <2>5. OfferInv'
    BY <1>4, <2>1, <2>4
  <2>6. EndOf(out'[c], SubSeq(offers'[c], 1, Len(offers'[c]) - 1))
    BY <1>4, <2>1, <2>2, <2>4
  <2>7. QED
    BY <1>4, <2>1, <2>3, <2>5, <2>6
<1>7. CASE Evict
  <2>1. /\ cur \in Conns /\ UNCHANGED <<cur, offers, tick, hand>>
        /\ out'[cur] = (IF out[cur] = << >> THEN << >> ELSE Tail(out[cur]))
        /\ \A d \in Conns : d # cur => out'[d] = out[d]
    BY <1>1, <1>7 DEF Evict, connVars
  <2> DEFINE o == SubSeq(offers[cur], 1, Len(offers[cur]) - 1)
  <2>2. EndOf(out[cur], o) /\ o \in Seq(Tick) /\ out[cur] \in Seq(Tick)
    BY <1>1, <2>1, LastBack
  <2>3. EndOf(out'[cur], o)
    BY <2>1, <2>2, EndOfTail
  <2>4. QED
    BY <2>1, <2>3
<1>8. CASE Retry
  <2>1. cur \in Conns /\ ~Full(cur) /\ cur' = None /\ UNCHANGED <<offers, hand>>
    BY <1>8, <1>1 DEF Retry, RoomInv, Full, connVars
  <2>2. /\ out'[cur] = Append(out[cur], tick[1])
        /\ \A d \in Conns : d # cur => out'[d] = out[d]
    BY <1>1, <1>8, <2>1 DEF Retry, Push
  <2> DEFINE o == SubSeq(offers[cur], 1, Len(offers[cur]) - 1)
  <2>3. /\ EndOf(out[cur], o) /\ o \in Seq(Tick) /\ out[cur] \in Seq(Tick)
        /\ offers[cur] = Append(o, tick[1]) /\ tick[1] \in Tick
    BY <1>1, <2>1, LastBack
  <2> HIDE DEF o
  <2>4. EndOf(Append(out[cur], tick[1]), Append(o, tick[1]))
    BY <2>3, EndOfAppend
  <2>5. Append(out[cur], tick[1]) # << >>
    BY <2>3, AppendNotEmpty
  <2>6. EndOf(out'[cur], offers[cur]) /\ out'[cur] # << >>
    BY <2>2, <2>3, <2>4, <2>5
  <2>7. \A d \in Conns : d # cur => ~ (cur = d)
    OBVIOUS
  <2>8. QED
    BY <2>1, <2>2, <2>6, <2>7
<1>9. ASSUME NEW c \in Conns, Take(c) PROVE OfferInv' /\ NewestWaits'
  <2>1. /\ out[c] # << >> /\ out[c] \in Seq(Tick) /\ offers[c] \in Seq(Tick)
        /\ out'[c] = Tail(out[c]) /\ hand'[c] = <<Head(out[c])>>
        /\ \A d \in Conns : d # c => out'[d] = out[d] /\ hand'[d] = hand[d]
        /\ UNCHANGED <<cur, offers, tick>>
    BY <1>1, <1>9 DEF Take, runVars
  <2>2. CASE cur = c
    <3> DEFINE o == SubSeq(offers[c], 1, Len(offers[c]) - 1)
    <3>1. EndOf(out[c], o) /\ o \in Seq(Tick)
      BY <2>1, <2>2, LastBack
    <3>2. EndOf(out'[c], o)
      BY <2>1, <3>1, EndOfTail
    <3>3. QED
      BY <2>1, <2>2, <3>2
  <2>3. CASE cur # c
    <3>1. EndOf(out[c], offers[c])
      BY <2>3
    <3>2. EndOf(out'[c], offers[c])
      BY <2>1, <3>1, EndOfTail
    <3>3. ASSUME out'[c] = << >> PROVE hand'[c] = <<offers[c][Len(offers[c])]>>
      <4>1. Len(out[c]) = 1 /\ Head(out[c]) = out[c][1]
        BY <2>1, <3>3, TailFacts, LastTail
      <4>2. out[c][1] = offers[c][Len(offers[c])]
        BY <2>1, <3>1, <4>1, EndOfLast
      <4>3. QED
        BY <2>1, <4>1, <4>2
    <3>4. QED
      BY <2>1, <2>3, <3>2, <3>3
  <2>4. QED
    BY <2>2, <2>3
<1> HIDE FanoutAssumption DEF OfferInv, NewestWaits
<1>10. CASE UNCHANGED vars
  BY <1>2, <1>10 DEF vars, runVars, connVars
<1>11. ASSUME NEW i \in Instruments, Assign(i) \/ Receive(i) PROVE OfferInv' /\ NewestWaits'
  BY <1>2, <1>11 DEF Assign, Receive, connVars, Idle
<1>12. CASE Stop
  BY <1>2, <1>12 DEF Stop, connVars
<1>13. ASSUME NEW c \in Conns, Join(c) \/ Serve(c) \/ ReaderEnds(c)
       PROVE  OfferInv' /\ NewestWaits'
  BY <1>2, <1>9, <1>13
  DEF Join, Serve, ReaderEnds, Leave, WriteFails, Ping, Pong, PingFails, Goes,
      WriteSucceeds, Remove, runVars
<1>14. ASSUME NEW c \in Conns, NEW to, PeerMoves(c, to) PROVE OfferInv' /\ NewestWaits'
  BY <1>2, <1>14 DEF PeerMoves, runVars
<1>15. QED
  BY <1>5, <1>6, <1>7, <1>8, <1>10, <1>11, <1>12, <1>13, <1>14 DEF Next, Broadcast

(* "A live price feed wants the newest tick": the queue of a client is the *)
(* unbroken end of what there was for it, for any length of the queue and  *)
(* however evictions and the handler's reads interleave.                   *)
THEOREM NewestWaitsHolds == Spec => []NewestWaits
<1> DEFINE Inv == TypeInv /\ RoomInv /\ NobodyKicked /\ OfferInv /\ NewestWaits
<1>1. Init => Inv
  <2>1. Init => OfferInv /\ NewestWaits
    BY FanoutAssumption DEF Init, OfferInv, NewestWaits, EndOf
  <2>2. QED
    BY <2>1, TypeInit
<1>2. Inv /\ [Next]_vars => Inv'
  BY TypeStep, RoomStep, WaitsStep
<1>3. QED
  BY <1>1, <1>2, PTL DEF Spec

-----------------------------------------------------------------------------
(* A connection is a feed. *)

Before(x, y) == x.inst = y.inst => x.seq < y.seq

(* t has been received and is later than all of its instrument that have   *)
(* been written to c.                                                      *)
Due(c, t) == got[c][t.inst] < t.seq /\ t.seq <= seen[Sub][t.inst]

Rises(s) == \A k, m \in 1 .. Len(s) : k < m => Before(s[k], s[m])

(* The inductive invariant: the tick being written, the queue and the tick *)
(* being broadcast, in this order, are due and rise for each instrument.   *)
LineUp(c) ==
  /\ \A i \in Instruments : got[c][i] <= seen[Sub][i]
  /\ \A k \in 1 .. Len(out[c]) : Due(c, out[c][k])
  /\ Rises(out[c])
  /\ life[c] = "write" =>
       /\ Due(c, hand[c][1])
       /\ \A k \in 1 .. Len(out[c]) : Before(hand[c][1], out[c][k])
  /\ c \in targets \/ cur = c =>
       /\ Due(c, tick[1])
       /\ \A k \in 1 .. Len(out[c]) : Before(out[c][k], tick[1])
       /\ life[c] = "write" => Before(hand[c][1], tick[1])

OrderInv ==
  /\ \A i \in Instruments : seen[Sub][i] <= published[i]
  /\ cur \notin targets
  /\ \A c \in Conns : LineUp(c)

(* What the actions that leave c's line alone keep. *)
LEMMA LineKept ==
  ASSUME TypeInv, TypeInv', NEW c \in Conns, LineUp(c),
         UNCHANGED <<seen, tick>>, got'[c] = got[c], out'[c] = out[c], hand'[c] = hand[c],
         life'[c] = "write" => life[c] = "write",
         c \in targets' \/ cur' = c => c \in targets \/ cur = c
  PROVE  LineUp(c)'
  BY DEF LineUp, Due

LEMMA RisesAppend ==
  ASSUME NEW s \in Seq(Tick), NEW t \in Tick, Rises(s),
         \A k \in 1 .. Len(s) : Before(s[k], t)
  PROVE  Rises(Append(s, t))
<1>1. /\ Len(Append(s, t)) = Len(s) + 1 /\ Len(s) \in Nat
      /\ \A k \in 1 .. Len(s) : Append(s, t)[k] = s[k]
      /\ Append(s, t)[Len(s) + 1] = t
  BY AppendFacts
<1>2. ASSUME NEW k \in 1 .. (Len(s) + 1), NEW m \in 1 .. (Len(s) + 1), k < m
      PROVE  Before(Append(s, t)[k], Append(s, t)[m])
  <2>1. k \in 1 .. Len(s) /\ (m \in 1 .. Len(s) \/ m = Len(s) + 1)
    BY <1>1, <1>2
  <2>2. QED
    BY <1>1, <1>2, <2>1 DEF Rises
<1>3. QED
  BY <1>1, <1>2 DEF Rises

LEMMA RisesTail ==
  ASSUME NEW s \in Seq(Tick), s # << >>, Rises(s)
  PROVE  Rises(Tail(s)) /\ \A k \in 1 .. Len(Tail(s)) : Before(Head(s), Tail(s)[k])
<1>1. /\ Head(s) = s[1] /\ Len(s) \in Nat \ {0} /\ Len(Tail(s)) = Len(s) - 1
      /\ \A k \in 1 .. (Len(s) - 1) : Tail(s)[k] = s[k + 1]
  BY TailFacts
<1>2. ASSUME NEW k \in 1 .. (Len(s) - 1), NEW m \in 1 .. (Len(s) - 1), k < m
      PROVE  Before(Tail(s)[k], Tail(s)[m])
  <2>1. k + 1 \in 1 .. Len(s) /\ m + 1 \in 1 .. Len(s) /\ k + 1 < m + 1
    BY <1>1, <1>2
  <2>2. QED
    BY <1>1, <2>1 DEF Rises
<1>3. ASSUME NEW k \in 1 .. (Len(s) - 1) PROVE Before(Head(s), Tail(s)[k])
  <2>1. 1 \in 1 .. Len(s) /\ k + 1 \in 1 .. Len(s) /\ 1 < k + 1
    BY <1>1
  <2>2. QED
    BY <1>1, <2>1 DEF Rises
<1>4. QED
  BY <1>1, <1>2, <1>3 DEF Rises

(* Appending the tick of the broadcast to c's queue, once it is c's turn.  *)
LEMMA LinePush ==
  ASSUME TypeInv, NEW c \in Conns, LineUp(c), c \in targets \/ cur = c, tick # << >>,
         out'[c] = Append(out[c], tick[1]), c \notin targets', cur' # c,
         UNCHANGED <<seen, tick, got, hand, life>>
  PROVE  LineUp(c)'
<1>1. tick[1] \in Tick /\ out[c] \in Seq(Tick)
  BY DEF TypeInv, RunOK, ConnsOK
<1>2. /\ Len(out'[c]) = Len(out[c]) + 1 /\ Len(out[c]) \in Nat
      /\ \A k \in 1 .. Len(out[c]) : out'[c][k] = out[c][k]
      /\ out'[c][Len(out[c]) + 1] = tick[1]
  BY <1>1, AppendFacts
<1>3. Rises(out'[c])
  BY <1>1, RisesAppend DEF LineUp
<1>4. \A k \in 1 .. Len(out'[c]) : k \in 1 .. Len(out[c]) \/ k = Len(out[c]) + 1
  BY <1>2
<1>5. \A k \in 1 .. Len(out'[c]) : Due(c, out'[c][k])
  BY <1>2, <1>4 DEF LineUp
<1>6. ASSUME life[c] = "write"
      PROVE  \A k \in 1 .. Len(out'[c]) : Before(hand[c][1], out'[c][k])
  BY <1>2, <1>4, <1>6 DEF LineUp
<1>7. QED
  BY <1>3, <1>5, <1>6 DEF LineUp, Due

(* Dropping the oldest, or nothing. *)
LEMMA LineTail ==
  ASSUME TypeInv, NEW c \in Conns, LineUp(c), out[c] # << >>
  PROVE  /\ \A k \in 1 .. Len(Tail(out[c])) : Due(c, Tail(out[c])[k])
         /\ Rises(Tail(out[c]))
         /\ Due(c, Head(out[c]))
         /\ \A k \in 1 .. Len(Tail(out[c])) : Before(Head(out[c]), Tail(out[c])[k])
         /\ life[c] = "write" =>
              \A k \in 1 .. Len(Tail(out[c])) : Before(hand[c][1], Tail(out[c])[k])
         /\ c \in targets \/ cur = c =>
              /\ Before(Head(out[c]), tick[1])
              /\ \A k \in 1 .. Len(Tail(out[c])) : Before(Tail(out[c])[k], tick[1])
<1>1. out[c] \in Seq(Tick)
  BY DEF TypeInv, ConnsOK
<1>2. /\ Head(out[c]) = out[c][1] /\ Len(out[c]) \in Nat \ {0}
      /\ Len(Tail(out[c])) = Len(out[c]) - 1
      /\ \A k \in 1 .. (Len(out[c]) - 1) : Tail(out[c])[k] = out[c][k + 1]
  BY <1>1, TailFacts
<1>3. 1 \in 1 .. Len(out[c]) /\ \A k \in 1 .. (Len(out[c]) - 1) : k + 1 \in 1 .. Len(out[c])
  BY <1>2
<1>4. Rises(Tail(out[c]))
      /\ \A k \in 1 .. Len(Tail(out[c])) : Before(Head(out[c]), Tail(out[c])[k])
  BY <1>1, RisesTail DEF LineUp
<1>5. QED
  BY <1>2, <1>3, <1>4 DEF LineUp

LEMMA OrderStep ==
  ASSUME TypeInv, TypeInv', RoomInv, OrderInv, [Next]_vars
  PROVE  OrderInv'
<1> USE DEF OrderInv
<1>1. ASSUME NEW i \in Instruments, Assign(i) PROVE OrderInv'
  <2>1. /\ UNCHANGED <<seen, tick, got, out, hand, life, targets, cur>>
        /\ \A j \in Instruments : published[j] <= published'[j]
    BY <1>1, FeedSteps DEF Assign, TypeInv, connVars
  <2>2. \A c \in Conns : LineUp(c)'
    BY <2>1, LineKept
  <2>3. \A j \in Instruments : seen'[Sub][j] <= published'[j]
    BY <2>1 DEF TypeInv, FeedOK
  <2>4. QED
    BY <2>1, <2>2, <2>3
<1>2. ASSUME NEW i \in Instruments, Receive(i) PROVE OrderInv'
  <2>1. /\ published' = published /\ targets' \subseteq Conns /\ Idle /\ cur' = cur
        /\ UNCHANGED <<got, out, hand, life>>
        /\ seen[Sub][i] < seen'[Sub][i] /\ seen'[Sub][i] <= published[i]
        /\ \A j \in Instruments : j # i => seen'[Sub][j] = seen[Sub][j]
    BY <1>2, FeedSteps DEF Receive, TypeInv, RunOK, connVars
  <2>2. tick' = <<[inst |-> i, seq |-> seen'[Sub][i]]>> /\ seen'[Sub][i] \in Nat
    BY <1>2 DEF Receive, TypeInv, FeedOK
  <2>3. tick'[1].inst = i /\ tick'[1].seq = seen'[Sub][i]
    BY <2>2
  <2>4. \A j \in Instruments : /\ seen[Sub][j] \in Nat /\ seen'[Sub][j] \in Nat
                                /\ seen[Sub][j] <= seen'[Sub][j]
    BY <2>1 DEF TypeInv, FeedOK
  <2>5. ASSUME NEW c \in Conns PROVE LineUp(c)'
    <3>1. /\ \A k \in 1 .. Len(out[c]) : out[c][k] \in Tick
          /\ life[c] = "write" => hand[c][1] \in Tick
          /\ \A j \in Instruments : got[c][j] \in Nat
      BY DEF TypeInv, ConnsOK
    <3>2. LineUp(c)
      OBVIOUS
    <3>3. ASSUME NEW t \in Tick, Due(c, t) PROVE Due(c, t)' /\ Before(t, tick'[1])
      <4>1. t.inst \in Instruments /\ t.seq \in Nat
        BY DEF Tick
      <4>2. QED
        BY <2>1, <2>3, <2>4, <3>1, <3>3, <4>1 DEF Due, Before
    <3>4. \A j \in Instruments : got'[c][j] <= seen'[Sub][j]
      BY <2>1, <2>4, <3>1, <3>2 DEF LineUp
    <3>5. Due(c, tick[1])'
      BY <2>1, <2>3, <2>4, <3>1, <3>2 DEF LineUp, Due
    <3>6. QED
      BY <2>1, <3>1, <3>2, <3>3, <3>4, <3>5 DEF LineUp
  <2>6. \A j \in Instruments : seen'[Sub][j] <= published'[j]
    BY <2>1, <2>4 DEF TypeInv, FeedOK
  <2>7. cur' \notin targets'
    BY <2>1, FanoutAssumption DEF Idle
  <2>8. QED
    BY <2>5, <2>6, <2>7
<1>3. CASE UNCHANGED <<published, seen, tick, got, out, hand, targets, cur>>
           /\ \A c \in Conns : life'[c] = "write" => life[c] = "write"
  <2>1. \A c \in Conns : LineUp(c)'
    BY <1>3, LineKept
  <2>2. QED
    BY <1>3, <2>1
<1>4. ASSUME NEW c \in Conns, TrySend(c) PROVE OrderInv'
  <2>1. /\ UNCHANGED <<published, seen, tick, got, hand, life>> /\ cur = None /\ cur' = None
        /\ c \in targets /\ targets' = targets \ {c}
        /\ out'[c] = Append(out[c], tick[1])
        /\ \A d \in Conns : d # c => out'[d] = out[d]
    BY <1>4 DEF TrySend, Turn, Push, feedVars, connVars, TypeInv, ConnsOK
  <2>2. LineUp(c)'
    BY <2>1, LinePush, FanoutAssumption DEF TypeInv, RunOK, Idle
  <2>3. \A d \in Conns : d # c => LineUp(d)'
    BY <2>1, LineKept
  <2>4. QED
    BY <2>1, <2>2, <2>3
<1>5. ASSUME NEW c \in Conns, FindFull(c) PROVE OrderInv'
  <2>1. /\ UNCHANGED <<published, seen, tick, got, hand, life, out>> /\ cur = None /\ cur' = c
        /\ c \in targets /\ targets' = targets \ {c}
    BY <1>5 DEF FindFull, Turn, feedVars, connVars
  <2>2. \A d \in Conns : LineUp(d)'
    BY <2>1, LineKept
  <2>3. QED
    BY <2>1, <2>2
<1>6. CASE Evict
  <2>1. /\ UNCHANGED <<published, seen, tick, got, hand, life, targets, cur>> /\ cur \in Conns
        /\ out'[cur] = (IF out[cur] = << >> THEN << >> ELSE Tail(out[cur]))
        /\ \A d \in Conns : d # cur => out'[d] = out[d]
    BY <1>6 DEF Evict, feedVars, connVars, TypeInv, RunOK, ConnsOK
  <2>2. LineUp(cur)'
    <3>1. CASE out[cur] = << >>
      BY <2>1, <3>1, LineKept, SMTT(30)
    <3>2. CASE out[cur] # << >>
      <4>1. out'[cur] = Tail(out[cur]) /\ LineUp(cur)
        BY <2>1, <3>2
      <4>2. QED
        BY <2>1, <3>2, <4>1, LineTail DEF LineUp, Due
    <3>3. QED
      BY <3>1, <3>2
  <2>3. \A d \in Conns : d # cur => LineUp(d)'
    BY <2>1, LineKept
  <2>4. QED
    BY <2>1, <2>2, <2>3
<1>7. CASE Retry
  <2>1. cur \in Conns /\ ~Full(cur)
    BY <1>7, FanoutAssumption DEF Retry, RoomInv, Full, TypeInv, RunOK, ConnsOK
  <2>2. /\ UNCHANGED <<published, seen, tick, got, hand, life, targets>> /\ cur' = None
        /\ out'[cur] = Append(out[cur], tick[1])
        /\ \A d \in Conns : d # cur => out'[d] = out[d]
    BY <1>7, <2>1 DEF Retry, Push, feedVars, connVars, TypeInv, ConnsOK
  <2>3. cur' # cur /\ tick # << >> /\ cur \notin targets'
    BY <1>7, <2>2 DEF Retry, TypeInv, RunOK, Idle
  <2>4. ASSUME NEW d \in Conns, d = cur PROVE LineUp(d)'
    BY <2>2, <2>3, <2>4, LinePush
  <2>5. ASSUME NEW d \in Conns, d # cur PROVE LineUp(d)'
    <3>1. LineUp(d) /\ ~ (d = cur')
      BY <2>2, FanoutAssumption
    <3>2. QED
      BY <2>2, <2>5, <3>1, LineKept
  <2>6. None \notin targets
    BY FanoutAssumption DEF TypeInv, RunOK
  <2>7. \A d \in Conns : LineUp(d)'
    BY <2>4, <2>5
  <2>8. QED
    BY <2>2, <2>6, <2>7
<1>8. ASSUME NEW c \in Conns, Take(c) PROVE OrderInv'
  <2>1. /\ UNCHANGED <<published, seen, tick, got, targets, cur>> /\ life[c] # "write"
        /\ out[c] # << >> /\ out'[c] = Tail(out[c]) /\ hand'[c][1] = Head(out[c])
        /\ \A d \in Conns : d # c => /\ out'[d] = out[d] /\ hand'[d] = hand[d]
                                      /\ life'[d] = life[d]
    BY <1>8 DEF Take, runVars, feedVars, TypeInv, ConnsOK
  <2>2. LineUp(c)'
    BY <2>1, LineTail DEF LineUp, Due
  <2>3. \A d \in Conns : d # c => LineUp(d)'
    BY <2>1, LineKept
  <2>4. QED
    BY <2>1, <2>2, <2>3
<1>9. ASSUME NEW c \in Conns, WriteSucceeds(c) PROVE OrderInv'
  <2> DEFINE h == hand[c][1]
  <2>1. /\ UNCHANGED <<published, seen, tick, out, hand, targets, cur>> /\ life[c] = "write"
        /\ life'[c] # "write" /\ h \in Tick
        /\ got'[c] = [got[c] EXCEPT ![h.inst] = h.seq]
        /\ \A d \in Conns : d # c => got'[d] = got[d] /\ life'[d] = life[d]
    BY <1>9 DEF WriteSucceeds, runVars, feedVars, TypeInv, ConnsOK
  <2>2. LineUp(c) /\ Due(c, h)
    BY <2>1 DEF LineUp
  <2>3. h.inst \in Instruments /\ got[c] \in [Instruments -> Nat]
    BY <2>1, SMTT(30) DEF Tick, TypeInv, ConnsOK
  <2>4. \A j \in Instruments : got'[c][j] = IF j = h.inst THEN h.seq ELSE got[c][j]
    BY <2>1, <2>3
  <2>5. ASSUME NEW t \in Tick, Due(c, t), Before(h, t) PROVE Due(c, t)'
    <3>1. t.inst \in Instruments
      BY DEF Tick
    <3>2. QED
      BY <2>1, <2>4, <2>5, <3>1 DEF Due, Before
  <2>6. \A j \in Instruments : got'[c][j] <= seen'[Sub][j]
    BY <2>1, <2>2, <2>4 DEF LineUp, Due
  <2>7. /\ \A k \in 1 .. Len(out[c]) : out[c][k] \in Tick
        /\ c \in targets \/ cur = c => tick[1] \in Tick
    <3>1. c \in targets \/ cur = c => ~Idle
      BY FanoutAssumption DEF Idle
    <3>2. c \in targets \/ cur = c => tick[1] \in Tick
      BY <3>1 DEF TypeInv, RunOK
    <3>3. \A k \in 1 .. Len(out[c]) : out[c][k] \in Tick
      BY DEF TypeInv, ConnsOK
    <3>4. QED
      BY <3>2, <3>3
  <2> HIDE DEF h
  <2>8. LineUp(c)'
    BY <2>1, <2>2, <2>5, <2>6, <2>7 DEF LineUp, h
  <2>9. \A d \in Conns : d # c => LineUp(d)'
    BY <2>1, LineKept
  <2>10. QED
    BY <2>1, <2>8, <2>9
<1> HIDE DEF OrderInv
<1>10. CASE UNCHANGED vars
  BY <1>3, <1>10 DEF vars, runVars, connVars, feedVars
<1>11. CASE Stop
  BY <1>3, <1>11 DEF Stop, connVars, feedVars
<1>12. ASSUME NEW c \in Conns, NEW to, to # "write", life' = [life EXCEPT ![c] = to],
              UNCHANGED <<runVars, out, hand, got>>
       PROVE  OrderInv'
  BY <1>3, <1>12 DEF runVars, feedVars, TypeInv, ConnsOK
<1>13. ASSUME NEW c \in Conns, Join(c) \/ Serve(c) PROVE OrderInv'
  BY <1>8, <1>9, <1>12, <1>13
  DEF Join, Serve, Leave, WriteFails, Ping, Pong, PingFails, Goes, Remove
<1>14. ASSUME NEW c \in Conns, NEW to, ReaderEnds(c) \/ PeerMoves(c, to) PROVE OrderInv'
  BY <1>3, <1>14 DEF ReaderEnds, PeerMoves, runVars, feedVars
<1>15. QED
  BY <1>1, <1>2, <1>4, <1>5, <1>6, <1>7, <1>10, <1>11, <1>13, <1>14 DEF Next, Broadcast

(* Every step is one of the clients' feed: a write that succeeds is a read *)
(* of it, a tick the pipeline numbers is one of its ticks, and the rest    *)
(* changes nothing of it.                                                  *)
LEMMA FeedStep ==
  ASSUME TypeInv, OrderInv, [Next]_vars
  PROVE  [Out!FeedNext]_(Out!feedVars)
<1> USE DEF Out!FeedNext, Out!feedVars
<1>1. ASSUME NEW i \in Instruments, Assign(i) PROVE Out!FeedNext
  BY <1>1 DEF Assign, In!FeedAssign, Out!FeedAssign, connVars
<1>2. ASSUME NEW i \in Instruments, Receive(i) PROVE UNCHANGED <<published, got, wrote>>
  BY <1>2 DEF Receive, In!FeedRead, connVars
<1>3. CASE Broadcast
  BY <1>3 DEF Broadcast, Evict, Retry, TrySend, FindFull, Turn, connVars, feedVars
<1>4. ASSUME NEW c \in Conns, WriteSucceeds(c) PROVE Out!FeedNext
  <2> DEFINE h == hand[c][1]
  <2>1. h \in Tick /\ Due(c, h)
    BY <1>4 DEF WriteSucceeds, TypeInv, ConnsOK, OrderInv, LineUp
  <2>2. /\ h.inst \in Instruments /\ h.seq \in Nat /\ got[c][h.inst] \in Nat
        /\ seen[Sub][h.inst] \in Nat /\ published[h.inst] \in Nat
        /\ seen[Sub][h.inst] <= published[h.inst]
    BY <2>1 DEF Tick, TypeInv, ConnsOK, FeedOK, OrderInv
  <2>3. h.seq \in (got[c][h.inst] + 1) .. published[h.inst]
    BY <2>1, <2>2 DEF Due
  <2>4. /\ got' = [got EXCEPT ![c][h.inst] = h.seq]
        /\ wrote' = [wrote EXCEPT ![c] = @ + 1]
        /\ published' = published
    BY <1>4 DEF WriteSucceeds, runVars, feedVars
  <2> HIDE DEF h
  <2>5. Out!FeedRead(c, h.inst)
    BY <2>3, <2>4 DEF Out!FeedRead
  <2>6. QED
    BY <2>2, <2>5
<1>5. ASSUME NEW c \in Conns, Join(c) \/ (Serve(c) /\ ~WriteSucceeds(c)) \/ ReaderEnds(c)
      PROVE  UNCHANGED <<published, got, wrote>>
  BY <1>5 DEF Join, Serve, Leave, Take, WriteFails, Ping, Pong, PingFails, Goes, Remove,
              ReaderEnds, runVars, feedVars
<1>6. ASSUME NEW c \in Conns, NEW to, PeerMoves(c, to) PROVE UNCHANGED <<published, got, wrote>>
  BY <1>6 DEF PeerMoves, runVars, feedVars
<1>7. CASE Stop
  BY <1>7 DEF Stop, connVars, feedVars
<1>8. CASE UNCHANGED vars
  BY <1>8 DEF vars, runVars, connVars, feedVars
<1> HIDE DEF Out!FeedNext
<1>9. QED
  BY <1>1, <1>2, <1>3, <1>4, <1>5, <1>6, <1>7, <1>8 DEF Next

(* What the bus promises its subscribers the server promises each client:  *)
(* the ticks of an instrument are written in order, none twice and none    *)
(* invented, through two queues, evictions that race with writes and a     *)
(* snapshot that outlives the client.                                      *)
THEOREM ClientsAreFedHolds == Spec => ClientsAreFed
<1> DEFINE Inv == TypeInv /\ RoomInv /\ NobodyKicked /\ OrderInv
<1>1. Init => Inv
  <2>1. Init => OrderInv
    BY FanoutAssumption
    DEF Init, In!FeedInit, OrderInv, LineUp, Rises
  <2>2. QED
    BY <2>1, TypeInit
<1>2. Inv /\ [Next]_vars => Inv'
  BY TypeStep, RoomStep, OrderStep
<1>3. Init => Out!FeedInit
  BY DEF Init, In!FeedInit, Out!FeedInit
<1>4. Inv /\ [Next]_vars => [Out!FeedNext]_(Out!feedVars)
  BY FeedStep
<1>5. QED
  BY <1>1, <1>2, <1>3, <1>4, PTL DEF Spec, ClientsAreFed, Out!FeedSpec
=============================================================================
