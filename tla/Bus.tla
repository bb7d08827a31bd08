-------------------------------- MODULE Bus ---------------------------------
(***************************************************************************)
(* The in-process bus (internal/bus, internal/bus/inproc) between the pump *)
(* goroutine, which numbers and publishes ticks, and the subscribers, each *)
(* with a bounded queue and one of four overflow policies.                 *)
(*                                                                         *)
(* Goroutines: the publisher (pump, cmd/mdp/main.go), one coalesceLoop per *)
(* coalescing subscription, one consumer per subscription, and callers of  *)
(* Subscribe, Close and cancel.  A step is what happens between two points *)
(* where another goroutine can interfere: a channel operation, a critical  *)
(* section, or an atomic counter update; one that follows a send or a      *)
(* receive that had no effect is a single step with it.                    *)
(*                                                                         *)
(* Left out: HighWater and BlockedNanos (metrics no code reads back), and  *)
(* the calls that fail without changing anything (Validate, duplicate      *)
(* name, subscribing to a closed bus) beyond their guards.                 *)
(***************************************************************************)
EXTENDS Naturals, Sequences, FiniteSets

CONSTANTS
  Handles,      (* subscription objects Subscribe may create             *)
  Instruments,
  Name,         (* Name[h]: SubscriberSpec.Name; two handles may share it *)
  Policy,       (* Policy[h]: SubscriberSpec.Policy                      *)
  Capacity,     (* Capacity[h]: queue depth after defaulting             *)
  Filter,       (* Filter[h]: SubscriberSpec.Instruments, {} for all     *)
  MaxSubs,      (* bound: subscriptions opened                           *)
  MaxSeq,       (* bound: ticks numbered per instrument                  *)
  MaxBatch,     (* bound: ticks in one frame                             *)
  MaxReclosed,  (* bound: closed again when the name is another's        *)
  None          (* no subscription                                       *)

Policies == {"block", "drop_newest", "drop_oldest", "coalesce"}

ASSUME BusAssumption ==
  /\ Policy \in [Handles -> Policies]
  /\ Capacity \in [Handles -> Nat \ {0}]
  /\ Filter \in [Handles -> SUBSET Instruments]
  /\ MaxSubs \in Nat
  /\ MaxSeq \in Nat
  /\ MaxBatch \in Nat
  /\ MaxReclosed \in Nat
  /\ None \notin Handles

VARIABLES
  next,       (* next[i]: number of the last tick Sequencer.Assign stamped *)
  pc,         (* where the publisher is                                    *)
  batch,      (* the ticks of the frame being published                    *)
  rest,       (* subscriptions of the Publish snapshot not yet served      *)
  tgt,        (* the subscription being served, or None                    *)
  todo,       (* ticks of batch not yet delivered to tgt; its head is t    *)
  cancelled,  (* ctx is done                                               *)
  closed,     (* Bus.closed                                                *)
  subs,       (* Bus.subs: registered subscriptions                        *)
  made,       (* subscriptions Subscribe has returned                      *)
  closing,    (* unregistered by a Close that has not yet shut them down   *)
  done,       (* done[h]: the done channel is closed                       *)
  reclosed,   (* history: closed again, under the name of another          *)
  out,        (* out[h]: the buffered channel the consumer reads           *)
  pending,    (* pending[h][i]: number of the pending tick, 0 for none     *)
  wake,       (* wake[h]: the wake channel (capacity 1) is full            *)
  loop,       (* loop[h]: where coalesceLoop is                            *)
  carry,      (* carry[h]: the tick coalesceLoop took out and must send    *)
  delivered, dropped, coalesced, (* Stats counters                         *)
  reading,    (* reading[h]: the consumer is still in its receive loop     *)
  (* History, read by the properties only. *)
  last,       (* last[h][i]: number of the last tick of i consumer h read  *)
  got,        (* got[h]: how many ticks consumer h has read                *)
  offered,    (* offered[h]: how many ticks reached h's policy             *)
  newest      (* newest[h][i]: number of the newest of them                *)

pubVars     == <<next, pc, batch, rest, tgt, todo>>
regVars     == <<closed, subs, made, closing, done, reclosed>>
loopVars    == <<loop, carry>>
coalVars    == <<pending, wake>>
statVars    == <<delivered, dropped, coalesced>>
readVars    == <<reading, last, got>>
offerVars   == <<offered, newest>>
vars == <<pubVars, cancelled, regVars, out, coalVars, loopVars, statVars,
          readVars, offerVars>>

Tick == [inst : Instruments, seq : Nat]

PubStates  == {"idle", "filled", "target", "check", "send", "count", "wait",
               "evict", "evicted", "recheck", "pend", "wake", "stopped"}
LoopStates == {"off", "select", "drain", "send", "count"}

Init ==
  /\ next = [i \in Instruments |-> 0]
  /\ pc = "idle"
  /\ batch = << >>
  /\ rest = {}
  /\ tgt = None
  /\ todo = << >>
  /\ cancelled = FALSE
  /\ closed = FALSE
  /\ subs = {}
  /\ made = {}
  /\ closing = {}
  /\ done = [h \in Handles |-> FALSE]
  /\ reclosed = {}
  /\ out = [h \in Handles |-> << >>]
  /\ pending = [h \in Handles |-> [i \in Instruments |-> 0]]
  /\ wake = [h \in Handles |-> FALSE]
  /\ loop = [h \in Handles |-> "off"]
  /\ carry = [h \in Handles |-> << >>]
  /\ delivered = [h \in Handles |-> 0]
  /\ dropped = [h \in Handles |-> 0]
  /\ coalesced = [h \in Handles |-> 0]
  /\ reading = [h \in Handles |-> FALSE]
  /\ last = [h \in Handles |-> [i \in Instruments |-> 0]]
  /\ got = [h \in Handles |-> 0]
  /\ offered = [h \in Handles |-> 0]
  /\ newest = [h \in Handles |-> [i \in Instruments |-> 0]]

(* Mutant: the channel holds one tick more than it was made for. *)
FullOffByOne(h) == Len(out[h]) > Capacity[h]

Full(h) == Len(out[h]) >= Capacity[h]

Push(h, t) == out' = [out EXCEPT ![h] = Append(@, t)]
Pop(h)     == out' = [out EXCEPT ![h] = Tail(@)]

-----------------------------------------------------------------------------
(* Registration and shutdown. *)

(* Mutant: a name that is taken is given to the newcomer. *)
SubscribeReplaces(h) ==
  /\ h \notin made
  /\ Cardinality(made) < MaxSubs
  /\ ~closed
  /\ subs' = {g \in subs : Name[g] # Name[h]} \cup {h}
  /\ made' = made \cup {h}
  /\ loop' = [loop EXCEPT ![h] = IF Policy[h] = "coalesce" THEN "select" ELSE @]
  /\ reading' = [reading EXCEPT ![h] = TRUE]
  /\ UNCHANGED <<pubVars, cancelled, closed, closing, done, reclosed, out,
                 coalVars, carry, statVars, last, got, offerVars>>

(* Subscribe: refused when the bus is closed or the name is taken; a       *)
(* coalescing subscription starts its goroutine, and its consumer starts   *)
(* to read.                                                                *)
Subscribe(h) ==
  /\ h \notin made
  /\ Cardinality(made) < MaxSubs
  /\ ~closed
  /\ \A g \in subs : Name[g] # Name[h]
  /\ subs' = subs \cup {h}
  /\ made' = made \cup {h}
  /\ loop' = [loop EXCEPT ![h] = IF Policy[h] = "coalesce" THEN "select" ELSE @]
  /\ reading' = [reading EXCEPT ![h] = TRUE]
  /\ UNCHANGED <<pubVars, cancelled, closed, closing, done, reclosed, out,
                 coalVars, carry, statVars, last, got, offerVars>>

(* subscription.Close, first half: Bus.remove deletes by name, whoever has *)
(* the name by now, and on every call; only shutdown has an effect once.   *)
CloseSub(h) ==
  /\ h \in made
  /\ subs' = {g \in subs : Name[g] # Name[h]}
  /\ closing' = IF done[h] THEN closing ELSE closing \cup {h}
  /\ IF (h \in closing \/ done[h]) /\ subs' # subs
       THEN reclosed' = reclosed \cup {h} /\ Cardinality(reclosed') <= MaxReclosed
       ELSE UNCHANGED reclosed
  /\ UNCHANGED <<pubVars, cancelled, closed, made, done, out, coalVars,
                 loopVars, statVars, readVars, offerVars>>

(* Bus.Close, up to the unlock. *)
CloseBus ==
  /\ ~closed
  /\ closed' = TRUE
  /\ subs' = {}
  /\ closing' = closing \cup subs
  /\ UNCHANGED <<pubVars, cancelled, made, done, reclosed, out, coalVars,
                 loopVars, statVars, readVars, offerVars>>

(* shutdown closes done, once, and never out. *)
Shutdown(h) ==
  /\ h \in closing
  /\ closing' = closing \ {h}
  /\ done' = [done EXCEPT ![h] = TRUE]
  /\ UNCHANGED <<pubVars, cancelled, closed, subs, made, reclosed, out,
                 coalVars, loopVars, statVars, readVars, offerVars>>

(* The run context is cancelled: a signal, or a failed goroutine. *)
Cancel ==
  /\ ~cancelled
  /\ cancelled' = TRUE
  /\ UNCHANGED <<pubVars, regVars, out, coalVars, loopVars, statVars, readVars,
                 offerVars>>

-----------------------------------------------------------------------------
(* The publisher. *)

(* Normalize hands the pump a frame's ticks, Sequencer.Assign numbering    *)
(* them one by one.                                                        *)
Assign(i) ==
  /\ pc \in {"idle", "filled"}
  /\ Len(batch) < MaxBatch
  /\ next[i] < MaxSeq
  /\ next' = [next EXCEPT ![i] = @ + 1]
  /\ batch' = Append(batch, [inst |-> i, seq |-> next[i] + 1])
  /\ pc' = "filled"
  /\ UNCHANGED <<rest, tgt, todo, cancelled, regVars, out, coalVars, loopVars,
                 statVars, readVars, offerVars>>

(* Publish, under the read lock: the snapshot of the subscriptions. *)
Publish ==
  /\ pc = "filled"
  /\ rest' = subs
  /\ pc' = "target"
  /\ UNCHANGED <<next, batch, tgt, todo, cancelled, regVars, out, coalVars,
                 loopVars, statVars, readVars, offerVars>>

(* The snapshot is of a map, so its order is arbitrary. *)
NextTarget(h) ==
  /\ pc = "target"
  /\ h \in rest
  /\ rest' = rest \ {h}
  /\ tgt' = h
  /\ todo' = batch
  /\ pc' = "check"
  /\ UNCHANGED <<next, batch, cancelled, regVars, out, coalVars, loopVars,
                 statVars, readVars, offerVars>>

PublishReturns ==
  /\ pc = "target"
  /\ rest = {}
  /\ batch' = << >>
  /\ pc' = "idle"
  /\ UNCHANGED <<next, rest, tgt, todo, cancelled, regVars, out, coalVars,
                 loopVars, statVars, readVars, offerVars>>

(* The pump's select sees ctx.Done; it may as well take another frame. *)
PumpStops ==
  /\ pc = "idle"
  /\ cancelled
  /\ pc' = "stopped"
  /\ UNCHANGED <<next, batch, rest, tgt, todo, cancelled, regVars, out,
                 coalVars, loopVars, statVars, readVars, offerVars>>

TargetServed ==
  /\ pc = "check"
  /\ todo = << >>
  /\ tgt' = None
  /\ pc' = "target"
  /\ UNCHANGED <<next, batch, rest, todo, cancelled, regVars, out, coalVars,
                 loopVars, statVars, readVars, offerVars>>

wants(h, t) == Filter[h] = {} \/ t.inst \in Filter[h]

(* Mutant: the same tick is delivered again. *)
ReturnStays ==
  /\ pc' = "check"
  /\ UNCHANGED <<next, batch, rest, tgt, todo>>

(* The return of deliver: the loop in Publish goes on with the next tick. *)
Return ==
  /\ todo' = Tail(todo)
  /\ pc' = "check"
  /\ UNCHANGED <<next, batch, rest, tgt>>

Goto(l) ==
  /\ pc' = l
  /\ UNCHANGED <<next, batch, rest, tgt, todo>>

(* deliver, for a tick the filter rejects or after shutdown. *)
Skip ==
  /\ pc = "check"
  /\ todo # << >>
  /\ ~wants(tgt, Head(todo)) \/ done[tgt]
  /\ Return
  /\ UNCHANGED <<cancelled, regVars, out, coalVars, loopVars, statVars,
                 readVars, offerVars>>

(* deliver, up to the switch on the policy. *)
Deliver ==
  /\ pc = "check"
  /\ todo # << >>
  /\ wants(tgt, Head(todo))
  /\ ~done[tgt]
  /\ Goto(IF Policy[tgt] = "coalesce" THEN "pend" ELSE "send")
  /\ offered' = [offered EXCEPT ![tgt] = @ + 1]
  /\ newest' = [newest EXCEPT ![tgt][Head(todo).inst] = Head(todo).seq]
  /\ UNCHANGED <<cancelled, regVars, out, coalVars, loopVars, statVars,
                 readVars>>

(* The non-blocking send the three queueing policies begin with. *)
TrySend ==
  /\ pc = "send"
  /\ ~Full(tgt)
  /\ Push(tgt, Head(todo))
  /\ Goto("count")
  /\ UNCHANGED <<cancelled, regVars, coalVars, loopVars, statVars, readVars,
                 offerVars>>

(* delivered.Add, a step after the send it counts. *)
CountSent ==
  /\ pc = "count"
  /\ delivered' = [delivered EXCEPT ![tgt] = @ + 1]
  /\ Return
  /\ UNCHANGED <<cancelled, regVars, out, coalVars, loopVars, dropped,
                 coalesced, readVars, offerVars>>

(* deliverDropNewest: no room, so the arriving tick goes. *)
DropNewest ==
  /\ pc = "send"
  /\ Policy[tgt] = "drop_newest"
  /\ Full(tgt)
  /\ dropped' = [dropped EXCEPT ![tgt] = @ + 1]
  /\ Return
  /\ UNCHANGED <<cancelled, regVars, out, coalVars, loopVars, delivered,
                 coalesced, readVars, offerVars>>

(* Mutant: the slow path gives the tick up instead of waiting. *)
BlockFullGivesUp ==
  /\ pc = "send"
  /\ Policy[tgt] = "block"
  /\ Full(tgt)
  /\ Return
  /\ UNCHANGED <<cancelled, regVars, out, coalVars, loopVars, statVars,
                 readVars, offerVars>>

(* deliverBlocking: no room, so the publisher goes to wait ... *)
BlockFull ==
  /\ pc = "send"
  /\ Policy[tgt] = "block"
  /\ Full(tgt)
  /\ Goto("wait")
  /\ UNCHANGED <<cancelled, regVars, out, coalVars, loopVars, statVars,
                 readVars, offerVars>>

(* ... for room, ... *)
BlockSend ==
  /\ pc = "wait"
  /\ ~Full(tgt)
  /\ Push(tgt, Head(todo))
  /\ Goto("count")
  /\ UNCHANGED <<cancelled, regVars, coalVars, loopVars, statVars, readVars,
                 offerVars>>

(* Mutant: the slow select has no done case. *)
BlockDoneMissing == FALSE

(* ... for the subscription's shutdown, which abandons the tick, ... *)
BlockDone ==
  /\ pc = "wait"
  /\ done[tgt]
  /\ Return
  /\ UNCHANGED <<cancelled, regVars, out, coalVars, loopVars, statVars,
                 readVars, offerVars>>

(* ... or for cancellation: Publish returns ctx.Err() with targets and     *)
(* ticks left unserved, and pump returns.                                  *)
BlockCancelled ==
  /\ pc = "wait"
  /\ cancelled
  /\ pc' = "stopped"
  /\ tgt' = None
  /\ UNCHANGED <<next, batch, rest, todo, cancelled, regVars, out, coalVars,
                 loopVars, statVars, readVars, offerVars>>

(* deliverDropOldest: no room, so evict ... *)
OldestFull ==
  /\ pc = "send"
  /\ Policy[tgt] = "drop_oldest"
  /\ Full(tgt)
  /\ Goto("evict")
  /\ UNCHANGED <<cancelled, regVars, out, coalVars, loopVars, statVars,
                 readVars, offerVars>>

(* Mutant: the newest queued tick goes instead of the oldest. *)
EvictNewest ==
  /\ pc = "evict"
  /\ out[tgt] # << >>
  /\ out' = [out EXCEPT ![tgt] = SubSeq(@, 1, Len(@) - 1)]
  /\ Goto("evicted")
  /\ UNCHANGED <<cancelled, regVars, coalVars, loopVars, statVars, readVars,
                 offerVars>>

(* Mutant: the eviction is counted even when the consumer won the race. *)
EvictAlwaysCounts ==
  /\ pc = "evict"
  /\ out' = [out EXCEPT ![tgt] = IF @ = << >> THEN @ ELSE Tail(@)]
  /\ Goto("evicted")
  /\ UNCHANGED <<cancelled, regVars, coalVars, loopVars, statVars, readVars,
                 offerVars>>

(* ... the head, if the consumer has left one, ... *)
Evict ==
  /\ pc = "evict"
  /\ \/ out[tgt] # << >> /\ Pop(tgt) /\ Goto("evicted")
     \/ out[tgt] = << >> /\ UNCHANGED out /\ Goto("recheck")
  /\ UNCHANGED <<cancelled, regVars, coalVars, loopVars, statVars, readVars,
                 offerVars>>

(* ... count it, a step after it has gone, ... *)
CountEvicted ==
  /\ pc = "evicted"
  /\ dropped' = [dropped EXCEPT ![tgt] = @ + 1]
  /\ Goto("recheck")
  /\ UNCHANGED <<cancelled, regVars, out, coalVars, loopVars, delivered,
                 coalesced, readVars, offerVars>>

(* ... and try again unless the subscription has been shut down. *)
OldestRetry ==
  /\ pc = "recheck"
  /\ \/ done[tgt] /\ Return
     \/ ~done[tgt] /\ Goto("send")
  /\ UNCHANGED <<cancelled, regVars, out, coalVars, loopVars, statVars,
                 readVars, offerVars>>

(* Mutant: a pending tick is kept and the newer one discarded. *)
PendFirstWins ==
  /\ pc = "pend"
  /\ LET t == Head(todo) IN
       /\ coalesced' = [coalesced EXCEPT
                          ![tgt] = IF pending[tgt][t.inst] # 0 THEN @ + 1 ELSE @]
       /\ pending' = [pending EXCEPT ![tgt][t.inst] = IF @ = 0 THEN t.seq ELSE @]
  /\ Goto("wake")
  /\ UNCHANGED <<cancelled, regVars, out, wake, loopVars, delivered, dropped,
                 readVars, offerVars>>

(* deliverCoalesce, the critical section: the newest tick replaces the     *)
(* pending one of its instrument.                                          *)
Pend ==
  /\ pc = "pend"
  /\ LET t == Head(todo) IN
       /\ coalesced' = [coalesced EXCEPT
                          ![tgt] = IF pending[tgt][t.inst] # 0 THEN @ + 1 ELSE @]
       /\ pending' = [pending EXCEPT ![tgt][t.inst] = t.seq]
  /\ Goto("wake")
  /\ UNCHANGED <<cancelled, regVars, out, wake, loopVars, delivered, dropped,
                 readVars, offerVars>>

(* Mutant: wake is unbuffered, so a wake-up is lost on a loop that has not *)
(* come back to its select yet.                                            *)
WakeUnbuffered ==
  /\ pc = "wake"
  /\ wake' \in {wake, [wake EXCEPT ![tgt] = TRUE]}
  /\ Return
  /\ UNCHANGED <<cancelled, regVars, out, pending, loopVars, statVars,
                 readVars, offerVars>>

(* deliverCoalesce, the wake-up: a no-op when one is already queued. *)
Wake ==
  /\ pc = "wake"
  /\ wake' = [wake EXCEPT ![tgt] = TRUE]
  /\ Return
  /\ UNCHANGED <<cancelled, regVars, out, pending, loopVars, statVars,
                 readVars, offerVars>>

-----------------------------------------------------------------------------
(* coalesceLoop. *)

LoopWoken(h) ==
  /\ loop[h] = "select"
  /\ wake[h]
  /\ wake' = [wake EXCEPT ![h] = FALSE]
  /\ loop' = [loop EXCEPT ![h] = "drain"]
  /\ UNCHANGED <<pubVars, cancelled, regVars, out, pending, carry, statVars,
                 readVars, offerVars>>

(* Mutant: the tick taken is not deleted from pending. *)
LoopTakeKeeps(h, i) ==
  /\ loop[h] = "drain"
  /\ pending[h][i] # 0
  /\ carry' = [carry EXCEPT ![h] = <<[inst |-> i, seq |-> pending[h][i]]>>]
  /\ loop' = [loop EXCEPT ![h] = "send"]
  /\ UNCHANGED <<pubVars, cancelled, regVars, out, coalVars, statVars,
                 readVars, offerVars>>

(* The critical section takes any one pending tick. *)
LoopTake(h, i) ==
  /\ loop[h] = "drain"
  /\ pending[h][i] # 0
  /\ carry' = [carry EXCEPT ![h] = <<[inst |-> i, seq |-> pending[h][i]]>>]
  /\ pending' = [pending EXCEPT ![h][i] = 0]
  /\ loop' = [loop EXCEPT ![h] = "send"]
  /\ UNCHANGED <<pubVars, cancelled, regVars, out, wake, statVars, readVars,
                 offerVars>>

LoopEmpty(h) ==
  /\ loop[h] = "drain"
  /\ \A i \in Instruments : pending[h][i] = 0
  /\ loop' = [loop EXCEPT ![h] = "select"]
  /\ UNCHANGED <<pubVars, cancelled, regVars, out, coalVars, carry, statVars,
                 readVars, offerVars>>

LoopSend(h) ==
  /\ loop[h] = "send"
  /\ ~Full(h)
  /\ Push(h, Head(carry[h]))
  /\ carry' = [carry EXCEPT ![h] = << >>]
  /\ loop' = [loop EXCEPT ![h] = "count"]
  /\ UNCHANGED <<pubVars, cancelled, regVars, coalVars, statVars, readVars,
                 offerVars>>

LoopCount(h) ==
  /\ loop[h] = "count"
  /\ delivered' = [delivered EXCEPT ![h] = @ + 1]
  /\ loop' = [loop EXCEPT ![h] = "drain"]
  /\ UNCHANGED <<pubVars, cancelled, regVars, out, coalVars, carry, dropped,
                 coalesced, readVars, offerVars>>

(* Mutant: the send to out has no done case beside it. *)
LoopExitIdleOnly(h) ==
  /\ loop[h] = "select"
  /\ done[h]
  /\ loop' = [loop EXCEPT ![h] = "off"]
  /\ UNCHANGED <<pubVars, cancelled, regVars, out, coalVars, carry, statVars,
                 readVars, offerVars>>

(* Both selects of the loop return on done; the second abandons its tick. *)
LoopExit(h) ==
  /\ loop[h] \in {"select", "send"}
  /\ done[h]
  /\ carry' = [carry EXCEPT ![h] = << >>]
  /\ loop' = [loop EXCEPT ![h] = "off"]
  /\ UNCHANGED <<pubVars, cancelled, regVars, out, coalVars, statVars,
                 readVars, offerVars>>

-----------------------------------------------------------------------------
(* The consumers: each reads one tick at a time, and leaves its loop on    *)
(* Done or on cancellation, which the select may also pass over.           *)

Consume(h) ==
  /\ reading[h]
  /\ out[h] # << >>
  /\ Pop(h)
  /\ last' = [last EXCEPT ![h][Head(out[h]).inst] = Head(out[h]).seq]
  /\ got' = [got EXCEPT ![h] = @ + 1]
  /\ UNCHANGED <<pubVars, cancelled, regVars, coalVars, loopVars, statVars,
                 reading, offerVars>>

ConsumerStops(h) ==
  /\ reading[h]
  /\ done[h] \/ cancelled
  /\ reading' = [reading EXCEPT ![h] = FALSE]
  /\ UNCHANGED <<pubVars, cancelled, regVars, out, coalVars, loopVars,
                 statVars, last, got, offerVars>>

-----------------------------------------------------------------------------
PublishStep ==
  \/ \E h \in Handles : NextTarget(h)
  \/ Publish \/ PublishReturns \/ TargetServed
  \/ Skip \/ Deliver \/ TrySend \/ CountSent
  \/ DropNewest
  \/ BlockFull \/ BlockSend \/ BlockDone \/ BlockCancelled
  \/ OldestFull \/ Evict \/ CountEvicted \/ OldestRetry
  \/ Pend \/ Wake

LoopStep(h) ==
  \/ LoopWoken(h) \/ LoopEmpty(h) \/ LoopSend(h) \/ LoopCount(h) \/ LoopExit(h)
  \/ \E i \in Instruments : LoopTake(h, i)

Next ==
  \/ \E i \in Instruments : Assign(i)
  \/ PublishStep
  \/ PumpStops
  \/ Cancel
  \/ CloseBus
  \/ \E h \in Handles :
       \/ Subscribe(h) \/ CloseSub(h) \/ Shutdown(h)
       \/ LoopStep(h)
       \/ Consume(h) \/ ConsumerStops(h)

Spec == Init /\ [][Next]_vars

-----------------------------------------------------------------------------
(* Safety. *)

QueueOK ==
  /\ out \in [Handles -> Seq(Tick)]
  /\ \A h \in Handles : Len(out[h]) <= Capacity[h]

(* Types, and every queue within the capacity Subscribe gave it. *)
TypeOK ==
  /\ next \in [Instruments -> Nat]
  /\ pc \in PubStates
  /\ batch \in Seq(Tick)
  /\ rest \in SUBSET Handles
  /\ tgt \in Handles \cup {None}
  /\ todo \in Seq(Tick)
  /\ cancelled \in BOOLEAN
  /\ closed \in BOOLEAN
  /\ subs \in SUBSET Handles
  /\ made \in SUBSET Handles
  /\ closing \in SUBSET Handles
  /\ done \in [Handles -> BOOLEAN]
  /\ reclosed \in SUBSET Handles
  /\ QueueOK
  /\ pending \in [Handles -> [Instruments -> Nat]]
  /\ wake \in [Handles -> BOOLEAN]
  /\ loop \in [Handles -> LoopStates]
  /\ carry \in [Handles -> Seq(Tick)]
  /\ delivered \in [Handles -> Nat]
  /\ dropped \in [Handles -> Nat]
  /\ coalesced \in [Handles -> Nat]
  /\ reading \in [Handles -> BOOLEAN]
  /\ last \in [Handles -> [Instruments -> Nat]]
  /\ got \in [Handles -> Nat]
  /\ offered \in [Handles -> Nat]
  /\ newest \in [Handles -> [Instruments -> Nat]]

(* Ticks of one instrument appear in s in the order they were numbered. *)
Ordered(s) ==
  \A j, k \in DOMAIN s :
    j < k /\ s[j].inst = s[k].inst => s[j].seq < s[k].seq

(* Every tick of s is later than number f[i] of its instrument i. *)
After(s, f) == \A k \in DOMAIN s : f[s[k].inst] < s[k].seq

(* No tick of s is later than number f[i] of its instrument i. *)
UpTo(s, f) == \A k \in DOMAIN s : s[k].seq <= f[s[k].inst]

(* Tick t is later than every tick of its instrument in s. *)
Later(t, s) == \A k \in DOMAIN s : s[k].inst = t.inst => s[k].seq < t.seq

(* Per-instrument order (DESIGN.md 5.5) all along a subscription: what the *)
(* consumer has read comes before what is queued, that before the tick     *)
(* coalesceLoop carries, and that before the pending one, although two     *)
(* goroutines feed the line and a third empties it.                        *)
InOrder ==
  \A h \in Handles :
    /\ Ordered(out[h])
    /\ After(out[h], last[h])
    /\ After(carry[h], last[h])
    /\ \A k \in DOMAIN carry[h] : Later(carry[h][k], out[h])
    /\ \A i \in Instruments : pending[h][i] # 0 =>
         LET t == [inst |-> i, seq |-> pending[h][i]] IN
         last[h][i] < t.seq /\ Later(t, out[h]) /\ Later(t, carry[h])

(* The numbers of instrument i's ticks queued for h. *)
Window(h, i) ==
  {out[h][k].seq : k \in {j \in DOMAIN out[h] : out[h][j].inst = i}}

(* The publisher holds a tick that has reached h's policy and is in none   *)
(* of h's places yet.                                                      *)
InHand(h) ==
  tgt = h /\ pc \in {"send", "wait", "evict", "evicted", "recheck", "pend"}

(* TestCoalesce..., bus.go "the latest value always survives": under       *)
(* coalesce the newest tick of every instrument has been read, or is       *)
(* still on its way to the consumer, at every moment until shutdown.       *)
LatestSurvives ==
  \A h \in Handles : Policy[h] = "coalesce" /\ ~done[h] =>
    \A i \in Instruments :
      \/ newest[h][i] \in {0, last[h][i], pending[h][i]}
      \/ newest[h][i] \in Window(h, i)
      \/ carry[h] = <<[inst |-> i, seq |-> newest[h][i]]>>
      \/ InHand(h) /\ Head(todo).inst = i

(* Under drop_oldest a gap can only be in front of the queue: what is      *)
(* queued of an instrument is an unbroken run that ends with its newest    *)
(* tick, whatever the race between the publisher's eviction and the        *)
(* consumer's receive ("preserving the newest").                           *)
GapOnlyInFront ==
  \A h \in Handles : Policy[h] = "drop_oldest" /\ ~done[h] /\ ~InHand(h) =>
    \A i \in Instruments :
      Window(h, i) = (newest[h][i] + 1 - Cardinality(Window(h, i))) .. newest[h][i]

(* Under block nothing is lost until shutdown: queued ticks follow on the  *)
(* one read last, without a gap, up to the newest.                         *)
BlockIsLossless ==
  \A h \in Handles : Policy[h] = "block" /\ ~done[h] /\ ~InHand(h) /\ pc # "stopped" =>
    \A i \in Instruments :
      last[h][i] # 0 => Window(h, i) = (last[h][i] + 1) .. newest[h][i]

(* What the comments of bus.go promise of the policies that choose what to *)
(* lose, and of the one that must not.                                     *)
PolicyKept == LatestSurvives /\ GapOnlyInFront /\ BlockIsLossless

Sent(h) == delivered[h] + (IF (tgt = h /\ pc = "count") \/ loop[h] = "count" THEN 1 ELSE 0)
Lost(h) == dropped[h] + (IF tgt = h /\ pc = "evicted" THEN 1 ELSE 0)
Held(h) == Len(carry[h]) + Cardinality({i \in Instruments : pending[h][i] # 0})
             + (IF InHand(h) THEN 1 ELSE 0)

(* The Stats counters account for every tick: what left the publisher was  *)
(* read, is queued or was evicted and counted; what reached a live         *)
(* subscription was sent, refused and counted, superseded and counted, or  *)
(* is held.  No policy loses a tick that no counter shows.                 *)
NothingVanishes ==
  \A h \in Handles :
    /\ Sent(h) = got[h] + Len(out[h])
                   + (IF Policy[h] = "drop_oldest" THEN Lost(h) ELSE 0)
    /\ ~done[h] /\ pc # "stopped" =>
         offered[h] = Sent(h) + Held(h) + coalesced[h]
                       + (IF Policy[h] = "drop_newest" THEN dropped[h] ELSE 0)

(* No wake-up is lost between Pend, Wake and the loop's two critical       *)
(* sections: while a tick is pending, a wake-up is queued, or the loop is  *)
(* going to look again, or the publisher is about to queue one.            *)
NoLostWake ==
  \A h \in Handles : ~done[h] /\ (\E i \in Instruments : pending[h][i] # 0) =>
    \/ wake[h]
    \/ loop[h] \in {"drain", "send", "count"}
    \/ pc = "wake" /\ tgt = h

(* A subscription that is registered has not been shut down, and one that  *)
(* is not registered has been, or is being: nobody is left reading a queue *)
(* that Publish no longer serves and Done never announces, although Close  *)
(* removes by name and names are used again.  The assumption this rests on *)
(* is that nobody closes a handle a second time after its name has been    *)
(* subscribed again: Close then removes the newer subscription, silently.  *)
NoOrphan ==
  \A h \in made :
    /\ h \in subs => h \notin closing /\ ~done[h]
    /\ \/ h \in subs \/ h \in closing \/ done[h]
       \/ \E g \in reclosed : Name[g] = Name[h]

(* The in-process bus implements the feed its consumers rely on. *)
F == INSTANCE Feed WITH Subscribers <- Handles, published <- next,
                        seen <- last, reads <- got
ImplementsFeed == F!FeedSpec

-----------------------------------------------------------------------------
(* Liveness.  The publisher and the loops are goroutines the scheduler     *)
(* runs; Shutdown is the second half of a Close.  Nothing makes a consumer *)
(* read, a caller close, or an exchange send.                              *)
Fairness ==
  /\ WF_vars(PublishStep)
  /\ \A h \in Handles : WF_vars(LoopStep(h)) /\ WF_vars(Shutdown(h))

FairSpec == Spec /\ Fairness

(* "A slow subscriber cannot stall a fast one": the publisher gets past    *)
(* every subscription that does not block, though no consumer ever reads,  *)
(* and past a blocking one that is shut down or whose context is           *)
(* cancelled.                                                              *)
NeverStalled ==
  \A h \in Handles :
    (tgt = h /\ (Policy[h] # "block" \/ done[h] \/ cancelled)) ~> tgt # h

(* A coalesceLoop goroutine does not outlive its subscription. *)
LoopEnds == \A h \in Handles : done[h] ~> loop[h] = "off"

(* A consumer that keeps reading gets the newest tick of every instrument, *)
(* or a later one: no forgotten wake-up leaves it with a stale price.      *)
LatestArrives ==
  \A h \in {g \in Handles : Policy[g] = "coalesce"} :
    WF_vars(Consume(h)) =>
      \A i \in Instruments, n \in 1 .. MaxSeq :
        newest[h][i] = n ~> (last[h][i] >= n \/ done[h] \/ ~reading[h])

=============================================================================
