------------------------------- MODULE Fanout -------------------------------
(***************************************************************************)
(* The WebSocket server (internal/api/wsapi): Run takes ticks off its own  *)
(* coalescing subscription and broadcasts each to the queues of the        *)
(* clients; every client has a handler goroutine that writes and pings,    *)
(* and a reader goroutine that notices the end of the connection.          *)
(*                                                                         *)
(* The subscription is what Feed promises, which the bus implements; the   *)
(* socket and its peer are external.  A frame is written when the kernel   *)
(* has taken it, whatever the peer does, so a write may succeed or fail at *)
(* any time; only a peer that reads answers a ping.                        *)
(*                                                                         *)
(* Left out: the connected counter, which only /metrics reads, and         *)
(* encoding, which cannot fail on these fields.  net/http cancels no       *)
(* request context of a connection it has handed over.                     *)
(***************************************************************************)
EXTENDS Naturals, Sequences, FiniteSets

CONSTANTS
  Conns,        (* client objects Handler may create                       *)
  Instruments,
  Filter,       (* Filter[c]: what parseFilter made of ?instruments, {}    *)
                (* for everything                                          *)
  ClientQueue,  (* clientQueue                                             *)
  MaxSeq,       (* bound: ticks per instrument                             *)
  None          (* no client                                               *)

ASSUME FanoutAssumption ==
  /\ DOMAIN Filter = Conns
  /\ ClientQueue \in Nat \ {0}
  /\ MaxSeq \in Nat
  /\ None \notin Conns

VARIABLES
  published, seen, reads,  (* the feed Run subscribes to                   *)
  running,  (* Run is in its loop                                          *)
  tick,     (* the tick being broadcast, at first none                     *)
  targets,  (* clients of the broadcast's snapshot not yet served          *)
  cur,      (* the client whose queue was found full, or None              *)
  evicted,  (* broadcast has made room in it                               *)
  clients,  (* Server.clients                                              *)
  life,     (* life[c]: where the handler goroutine is                     *)
  reader,   (* reader[c]: the reader goroutine is waiting for a frame      *)
  out,      (* out[c]: the channel client.out                              *)
  hand,     (* hand[c]: the tick serve took out last                       *)
  ended,    (* ended[c]: the context of serve is done                      *)
  done,     (* done[c]: the channel client.done is closed                  *)
  kicked,   (* Server.kicked                                               *)
  peer,     (* peer[c]: the other end of the socket                        *)
  (* History. *)
  offers,   (* offers[c]: the ticks broadcast has had for c                *)
  got,      (* got[c][i]: number of the last tick of i written to c        *)
  wrote     (* wrote[c]: how many ticks have been written to c             *)

feedVars == <<published, seen, reads>>
runVars  == <<feedVars, running, tick, targets, cur, evicted, kicked, offers>>
connVars == <<clients, life, reader, ended, hand, got, wrote, peer>>
vars == <<runVars, connVars, out, done>>

Sub == "websocket-fanout"
In  == INSTANCE Feed WITH Subscribers <- {Sub}

Init ==
  /\ In!FeedInit
  /\ running = TRUE
  /\ tick = << >>
  /\ targets = {}
  /\ cur = None
  /\ evicted = FALSE
  /\ clients = {}
  /\ life = [c \in Conns |-> "none"]
  /\ reader = [c \in Conns |-> FALSE]
  /\ out = [c \in Conns |-> << >>]
  /\ hand = [c \in Conns |-> << >>]
  /\ ended = [c \in Conns |-> FALSE]
  /\ done = [c \in Conns |-> FALSE]
  /\ kicked = 0
  /\ peer = [c \in Conns |-> "open"]
  /\ offers = [c \in Conns |-> << >>]
  /\ got = [c \in Conns |-> [i \in Instruments |-> 0]]
  /\ wrote = [c \in Conns |-> 0]

-----------------------------------------------------------------------------
(* Run and broadcast. *)

(* The pipeline numbers a tick of i. *)
Assign(i) ==
  /\ published[i] < MaxSeq
  /\ In!FeedAssign(i)
  /\ UNCHANGED <<running, tick, targets, cur, evicted, kicked, offers, connVars, out, done>>

Wants(c, i) == Filter[c] = {} \/ i \in Filter[c]

Idle == targets = {} /\ cur = None

(* Run receives a tick of i; broadcast takes its snapshot of the clients   *)
(* under the lock.  The filter of a client never changes.                  *)
Receive(i) ==
  /\ running
  /\ Idle
  /\ In!FeedRead(Sub, i)
  /\ tick' = <<[inst |-> i, seq |-> seen'[Sub][i]]>>
  /\ targets' = {c \in clients : Wants(c, i)}
  /\ UNCHANGED <<running, cur, evicted, kicked, offers, connVars, out, done>>

(* Run: ctx or the subscription is done. *)
Stop ==
  /\ running
  /\ Idle
  /\ running' = FALSE
  /\ UNCHANGED <<feedVars, tick, targets, cur, evicted, kicked, offers, connVars, out, done>>

Full(c) == Len(out[c]) >= ClientQueue

Push(c) == out' = [out EXCEPT ![c] = Append(@, tick[1])]

(* It is c's turn; the snapshot comes from a map, so its order is any. *)
Turn(c) ==
  /\ cur = None
  /\ c \in targets
  /\ targets' = targets \ {c}
  /\ offers' = [offers EXCEPT ![c] = Append(@, tick[1])]
  /\ UNCHANGED <<feedVars, running, tick, evicted, kicked, connVars, done>>

TrySend(c) == ~Full(c) /\ Turn(c) /\ Push(c) /\ UNCHANGED cur

(* Mutant: broadcast waits for room. *)
FindFullWaits(c) == Full(c) /\ cur = None /\ c \in targets /\ UNCHANGED vars

(* Mutant: the new tick is dropped, not the oldest. *)
FindFullDrops(c) == Full(c) /\ Turn(c) /\ UNCHANGED <<cur, out>>

FindFull(c) == Full(c) /\ Turn(c) /\ cur' = c /\ UNCHANGED out

(* Mutant: nothing is evicted. *)
EvictNothing ==
  /\ cur # None
  /\ ~evicted
  /\ evicted' = TRUE
  /\ UNCHANGED <<feedVars, running, tick, targets, cur, kicked, offers, connVars, out, done>>

(* The oldest queued tick is taken out, unless serve has emptied the queue *)
(* meanwhile.                                                              *)
Evict ==
  /\ cur # None
  /\ ~evicted
  /\ evicted' = TRUE
  /\ out' = [out EXCEPT ![cur] = IF @ = << >> THEN @ ELSE Tail(@)]
  /\ UNCHANGED <<feedVars, running, tick, targets, cur, kicked, offers, connVars, done>>

(* The second attempt; the client is kicked if there is still no room.     *)
Retry ==
  /\ cur # None
  /\ evicted
  /\ IF Full(cur)
       THEN kicked' = kicked + 1 /\ done' = [done EXCEPT ![cur] = TRUE] /\ UNCHANGED out
       ELSE Push(cur) /\ UNCHANGED <<kicked, done>>
  /\ cur' = None
  /\ evicted' = FALSE
  /\ UNCHANGED <<feedVars, running, tick, targets, offers, connVars>>

Broadcast == Evict \/ Retry \/ \E c \in Conns : TrySend(c) \/ FindFull(c)

-----------------------------------------------------------------------------
(* Handler, serve and its reader goroutine. *)

(* Handler: the connection is accepted, the client added under the lock,   *)
(* and its reader started.                                                 *)
Join(c) ==
  /\ life[c] = "none"
  /\ clients' = clients \cup {c}
  /\ life' = [life EXCEPT ![c] = "select"]
  /\ reader' = [reader EXCEPT ![c] = TRUE]
  /\ UNCHANGED <<runVars, out, hand, ended, done, peer, got, wrote>>

(* The handler goes on, and nothing else happens. *)
Goes(c, from, to) ==
  /\ life[c] = from
  /\ life' = [life EXCEPT ![c] = to]
  /\ UNCHANGED <<runVars, out, hand, clients, reader, ended, done, peer, got, wrote>>

(* serve: the context or the done channel wins the select. *)
Leave(c) == (ended[c] \/ done[c]) /\ Goes(c, "select", "leaving")

(* serve: a tick. *)
Take(c) ==
  /\ life[c] = "select"
  /\ out[c] # << >>
  /\ hand' = [hand EXCEPT ![c] = <<Head(out[c])>>]
  /\ out' = [out EXCEPT ![c] = Tail(@)]
  /\ life' = [life EXCEPT ![c] = "write"]
  /\ UNCHANGED <<runVars, clients, reader, ended, done, peer, got, wrote>>

WriteSucceeds(c) ==
  /\ life[c] = "write"
  /\ life' = [life EXCEPT ![c] = "select"]
  /\ got' = [got EXCEPT ![c][hand[c][1].inst] = hand[c][1].seq]
  /\ wrote' = [wrote EXCEPT ![c] = @ + 1]
  /\ UNCHANGED <<runVars, clients, reader, out, hand, ended, done, peer>>

(* Mutant: a tick whose write has failed is queued again. *)
WriteFailsRequeues(c) ==
  /\ life[c] = "write"
  /\ out' = [out EXCEPT ![c] = Append(@, hand[c][1])]
  /\ life' = [life EXCEPT ![c] = "select"]
  /\ UNCHANGED <<runVars, clients, reader, hand, ended, done, peer, got, wrote>>

(* Write returns an error: the deadline, the context or the connection. *)
WriteFails(c) == Goes(c, "write", "leaving")

(* serve: the ping timer.  The pong comes in through the reader. *)
Ping(c) == Goes(c, "select", "ping")
Pong(c) == peer[c] = "open" /\ reader[c] /\ Goes(c, "ping", "select")
PingFails(c) == Goes(c, "ping", "leaving")

(* Mutant: the handler returns without removing the client. *)
RemoveForgets(c) ==
  /\ life[c] = "leaving"
  /\ ended' = [ended EXCEPT ![c] = TRUE]
  /\ done' = [done EXCEPT ![c] = TRUE]
  /\ life' = [life EXCEPT ![c] = "gone"]
  /\ UNCHANGED <<runVars, clients, reader, out, hand, peer, got, wrote>>

(* The deferred calls: cancel, remove, CloseNow. *)
Remove(c) ==
  /\ life[c] = "leaving"
  /\ ended' = [ended EXCEPT ![c] = TRUE]
  /\ clients' = clients \ {c}
  /\ done' = [done EXCEPT ![c] = TRUE]
  /\ life' = [life EXCEPT ![c] = "gone"]
  /\ UNCHANGED <<runVars, reader, out, hand, peer, got, wrote>>

Serve(c) ==
  \/ Leave(c) \/ Take(c) \/ WriteSucceeds(c) \/ WriteFails(c)
  \/ Ping(c) \/ Pong(c) \/ PingFails(c) \/ Remove(c)

(* The reader's Read fails, because the peer has hung up or its context is *)
(* done, and it cancels the context.  Frames it does read change nothing.  *)
ReaderEnds(c) ==
  /\ reader[c]
  /\ peer[c] = "left" \/ ended[c]
  /\ reader' = [reader EXCEPT ![c] = FALSE]
  /\ ended' = [ended EXCEPT ![c] = TRUE]
  /\ UNCHANGED <<runVars, clients, life, out, hand, done, peer, got, wrote>>

(* The peer stops reading, or vanishes without a word; it may come back;   *)
(* or it hangs up.                                                         *)
PeerMoves(c, to) ==
  /\ life[c] \notin {"none", "gone"}
  /\ peer[c] \notin {"left", to}
  /\ peer' = [peer EXCEPT ![c] = to]
  /\ UNCHANGED <<runVars, clients, life, reader, ended, out, hand, done, got, wrote>>

Next ==
  \/ \E i \in Instruments : Assign(i) \/ Receive(i)
  \/ Stop
  \/ Broadcast
  \/ \E c \in Conns : Join(c) \/ Serve(c) \/ ReaderEnds(c)
  \/ \E c \in Conns, to \in {"open", "silent", "left"} : PeerMoves(c, to)

Spec == Init /\ [][Next]_vars

-----------------------------------------------------------------------------
(* What the bus promises its subscribers the server promises each client:  *)
(* a connection is itself a feed.  Its ticks of an instrument come in      *)
(* order, none twice and none invented, through two queues, evictions that *)
(* race with writes, and a snapshot that outlives the client.              *)
Out == INSTANCE Feed WITH Subscribers <- Conns, seen <- got, reads <- wrote
ClientsAreFed == Out!FeedSpec

(* s is the end of t. *)
EndOf(s, t) == Len(s) <= Len(t) /\ s = SubSeq(t, Len(t) + 1 - Len(s), Len(t))

(* "A live price feed wants the newest tick": what waits for a client is   *)
(* the unbroken end of what there was for it; once broadcast is past it,   *)
(* up to the newest tick, which has been taken out only to be written.     *)
NewestWaits ==
  \A c \in Conns :
    LET n == Len(offers[c]) IN
    IF cur = c THEN EndOf(out[c], SubSeq(offers[c], 1, n - 1))
    ELSE /\ EndOf(out[c], offers[c])
         /\ n > 0 /\ out[c] = << >> => hand[c] = <<offers[c][n]>>

(* Dropping the oldest is enough.  Only broadcast fills a queue, so there  *)
(* is always room after an eviction: no client is kicked for being slow,   *)
(* and a handler is told to leave by nobody but its own reader.            *)
NobodyKicked ==
  /\ kicked = 0
  /\ \A c \in Conns : done[c] => life[c] = "gone"

-----------------------------------------------------------------------------
(* Liveness.  Run and the goroutines of a connection are scheduled; the    *)
(* write deadline ends a write and a ping, and the ping timer fires.       *)
(* Nothing is assumed of the peer or the pipeline.                         *)
Fairness ==
  /\ WF_vars(Broadcast)
  /\ \A c \in Conns : WF_vars(Serve(c)) /\ WF_vars(ReaderEnds(c))

FairSpec == Spec /\ Fairness

(* "The websocket fan-out can never apply backpressure": every broadcast   *)
(* ends, though no client reads.                                           *)
BroadcastReturns == ~Idle ~> Idle

(* A client that hangs up, or falls silent and stays so, is forgotten: its *)
(* queue is no longer served and both its goroutines have ended.           *)
GoneIsForgotten ==
  \A c \in Conns :
    (life[c] # "none" /\ peer[c] # "open")
      ~> (c \notin clients /\ life[c] = "gone" /\ ~reader[c]) \/ peer[c] = "open"
=============================================================================
