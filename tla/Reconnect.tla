----------------------------- MODULE Reconnect ------------------------------
(***************************************************************************)
(* The ingest goroutine: supervise.Run around binance.Venue.Stream, which  *)
(* dials, reads frames into the raw channel and starts one ping goroutine  *)
(* per connection, against a peer that may fall silent or hang up.         *)
(*                                                                         *)
(* Stream runs in the supervisor's goroutine, so one variable says where   *)
(* it is; the ping goroutines run beside it, and the one of an abandoned   *)
(* connection may still be there when the next is up.  Time is a clock the *)
(* back-off is measured with; the ping and read deadlines may pass at any  *)
(* moment.  The WebSocket library is external: a ping waits for a pong     *)
(* that only a concurrent read takes off the socket.                       *)
(***************************************************************************)
EXTENDS Integers, Sequences, FiniteSets, Functions, FiniteSetsExt

CONSTANTS
  Policies,   (* the supervise.Policy values that may be in force         *)
  RawCap,     (* capacity of the raw channel                              *)
  MaxDials,   (* bound: calls of Stream                                   *)
  MaxTime     (* bound: the clock                                         *)

ASSUME ReconnectAssumption ==
  /\ \A p \in Policies :
       /\ {p.InitialDelay, p.MaxDelay} \subseteq Nat \ {0}
       /\ {p.Jitter, p.ResetAfter, p.MaxAttempts} \subseteq Nat
       /\ p.InitialDelay <= p.MaxDelay
  /\ RawCap \in Nat \ {0} /\ MaxDials \in Nat \ {0} /\ MaxTime \in Nat

VARIABLES
  policy,     (* the policy of this run                                   *)
  pings,      (* pingInterval > 0                                         *)
  now,
  cancelled,  (* the run context is done                                  *)
  at,         (* where the ingest goroutine is                            *)
  attempt,    (* Run: attempt                                             *)
  started,    (* Run: started                                             *)
  wakeAt,     (* end of the back-off                                      *)
  err,        (* what Stream returned, while Run looks at it              *)
  raw,        (* frames in the raw channel                                *)
  socket,     (* socket[n]: the connection of the n-th call of Stream     *)
  pinger,     (* pinger[n]: its ping goroutine                            *)
  pingErr,    (* pingErr[n]: its channel                                  *)
  (* History. *)
  dials,      (* when each call of Stream began                           *)
  torn        (* connections a ping goroutine closed, until reported      *)

setup   == <<policy, pings>>
supVars == <<attempt, started, wakeAt, dials>>
pingVars == <<pinger, pingErr, torn>>
vars == <<setup, now, cancelled, at, supVars, err, raw, socket, pingVars>>

Calls == 1 .. MaxDials
conn == Len(dials)

Init ==
  /\ policy \in Policies /\ pings \in BOOLEAN
  /\ now = 0 /\ cancelled = FALSE
  /\ at = "dial" /\ attempt = 0 /\ started = 0 /\ wakeAt = 0 /\ dials = <<0>>
  /\ err = "none"
  /\ raw = 0
  /\ socket = [n \in Calls |-> "none"]
  /\ pinger = [n \in Calls |-> "off"]
  /\ pingErr = [n \in Calls |-> "empty"]
  /\ torn = {}

-----------------------------------------------------------------------------
(* Stream. *)

(* Mutant: cancel is not deferred. *)
StreamDoneLeaks(n) == cancelled

(* The context of the n-th Stream: its own deferred cancel, or ctx's. *)
StreamDone(n) == cancelled \/ n # conn \/ at \notin {"read", "send"}

(* Return with an error: cancel and CloseNow are deferred. *)
StreamReturns(e) ==
  /\ err' = e
  /\ at' = "judge"
  /\ socket' = [socket EXCEPT ![conn] = "closed"]
  /\ UNCHANGED <<setup, now, cancelled, supVars, raw, pingVars>>

(* streamURL or Dial fails. *)
DialFails == at = "dial" /\ StreamReturns("dial")

Dialed ==
  /\ at = "dial"
  /\ ~cancelled
  /\ at' = "read"
  /\ socket' = [socket EXCEPT ![conn] = "up"]
  /\ pinger' = [pinger EXCEPT ![conn] = "idle"]
  /\ UNCHANGED <<setup, now, cancelled, supVars, err, raw, pingErr, torn>>

ReadFrame ==
  /\ at = "read"
  /\ socket[conn] = "up"
  /\ at' = "send"
  /\ UNCHANGED <<setup, now, cancelled, supVars, err, raw, socket, pingVars>>

(* The ping's diagnosis, if there is one, is preferred to the read's. *)
ReadError ==
  IF pingErr[conn] = "nopong" THEN "nopong" ELSE IF cancelled THEN "canceled" ELSE "read"

(* read fails: cancelled, the connection is gone, the frame is not text,   *)
(* or no frame came within readTimeout.                                    *)
ReadFails ==
  /\ at = "read"
  /\ StreamReturns(ReadError)

SendRaw ==
  /\ at = "send"
  /\ raw < RawCap
  /\ raw' = raw + 1
  /\ at' = "read"
  /\ UNCHANGED <<setup, now, cancelled, supVars, err, socket, pingVars>>

SendCancelled ==
  /\ at = "send"
  /\ cancelled
  /\ StreamReturns("canceled")

(* The pump takes a frame. *)
PumpTakes ==
  /\ raw > 0
  /\ raw' = raw - 1
  /\ UNCHANGED <<setup, now, cancelled, at, supVars, err, socket, pingVars>>

(* The peer stops answering, or closes. *)
PeerFails ==
  /\ at \in {"read", "send"}
  /\ socket[conn] = "up"
  /\ \E s \in {"silent", "dropped"} : socket' = [socket EXCEPT ![conn] = s]
  /\ UNCHANGED <<setup, now, cancelled, at, supVars, err, raw, pingVars>>

-----------------------------------------------------------------------------
(* pingLoop, and the goroutine around it. *)

PingSent(n) ==
  /\ pings
  /\ pinger[n] = "idle"
  /\ pinger' = [pinger EXCEPT ![n] = "ping"]
  /\ UNCHANGED <<setup, now, cancelled, at, supVars, err, raw, socket, pingErr, torn>>

Pong(n) ==
  /\ pinger[n] = "ping"
  /\ socket[n] = "up" /\ n = conn /\ at = "read"
  /\ pinger' = [pinger EXCEPT ![n] = "idle"]
  /\ UNCHANGED <<setup, now, cancelled, at, supVars, err, raw, socket, pingErr, torn>>

(* Mutant: the connection is closed before the reason is given. *)
PingFailsCloseFirst(n) ==
  /\ pinger[n] = "ping"
  /\ ~StreamDone(n)
  /\ pinger' = [pinger EXCEPT ![n] = "told"]
  /\ torn' = torn \cup {n}
  /\ socket' = [socket EXCEPT ![n] = "closed"]
  /\ UNCHANGED <<setup, now, cancelled, at, supVars, err, raw, pingErr>>

(* No pong in time: the error is published ... *)
PingFails(n) ==
  /\ pinger[n] = "ping"
  /\ ~StreamDone(n)
  /\ pinger' = [pinger EXCEPT ![n] = "told"]
  /\ pingErr' = [pingErr EXCEPT ![n] = "nopong"]
  /\ UNCHANGED <<setup, now, cancelled, at, supVars, err, raw, socket, torn>>

(* ... before the connection is closed, which unblocks the read. *)
PingCloses(n) ==
  /\ pinger[n] = "told"
  /\ pinger' = [pinger EXCEPT ![n] = "off"]
  /\ torn' = IF socket[n] = "closed" THEN torn ELSE torn \cup {n}
  /\ socket' = [socket EXCEPT ![n] = "closed"]
  /\ UNCHANGED <<setup, now, cancelled, at, supVars, err, raw, pingErr>>

(* Stream's context is done: between pings, or while one waits. *)
PingerStops(n) ==
  /\ pinger[n] \in {"idle", "ping"}
  /\ StreamDone(n)
  /\ pinger' = [pinger EXCEPT ![n] = "off"]
  /\ pingErr' = [pingErr EXCEPT ![n] = "nil"]
  /\ UNCHANGED <<setup, now, cancelled, at, supVars, err, raw, socket, torn>>

-----------------------------------------------------------------------------
(* supervise.Run. *)

Capped(p, a) == Min({p.InitialDelay * 2^(a - 1), p.MaxDelay})

(* backoff: exponential, capped, then spread by Jitter tenths either way,  *)
(* and never under InitialDelay.                                           *)
backoff(p, a) ==
  LET d == Capped(p, a)
      spread == (d * p.Jitter) \div 10
  IN  {Max({x, p.InitialDelay}) : x \in (d - spread) .. (d + spread)}

(* Mutant: any run that got as far as a failure starts the back-off over. *)
FailuresReset(p) == 1

(* A run of ResetAfter or longer starts the back-off over. *)
Failures(p) == IF now - started >= p.ResetAfter THEN 1 ELSE attempt + 1

(* Mutant: a cancelled connection is taken for a cancelled run. *)
RunReturnsOnNoPong ==
  /\ at = "judge"
  /\ cancelled \/ err \in {"canceled", "nopong"}
  /\ at' = "over"
  /\ UNCHANGED <<setup, now, cancelled, supVars, err, raw, socket, pingVars>>

(* The run is over: ctx is done, or Stream says it was cancelled. *)
RunReturns ==
  /\ at = "judge"
  /\ cancelled \/ err = "canceled"
  /\ at' = "over"
  /\ UNCHANGED <<setup, now, cancelled, supVars, err, raw, socket, pingVars>>

RunGivesUp ==
  /\ at = "judge"
  /\ ~cancelled /\ err # "canceled"
  /\ policy.MaxAttempts > 0 /\ Failures(policy) >= policy.MaxAttempts
  /\ attempt' = Failures(policy)
  /\ at' = "over"
  /\ UNCHANGED <<setup, now, cancelled, started, wakeAt, dials, err, raw, socket, pingVars>>

RunBacksOff ==
  /\ at = "judge"
  /\ ~cancelled /\ err # "canceled"
  /\ ~(policy.MaxAttempts > 0 /\ Failures(policy) >= policy.MaxAttempts)
  /\ attempt' = Failures(policy)
  /\ \E d \in backoff(policy, Failures(policy)) : wakeAt' = now + d
  /\ at' = "sleep"
  /\ err' = "none"
  /\ torn' = {}
  /\ UNCHANGED <<setup, now, cancelled, started, dials, raw, socket, pinger, pingErr>>

(* time.After fires, and the next Stream begins. *)
RunWakes ==
  /\ at = "sleep"
  /\ Len(dials) < MaxDials
  /\ wakeAt <= MaxTime
  /\ at' = "dial"
  /\ now' = wakeAt
  /\ started' = wakeAt
  /\ dials' = Append(dials, wakeAt)
  /\ UNCHANGED <<setup, cancelled, attempt, wakeAt, err, raw, socket, pingVars>>

SleepCancelled ==
  /\ at = "sleep"
  /\ cancelled
  /\ at' = "over"
  /\ UNCHANGED <<setup, now, cancelled, supVars, err, raw, socket, pingVars>>

Cancel ==
  /\ ~cancelled
  /\ cancelled' = TRUE
  /\ UNCHANGED <<setup, now, at, supVars, err, raw, socket, pingVars>>

(* A dial or a read takes its time. *)
Tick ==
  /\ now < MaxTime
  /\ at \in {"dial", "read"}
  /\ now' = now + 1
  /\ UNCHANGED <<setup, cancelled, at, supVars, err, raw, socket, pingVars>>

-----------------------------------------------------------------------------
StreamStep == DialFails \/ Dialed \/ ReadFrame \/ ReadFails \/ SendRaw \/ SendCancelled
RunStep == RunReturns \/ RunGivesUp \/ RunBacksOff \/ RunWakes \/ SleepCancelled
PingStep(n) == PingSent(n) \/ Pong(n) \/ PingFails(n) \/ PingCloses(n) \/ PingerStops(n)

Next ==
  \/ StreamStep \/ RunStep
  \/ \E n \in Calls : PingStep(n)
  \/ PumpTakes \/ PeerFails \/ Cancel \/ Tick

(* The ping goroutines are scheduled; one whose context stays done is not  *)
(* always beaten by its own ticker.                                        *)
Fairness == \A n \in Calls : WF_vars(PingStep(n)) /\ WF_vars(PingerStops(n))

Spec == Init /\ [][Next]_vars
FairSpec == Spec /\ Fairness

-----------------------------------------------------------------------------
(* "Without backoff you hammer a recovering exchange and get rate-limited":*)
(* k retries take at least the sum of the k shortest delays of a growing   *)
(* back-off, or ResetAfter if a healthy connection was among them, however *)
(* short and healthy runs alternate.                                       *)
Quickest(k) == SumFunctionOnSet([a \in 1 .. k |-> Min(backoff(policy, a))], 1 .. k)
NoHammering ==
  \A j, k \in DOMAIN dials :
    j < k => dials[k] - dials[j] >= Min({Quickest(k - j), policy.ResetAfter})

(* "This is what makes the pipeline survive an exchange disconnect":       *)
(* ingest ends only with the run itself, or after MaxAttempts failures;    *)
(* no error of a connection is mistaken for a cancellation.                *)
IngestSurvives ==
  at = "over" /\ ~cancelled =>
    policy.MaxAttempts > 0 /\ Len(dials) >= policy.MaxAttempts

(* "Publish the diagnosis BEFORE tearing down the connection": when the    *)
(* ping goroutine has closed the connection under the read, the error that *)
(* Stream returns is the ping's.                                           *)
DiagnosisWins ==
  at = "judge" /\ conn \in torn => err # "read"

(* "Neither goroutine can outlive Stream": ping goroutines whose Stream    *)
(* has returned end, with pings and without, so that none piles up.        *)
Leftover == \E n \in Calls : pinger[n] # "off" /\ (n < conn \/ at = "over")
PingersEnd == Leftover ~> ~Leftover

=============================================================================
