------------------------------- MODULE Equity -------------------------------
(***************************************************************************)
(* Two traders on one Alpaca stock account: the automatic engine           *)
(* (internal/equitytrader) and the Telegram bot (internal/telegram), which *)
(* both place market orders through PlaceEquityOrder                       *)
(* (internal/broker/alpaca/equity.go) and know of each other only what the *)
(* account shows.  The bot's commands come from a Telegram server that     *)
(* keeps an update until a later getUpdates confirms it.                   *)
(*                                                                         *)
(* Alpaca and Telegram are external.  An accepted order is executed as a   *)
(* whole, or ends; the entry of a bracket order leaves an exit order       *)
(* behind.  A sell may not exceed what is held and not yet promised, but   *)
(* on an empty position it opens a short (bot.go, order).  A quantity is   *)
(* in shares.  Prices, wording, messages that ask for no order, and the    *)
(* strategy are left out: the engine may get any signal.                   *)
(***************************************************************************)
EXTENDS Integers, Sequences, FiniteSets, FiniteSetsExt, SequencesExt

CONSTANTS
  Symbols,
  EngineSize,  (* shares the engine buys                          *)
  Quantities,  (* shares a command may ask for                    *)
  OrderCap,    (* BotConfig.MaxOrderNotional, in shares           *)
  MaxStart,    (* bound: shares the account holds at first        *)
  MaxMsgs,     (* bound: messages sent to the bot                 *)
  MaxOrders,   (* bound: orders the account accepts               *)
  MaxRuns,     (* bound: times the process is started             *)
  None         (* nothing                                         *)

ASSUME EquityAssumption ==
  /\ EngineSize \in Nat \ {0} /\ Quantities \subseteq Nat \ {0} /\ OrderCap \in Nat
  /\ MaxStart \in Nat /\ MaxMsgs \in Nat /\ MaxOrders \in Nat /\ MaxRuns \in Nat /\ None \notin Nat

Traders == {"bot", "engine"}

VARIABLES
  inbox,     (* messages sent to the bot; an update's id is its place    *)
  confirmed, (* updates up to this one Telegram has forgotten            *)
  runs,      (* times the process has been started                       *)
  st,        (* st[a]: where trader a's goroutine is                     *)
  offset,    (* Bot.Run: offset                                          *)
  batch,     (* Bot.Run: ids of the updates still to be handled          *)
  cur,       (* id of the message being handled, or None                 *)
  held,      (* Engine.held                                              *)
  req,       (* req[a]: the order a is about to place, or None           *)
  polled,    (* polled[a]: number of the order awaitFill polls, or None  *)
  orders,    (* the account's orders                                     *)
  pos,       (* pos[s]: shares held, negative for a short                *)
  (* History. *)
  seen,      (* seen[a]: the position req[a] was decided on              *)
  raced,     (* raced[a]: symbols a sold on a position changed since     *)
  acted,     (* updates the bot has placed an order for, in this run     *)
  twice,     (* updates it has placed a second order for, in one run     *)
  done       (* messages handled to the end                              *)

netVars   == <<inbox, confirmed>>
botVars   == <<offset, batch, cur>>
acctVars  == <<orders, pos>>
deskVars  == <<req, polled, seen, raced>>
botHist   == <<acted, twice, done>>
vars == <<netVars, runs, st, botVars, held, deskVars, acctVars, botHist>>

Commands ==
  [kind : {"buy"}, sym : Symbols, qty : Quantities, bracket : BOOLEAN]
    \cup [kind : {"sell"}, sym : Symbols, qty : Quantities, bracket : {FALSE}]
    \cup [kind : {"close"}, sym : Symbols, qty : {0}, bracket : {FALSE}]

Idle == [bot |-> "poll", engine |-> "sync"]
Nobody(x) == [a \in Traders |-> x]

Init ==
  /\ inbox = << >> /\ confirmed = 0 /\ runs = 1
  /\ st = Idle
  /\ offset = 0 /\ batch = << >> /\ cur = None
  /\ held = {}
  /\ req = Nobody(None) /\ polled = Nobody(None) /\ seen = Nobody(0)
  /\ orders = << >> /\ pos \in [Symbols -> 0 .. MaxStart]
  /\ raced = Nobody({}) /\ acted = {} /\ twice = {} /\ done = {}

-----------------------------------------------------------------------------
(* The account. *)

(* The open sell orders of s, and the shares they have been promised. *)
Sells(s) == {k \in DOMAIN orders : orders[k].sym = s /\ orders[k].side = "sell"
                                     /\ orders[k].status = "open"}
Shares == [k \in DOMAIN orders |-> orders[k].qty]
Promised(s) == SumFunctionOnSet(Shares, Sells(s))

Accepts(r) ==
  /\ Len(orders) < MaxOrders
  /\ r.qty > 0
  /\ r.side = "sell" => \/ r.qty <= pos[r.sym] - Promised(r.sym)
                        \/ pos[r.sym] <= 0 /\ Promised(r.sym) = 0

NewOrder(r) ==
  [sym |-> r.sym, side |-> r.side, qty |-> r.qty, bracket |-> r.bracket, status |-> "open"]

(* Order k is executed; a bracket leaves its exit order behind. *)
Executed(k) ==
  /\ orders[k].status = "open"
  /\ LET o == orders[k]
         filled == [orders EXCEPT ![k].status = "filled"]
         exit == NewOrder([o EXCEPT !.side = "sell", !.bracket = FALSE])
     IN  /\ pos' = [pos EXCEPT ![o.sym] = IF o.side = "buy" THEN @ + o.qty ELSE @ - o.qty]
         /\ orders' = IF o.bracket THEN Append(filled, exit) ELSE filled
  /\ UNCHANGED <<netVars, runs, st, botVars, held, deskVars, botHist>>

(* Order k is rejected, canceled, or expires at the end of the day. *)
Ended(k) ==
  /\ orders[k].status = "open"
  /\ orders' = [orders EXCEPT ![k].status = "dead"]
  /\ UNCHANGED <<netVars, runs, st, botVars, held, deskVars, pos, botHist>>

-----------------------------------------------------------------------------
(* Telegram. *)

Sent(c) ==
  /\ Len(inbox) < MaxMsgs
  /\ inbox' = Append(inbox, c)
  /\ UNCHANGED <<confirmed, runs, st, botVars, held, deskVars, acctVars, botHist>>

(* Mutant: an update is confirmed when it is received. *)
GetUpdatesConfirms ==
  /\ st["bot"] = "poll"
  /\ confirmed' = Len(inbox)
  /\ batch' = [k \in 1 .. Len(inbox) - confirmed |-> confirmed + k]
  /\ st' = [st EXCEPT !["bot"] = "next"]
  /\ UNCHANGED <<inbox, runs, offset, cur, held, deskVars, acctVars, botHist>>

(* getUpdates: what is before the offset is forgotten, the rest returned. *)
GetUpdates ==
  /\ st["bot"] = "poll"
  /\ confirmed' = Max({confirmed, offset - 1})
  /\ batch' = [k \in 1 .. Len(inbox) - confirmed' |-> confirmed' + k]
  /\ st' = [st EXCEPT !["bot"] = "next"]
  /\ UNCHANGED <<inbox, runs, offset, cur, held, deskVars, acctVars, botHist>>

(* The call fails, having reached the server or not; the bot tries again. *)
GetUpdatesFails ==
  /\ st["bot"] = "poll"
  /\ confirmed' \in {confirmed, Max({confirmed, offset - 1})}
  /\ UNCHANGED <<inbox, runs, st, botVars, held, deskVars, acctVars, botHist>>

-----------------------------------------------------------------------------
(* The bot. *)

BatchDone ==
  /\ st["bot"] = "next"
  /\ batch = << >>
  /\ st' = [st EXCEPT !["bot"] = "poll"]
  /\ UNCHANGED <<netVars, runs, botVars, held, deskVars, acctVars, botHist>>

(* Mutant: the offset stays where it was. *)
TakeKeepsOffset ==
  /\ cur' = Head(batch)
  /\ batch' = Tail(batch)
  /\ UNCHANGED offset

(* The next update of the batch. *)
Take ==
  /\ cur' = Head(batch)
  /\ batch' = Tail(batch)
  /\ offset' = Head(batch) + 1

(* handle is through with update u, having replied or not. *)
Answer(u) ==
  /\ st' = [st EXCEPT !["bot"] = "next"]
  /\ cur' = None
  /\ done' = done \cup {u}

(* Mutant: a sell is not held against the position. *)
SellableUnchecked(c) == TRUE

(* close sells all that heldQty reports, order no more than that. *)
Sellable(c) == pos[c.sym] # 0 /\ (c.kind = "sell" => c.qty <= pos[c.sym])

Request(c) ==
  [sym |-> c.sym, side |-> IF c.kind = "buy" THEN "buy" ELSE "sell",
   qty |-> IF c.kind = "close" THEN pos[c.sym] ELSE c.qty, bracket |-> c.bracket]

(* A command that heldQty rules out, or that cannot be judged because the  *)
(* positions cannot be read.                                               *)
HandleNoOrder ==
  /\ st["bot"] = "next" /\ batch # << >>
  /\ LET u == Head(batch)
         c == inbox[u]
     IN  /\ c.kind # "buy"
         /\ st' = st /\ cur' = None /\ batch' = Tail(batch) /\ offset' = u + 1
         /\ done' = done \cup {u}
  /\ UNCHANGED <<netVars, runs, held, deskVars, acctVars, acted, twice>>

(* A command that may go on: a close at once, the others to their quote. *)
HandleOrder ==
  /\ st["bot"] = "next" /\ batch # << >>
  /\ LET c == inbox[Head(batch)] IN
       /\ c.kind \in {"sell", "close"} => Sellable(c)
       /\ Take
       /\ req' = [req EXCEPT !["bot"] = Request(c)]
       /\ seen' = [seen EXCEPT !["bot"] = pos[c.sym]]
       /\ st' = [st EXCEPT !["bot"] = IF c.kind = "close" THEN "place" ELSE "quote"]
  /\ UNCHANGED <<netVars, runs, held, polled, raced, acctVars, botHist>>

(* The quote is there and the order within the cap. *)
QuoteAllows ==
  /\ st["bot"] = "quote"
  /\ req["bot"].qty <= OrderCap
  /\ st' = [st EXCEPT !["bot"] = "place"]
  /\ UNCHANGED <<netVars, runs, botVars, held, deskVars, acctVars, botHist>>

(* No quote, a zero one, or an order above the cap. *)
QuoteRefuses ==
  /\ st["bot"] = "quote"
  /\ req' = [req EXCEPT !["bot"] = None]
  /\ seen' = [seen EXCEPT !["bot"] = 0]
  /\ Answer(cur)
  /\ UNCHANGED <<netVars, runs, offset, batch, held, polled, raced, acctVars, acted, twice>>

-----------------------------------------------------------------------------
(* The engine. *)

(* syncHeld: whatever is not zero counts as held; or the read fails. *)
SyncHeld ==
  /\ st["engine"] = "sync"
  /\ held' \in {{}, {s \in Symbols : pos[s] # 0}}
  /\ st' = [st EXCEPT !["engine"] = "idle"]
  /\ UNCHANGED <<netVars, runs, botVars, deskVars, acctVars, botHist>>

EngineOrders(r) ==
  /\ req' = [req EXCEPT !["engine"] = r]
  /\ seen' = [seen EXCEPT !["engine"] = pos[r.sym]]
  /\ st' = [st EXCEPT !["engine"] = "place"]
  /\ UNCHANGED <<netVars, runs, botVars, held, polled, raced, acctVars, botHist>>

buy(s) ==
  /\ st["engine"] = "idle"
  /\ s \notin held
  /\ EngineOrders([sym |-> s, side |-> "buy", qty |-> EngineSize, bracket |-> FALSE])

(* A sell is of all that Positions reports. *)
sell(s) ==
  /\ st["engine"] = "idle"
  /\ s \in held
  /\ pos[s] # 0
  /\ EngineOrders([sym |-> s, side |-> "sell", qty |-> pos[s], bracket |-> FALSE])

(* A position that is gone is forgotten. *)
sellNothing(s) ==
  /\ st["engine"] = "idle"
  /\ s \in held
  /\ pos[s] = 0
  /\ held' = held \ {s}
  /\ UNCHANGED <<netVars, runs, st, botVars, deskVars, acctVars, botHist>>

-----------------------------------------------------------------------------
(* PlaceEquityOrder, in either goroutine. *)

(* The trader goes on, with a fill of r or without one. *)
Resume(a, r, filled) ==
  IF a = "bot"
    THEN Answer(cur) /\ UNCHANGED held
    ELSE /\ st' = [st EXCEPT !["engine"] = "idle"]
         /\ held' = IF ~filled THEN held
                    ELSE IF r.side = "buy" THEN held \cup {r.sym} ELSE held \ {r.sym}
         /\ UNCHANGED <<cur, done>>

(* What the history keeps of an order the account takes from a. *)
Recorded(a) ==
  /\ raced' = [raced EXCEPT ![a] =
                IF req[a].side = "sell" /\ pos[req[a].sym] # seen[a]
                  THEN @ \cup {req[a].sym} ELSE @]
  /\ acted' = IF a = "bot" THEN acted \cup {cur} ELSE acted
  /\ twice' = IF a = "bot" /\ cur \in acted THEN twice \cup {cur} ELSE twice

Placed(a) ==
  /\ st[a] = "place"
  /\ Accepts(req[a])
  /\ orders' = Append(orders, NewOrder(req[a]))
  /\ polled' = [polled EXCEPT ![a] = Len(orders) + 1]
  /\ req' = [req EXCEPT ![a] = None]
  /\ seen' = [seen EXCEPT ![a] = 0]
  /\ st' = [st EXCEPT ![a] = "await"]
  /\ Recorded(a)
  /\ UNCHANGED <<netVars, runs, botVars, held, pos, done>>

(* PlaceOrder fails: refused, or accepted and the answer lost. *)
PlaceFails(a) ==
  /\ st[a] = "place"
  /\ \/ UNCHANGED <<orders, raced, acted, twice>>
     \/ Accepts(req[a]) /\ orders' = Append(orders, NewOrder(req[a])) /\ Recorded(a)
  /\ req' = [req EXCEPT ![a] = None]
  /\ seen' = [seen EXCEPT ![a] = 0]
  /\ Resume(a, req[a], FALSE)
  /\ UNCHANGED <<netVars, runs, offset, batch, polled, pos>>

(* awaitFill sees the order executed. *)
Filled(a) ==
  /\ st[a] = "await"
  /\ orders[polled[a]].status = "filled"
  /\ Resume(a, orders[polled[a]], TRUE)
  /\ polled' = [polled EXCEPT ![a] = None]
  /\ UNCHANGED <<netVars, runs, offset, batch, req, seen, raced, acctVars, acted, twice>>

(* Mutant: awaitFill has no deadline of its own. *)
NotFilledPatient(a) ==
  /\ st[a] = "await"
  /\ orders[polled[a]].status = "dead"
  /\ Resume(a, orders[polled[a]], FALSE)
  /\ polled' = [polled EXCEPT ![a] = None]
  /\ UNCHANGED <<netVars, runs, offset, batch, req, seen, raced, acctVars, acted, twice>>

(* It ended, a poll failed, or the 30 seconds are over: outside market     *)
(* hours the order is still open then.                                     *)
NotFilled(a) ==
  /\ st[a] = "await"
  /\ Resume(a, orders[polled[a]], FALSE)
  /\ polled' = [polled EXCEPT ![a] = None]
  /\ UNCHANGED <<netVars, runs, offset, batch, req, seen, raced, acctVars, acted, twice>>

-----------------------------------------------------------------------------
(* The process dies and is started again, with offset 0. *)
Restart ==
  /\ runs < MaxRuns
  /\ runs' = runs + 1
  /\ st' = Idle
  /\ offset' = 0 /\ batch' = << >> /\ cur' = None
  /\ held' = {}
  /\ req' = Nobody(None) /\ polled' = Nobody(None) /\ seen' = Nobody(0)
  /\ acted' = {}
  /\ UNCHANGED <<netVars, acctVars, raced, twice, done>>

BotStep ==
  \/ GetUpdates \/ BatchDone \/ HandleNoOrder \/ HandleOrder
  \/ QuoteAllows \/ QuoteRefuses
  \/ Placed("bot") \/ PlaceFails("bot") \/ Filled("bot") \/ NotFilled("bot")

EngineStep ==
  \/ SyncHeld
  \/ \E s \in Symbols : buy(s) \/ sell(s) \/ sellNothing(s)
  \/ Placed("engine") \/ PlaceFails("engine") \/ Filled("engine") \/ NotFilled("engine")

Next ==
  \/ BotStep \/ GetUpdatesFails \/ EngineStep
  \/ \E c \in Commands : Sent(c)
  \/ \E k \in DOMAIN orders : Executed(k) \/ Ended(k)
  \/ Restart

(* The bot's goroutine is scheduled and Telegram answers some of its calls; *)
(* the poll window of an order is finite.                                   *)
Fairness == WF_vars(BotStep)

Spec == Init /\ [][Next]_vars
FairSpec == Spec /\ Fairness

-----------------------------------------------------------------------------
(* A sell decided on the position the account still has when the order     *)
(* arrives never opens a short ("a sell only ever closes or trims a        *)
(* position this bot can see"), in either trader, with open, lost and      *)
(* bracket orders about: a short takes a position that changed in between. *)
ShortOnlyByRace == \A s \in Symbols : pos[s] < 0 => \E a \in Traders : s \in raced[a]

(* Telegram forgets a command only after the bot has handled it to the     *)
(* end: whatever call of getUpdates fails and whenever the process dies,   *)
(* a command that was not handled is delivered again.                      *)
NothingSkipped == 1 .. confirmed \subseteq done

(* A command is not executed twice by one process, although updates are    *)
(* fetched in batches and the call that would confirm them may fail.       *)
OnceARun == twice = {}

(* Every command is answered, though its order may stay open for good and  *)
(* the engine trades beside it.                                            *)
Unanswered == 1 .. Len(inbox) \ done # {}
CommandsAnswered == Unanswered ~> ~Unanswered
=============================================================================
