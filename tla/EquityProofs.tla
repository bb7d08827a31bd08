---------------------------- MODULE EquityProofs ----------------------------
(***************************************************************************)
(* Theorems about Equity, for any symbols, sizes, caps and positions to    *)
(* start with, and any number of messages, orders and restarts.            *)
(***************************************************************************)
EXTENDS Equity, Lemmas, TLAPS

Busy == {"quote", "place", "await"}
States == {"poll", "next", "sync", "idle"} \cup Busy
Sides == {"buy", "sell"}
Order == [sym : Symbols, side : Sides, qty : Nat \ {0}, bracket : BOOLEAN,
          status : {"open", "filled", "dead"}]
Req == [sym : Symbols, side : Sides, qty : Int, bracket : BOOLEAN]

(* The last update the bot has taken or Telegram forgotten. *)
Upto == IF offset - 1 > confirmed THEN offset - 1 ELSE confirmed

BotTypes ==
  /\ inbox \in Seq(Commands)
  /\ confirmed \in Nat
  /\ offset \in Nat
  /\ st \in [Traders -> States]
  /\ st["bot"] \notin {"sync", "idle"}
  /\ batch \in Seq(Nat)

(* The inductive invariant of the bot: the batch is what follows Upto,     *)
(* everything up to there is done but the update being handled, and that   *)
(* one has no order yet until it is placed.                                *)
BotInv ==
  /\ BotTypes
  /\ \A k \in 1 .. Len(batch) : batch[k] = Upto + k
  /\ Upto + Len(batch) <= Len(inbox)
  /\ st["bot"] = "poll" => batch = << >>
  /\ st["bot"] \notin Busy => 1 .. Upto \subseteq done
  /\ st["bot"] \in Busy => /\ cur = offset - 1 /\ cur > confirmed
                          /\ 1 .. (cur - 1) \subseteq done
  /\ acted \subseteq 1 .. Upto
  /\ st["bot"] \in {"quote", "place"} => cur \notin acted
  /\ twice = {}

Wants(a) == IF a = "bot" THEN {"quote", "place"} ELSE {"place"}

(* Types of what the traders and the account have, and a sell is of no     *)
(* more than was seen.                                                     *)
DeskInv ==
  /\ orders \in Seq(Order)
  /\ \A k \in 1 .. Len(orders) : orders[k].bracket => orders[k].side = "buy"
  /\ pos \in [Symbols -> Int]
  /\ raced \in [Traders -> SUBSET Symbols]
  /\ DOMAIN req = Traders /\ DOMAIN seen = Traders
  /\ \A a \in Traders : st[a] \in Wants(a) =>
       /\ req[a] \in Req /\ seen[a] \in Int
       /\ req[a].bracket => req[a].side = "buy"
       /\ req[a].side = "sell" => req[a].qty <= seen[a]

(* What open sell orders were promised is there, unless a trader raced.    *)
Covered == \A s \in Symbols : (\A a \in Traders : s \notin raced[a]) => Promised(s) <= pos[s]

-----------------------------------------------------------------------------
(* The bot. *)

LEMMA MaxOfTwo ==
  ASSUME NEW x \in Int, NEW y \in Int
  PROVE  Max({x, y}) = IF y > x THEN y ELSE x
<1> DEFINE m == IF y > x THEN y ELSE x
<1>1. m \in {x, y} /\ \A z \in {x, y} : m >= z
  OBVIOUS
<1>2. ASSUME NEW n \in {x, y}, \A z \in {x, y} : n >= z PROVE n = m
  BY <1>2
<1>3. Max({x, y}) \in {x, y} /\ \A z \in {x, y} : Max({x, y}) >= z
  BY <1>1 DEF Max
<1>4. QED
  BY <1>2, <1>3

(* What the bot's invariant needs to know of a step that is not the bot's. *)
LEMMA BotKept ==
  ASSUME BotInv, UNCHANGED <<inbox, confirmed, offset, batch, cur, acted, twice, done>>,
         st' \in [Traders -> States], st'["bot"] = st["bot"]
  PROVE  BotInv'
  BY DEF BotInv, BotTypes, Upto

(* The bot goes from one state to another and nothing else changes for it. *)
LEMMA StNext ==
  ASSUME BotTypes, NEW a \in Traders, NEW x \in States, st' = [st EXCEPT ![a] = x]
  PROVE  /\ st' \in [Traders -> States] /\ st'[a] = x
         /\ \A b \in Traders : b # a => st'[b] = st[b]
  BY DEF BotTypes

LEMMA BotInit == Init => BotInv
<1> SUFFICES ASSUME Init PROVE BotInv
  OBVIOUS
<1>1. BotTypes
  <2>1. st = [bot |-> "poll", engine |-> "sync"]
    BY DEF Init, Idle
  <2>2. st \in [Traders -> States] /\ st["bot"] = "poll"
    BY <2>1 DEF Traders, States
  <2>3. QED
    BY <2>2 DEF Init, BotTypes
<1>2. st["bot"] = "poll"
  BY DEF Init, Idle
<1>3. QED
  BY <1>1, <1>2 DEF Init, BotInv, Upto, Busy

(* The update being handled is done. *)
LEMMA AnswerStep ==
  ASSUME BotInv, st["bot"] \in Busy, Answer(cur),
         UNCHANGED <<inbox, confirmed, offset, batch>>,
         acted' \subseteq 1 .. Upto, twice' = {}
  PROVE  BotInv'
<1>1. /\ st' = [st EXCEPT !["bot"] = "next"] /\ done' = done \cup {cur}
      /\ "bot" \in Traders /\ "next" \in States
  BY DEF Answer, Traders, States
<1>2. st' \in [Traders -> States] /\ st'["bot"] = "next"
  BY <1>1, StNext DEF BotInv
<1>3. /\ offset \in Nat /\ confirmed \in Nat /\ cur = offset - 1 /\ cur > confirmed
      /\ Upto = cur /\ Upto' = Upto /\ 1 .. (cur - 1) \subseteq done
  BY DEF BotInv, BotTypes, Upto
<1>4. 1 .. Upto \subseteq done'
  BY <1>1, <1>3
<1>5. BotTypes'
  BY <1>2 DEF BotInv, BotTypes
<1>6. QED
  BY <1>2, <1>3, <1>4, <1>5 DEF BotInv, Busy

(* Telegram forgets what is before the offset. *)
LEMMA ConfirmStep ==
  ASSUME BotInv, st["bot"] = "poll", confirmed' = Max({confirmed, offset - 1}), offset' = offset
  PROVE  confirmed' = Upto /\ Upto' = Upto /\ Upto \in Nat
<1>1. offset - 1 \in Int /\ confirmed \in Nat /\ offset \in Nat
  BY DEF BotInv, BotTypes
<1>2. confirmed' = Upto
  BY <1>1, MaxOfTwo DEF Upto
<1>3. QED
  BY <1>1, <1>2 DEF Upto

LEMMA GetUpdatesStep == ASSUME BotInv, GetUpdates PROVE BotInv'
<1>1. /\ st["bot"] = "poll" /\ confirmed' = Max({confirmed, offset - 1}) /\ offset' = offset
      /\ st' = [st EXCEPT !["bot"] = "next"] /\ UNCHANGED <<inbox, done, acted, twice>>
      /\ "bot" \in Traders /\ "next" \in States
  BY DEF GetUpdates, Traders, States, botHist
<1>2. confirmed' = Upto /\ Upto' = Upto /\ Upto \in Nat
  BY <1>1, ConfirmStep
<1>3. st' \in [Traders -> States] /\ st'["bot"] = "next"
  BY <1>1, StNext DEF BotInv
<1>4. batch' = [k \in 1 .. (Len(inbox) - Upto) |-> Upto + k]
  BY <1>2 DEF GetUpdates
<1>5. Len(inbox) - Upto \in Nat /\ Len(batch) \in Nat
  <2>1. Len(inbox) \in Nat /\ Len(batch) \in Nat /\ Upto + Len(batch) <= Len(inbox)
    BY DEF BotInv, BotTypes
  <2>2. QED
    BY <1>2, <2>1
<1>6. /\ batch' \in Seq(Nat) /\ Len(batch') = Len(inbox) - Upto
      /\ \A k \in 1 .. Len(batch') : batch'[k] = Upto + k
  <2>1. \A k \in 1 .. (Len(inbox) - Upto) : Upto + k \in Nat
    BY <1>2
  <2>2. QED
    BY <1>4, <1>5, <2>1
<1>7. 1 .. Upto \subseteq done
  BY <1>1 DEF BotInv, Busy
<1>8. BotTypes'
  BY <1>1, <1>2, <1>3, <1>6 DEF BotInv, BotTypes
<1>9. Upto' + Len(batch') <= Len(inbox')
  BY <1>1, <1>2, <1>5, <1>6 DEF BotInv, BotTypes
<1>10. QED
  BY <1>1, <1>2, <1>3, <1>6, <1>7, <1>8, <1>9 DEF BotInv, Busy

(* An update is taken off the batch. *)
LEMMA TakeStep ==
  ASSUME BotInv, batch # << >>, offset' = Head(batch) + 1, batch' = Tail(batch),
         UNCHANGED <<inbox, confirmed>>
  PROVE  /\ Head(batch) = Upto + 1 /\ Upto \in Nat /\ Upto' = Upto + 1
         /\ Upto + 1 \in 1 .. Len(inbox) /\ Upto >= confirmed /\ offset' = Upto + 2
         /\ batch' \in Seq(Nat) /\ Upto' + Len(batch') <= Len(inbox)
         /\ \A k \in 1 .. Len(batch') : batch'[k] = Upto' + k
<1>1. /\ batch \in Seq(Nat) /\ confirmed \in Nat /\ offset \in Nat /\ Len(inbox) \in Nat
      /\ Upto + Len(batch) <= Len(inbox) /\ \A k \in 1 .. Len(batch) : batch[k] = Upto + k
  BY DEF BotInv, BotTypes
<1>2. Upto \in Nat /\ Upto >= confirmed
  BY <1>1 DEF Upto
<1>3. /\ Tail(batch) \in Seq(Nat) /\ Head(batch) = batch[1] /\ Len(batch) \in Nat \ {0}
      /\ Len(Tail(batch)) = Len(batch) - 1
      /\ \A k \in 1 .. (Len(batch) - 1) : Tail(batch)[k] = batch[k + 1]
  BY <1>1, TailFacts
<1>4. Head(batch) = Upto + 1
  BY <1>1, <1>3
<1>5. Upto' = Upto + 1
  <2>1. offset' - 1 = Upto + 1 /\ offset' - 1 > confirmed
    BY <1>1, <1>2, <1>4
  <2>2. QED
    BY <2>1 DEF Upto
<1>6. \A k \in 1 .. (Len(batch) - 1) : Tail(batch)[k] = (Upto + 1) + k
  <2>1. TAKE k \in 1 .. (Len(batch) - 1)
  <2>2. k + 1 \in 1 .. Len(batch) /\ Upto + (k + 1) = (Upto + 1) + k
    BY <1>2, <1>3
  <2>3. QED
    BY <1>1, <1>3, <2>2
<1>7. QED
  BY <1>1, <1>2, <1>3, <1>4, <1>5, <1>6

LEMMA HandleNoOrderStep == ASSUME BotInv, HandleNoOrder PROVE BotInv'
<1> DEFINE u == Head(batch)
<1>1. /\ st["bot"] = "next" /\ batch # << >> /\ st' = st /\ offset' = u + 1
      /\ batch' = Tail(batch) /\ done' = done \cup {u}
      /\ UNCHANGED <<inbox, confirmed, acted, twice>>
  BY DEF HandleNoOrder, netVars
<1>2. /\ u = Upto + 1 /\ Upto \in Nat /\ Upto' = Upto + 1 /\ offset' = Upto + 2
      /\ batch' \in Seq(Nat) /\ Upto' + Len(batch') <= Len(inbox)
      /\ \A k \in 1 .. Len(batch') : batch'[k] = Upto' + k
  BY <1>1, TakeStep
<1>3. 1 .. Upto \subseteq done /\ acted \subseteq 1 .. Upto
  BY <1>1 DEF BotInv, Busy
<1>4. 1 .. Upto' \subseteq done' /\ acted' \subseteq 1 .. Upto'
  BY <1>1, <1>2, <1>3
<1>5. BotTypes'
  BY <1>1, <1>2 DEF BotInv, BotTypes
<1>6. QED
  BY <1>1, <1>2, <1>4, <1>5 DEF BotInv, Busy

LEMMA HandleOrderStep == ASSUME BotInv, HandleOrder PROVE BotInv'
<1> DEFINE u == Head(batch)
           x == IF inbox[u].kind = "close" THEN "place" ELSE "quote"
<1>1. /\ st["bot"] = "next" /\ batch # << >> /\ offset' = u + 1 /\ cur' = u
      /\ batch' = Tail(batch) /\ st' = [st EXCEPT !["bot"] = x]
      /\ UNCHANGED <<inbox, confirmed, acted, twice, done>>
  BY DEF HandleOrder, Take, netVars, botHist
<1>2. /\ u = Upto + 1 /\ Upto \in Nat /\ Upto' = Upto + 1 /\ offset' = Upto + 2
      /\ Upto >= confirmed
      /\ batch' \in Seq(Nat) /\ Upto' + Len(batch') <= Len(inbox)
      /\ \A k \in 1 .. Len(batch') : batch'[k] = Upto' + k
  BY <1>1, TakeStep
<1>3. /\ 1 .. Upto \subseteq done /\ acted \subseteq 1 .. Upto
      /\ confirmed \in Nat /\ twice = {}
  BY <1>1 DEF BotInv, BotTypes, Busy
<1>4. st' \in [Traders -> States] /\ st'["bot"] \in {"quote", "place"}
  <2>1. "bot" \in Traders /\ x \in States /\ x \in {"quote", "place"}
    BY DEF Traders, States, Busy
  <2>2. QED
    BY <1>1, <2>1, StNext DEF BotInv
<1> HIDE DEF x, u
<1>5. /\ cur' = offset' - 1 /\ cur' > confirmed /\ 1 .. (cur' - 1) \subseteq done
      /\ cur' \notin acted /\ acted \subseteq 1 .. Upto'
  BY <1>1, <1>2, <1>3
<1>6. BotTypes'
  BY <1>1, <1>2, <1>4 DEF BotInv, BotTypes
<1>7. QED
  BY <1>1, <1>2, <1>3, <1>4, <1>5, <1>6 DEF BotInv, Busy

(* An order of the bot is placed, perhaps without its notice. *)
LEMMA RecordedBot ==
  ASSUME BotInv, st["bot"] = "place", Recorded("bot")
  PROVE  acted' \subseteq 1 .. Upto /\ twice' = {}
<1>1. /\ cur = offset - 1 /\ cur > confirmed /\ cur \notin acted /\ twice = {}
      /\ acted \subseteq 1 .. Upto /\ offset \in Nat /\ confirmed \in Nat
  BY DEF BotInv, BotTypes, Busy
<1>2. Upto = cur /\ cur \in 1 .. Upto
  BY <1>1 DEF Upto
<1>3. QED
  BY <1>1, <1>2 DEF Recorded

LEMMA PlaceBotStep ==
  ASSUME BotInv, Placed("bot") \/ PlaceFails("bot") PROVE BotInv'
<1>1. CASE Placed("bot")
  <2>1. /\ st["bot"] = "place" /\ Recorded("bot") /\ st' = [st EXCEPT !["bot"] = "await"]
        /\ UNCHANGED <<inbox, confirmed, offset, batch, cur, done>>
        /\ "bot" \in Traders /\ "await" \in States
    BY <1>1 DEF Placed, netVars, botVars, Traders, States, Busy
  <2>2. st' \in [Traders -> States] /\ st'["bot"] = "await"
    BY <2>1, StNext DEF BotInv
  <2>3. acted' \subseteq 1 .. Upto /\ twice' = {}
    BY <2>1, RecordedBot
  <2>4. BotTypes' /\ Upto' = Upto
    BY <2>1, <2>2 DEF BotInv, BotTypes, Upto
  <2>5. QED
    BY <2>1, <2>2, <2>3, <2>4 DEF BotInv, Busy
<1>2. CASE PlaceFails("bot")
  <2>1. /\ st["bot"] = "place" /\ Answer(cur) /\ UNCHANGED <<inbox, confirmed, offset, batch>>
        /\ UNCHANGED <<acted, twice>> \/ Recorded("bot")
    BY <1>2 DEF PlaceFails, Resume, netVars
  <2>2. acted' \subseteq 1 .. Upto /\ twice' = {}
    BY <2>1, RecordedBot DEF BotInv
  <2>3. QED
    BY <2>1, <2>2, AnswerStep DEF Busy
<1>3. QED
  BY <1>1, <1>2

LEMMA ConfirmedDone == BotInv => NothingSkipped
<1> SUFFICES ASSUME BotInv PROVE 1 .. confirmed \subseteq done
  BY DEF NothingSkipped
<1>1. confirmed \in Nat /\ offset \in Nat
  BY DEF BotInv, BotTypes
<1>2. CASE st["bot"] \in Busy
  BY <1>1, <1>2 DEF BotInv
<1>3. CASE st["bot"] \notin Busy
  BY <1>1, <1>3 DEF BotInv, Upto
<1>4. QED
  BY <1>2, <1>3

LEMMA BotStepInv == ASSUME BotInv, [Next]_vars PROVE BotInv'
<1>1. CASE GetUpdatesFails
  <2>1. /\ st["bot"] = "poll" /\ UNCHANGED <<inbox, offset, batch, st, done, acted, twice, cur>>
        /\ confirmed' = confirmed \/ confirmed' = Max({confirmed, offset - 1})
    BY <1>1 DEF GetUpdatesFails, botVars, botHist
  <2>2. CASE confirmed' = confirmed
    BY <2>1, <2>2, BotKept DEF BotInv, BotTypes
  <2>3. CASE confirmed' = Max({confirmed, offset - 1})
    <3>1. confirmed' = Upto /\ Upto' = Upto /\ Upto \in Nat
      BY <2>1, <2>3, ConfirmStep
    <3>2. QED
      BY <2>1, <3>1 DEF BotInv, BotTypes, Busy
  <2>4. QED
    BY <2>1, <2>2, <2>3
<1>2. CASE BatchDone
  <2>1. /\ st["bot"] = "next" /\ batch = << >> /\ st' = [st EXCEPT !["bot"] = "poll"]
        /\ UNCHANGED <<inbox, confirmed, offset, batch, cur, acted, twice, done>>
        /\ "bot" \in Traders /\ "poll" \in States
    BY <1>2 DEF BatchDone, netVars, botVars, botHist, Traders, States
  <2>2. st' \in [Traders -> States] /\ st'["bot"] = "poll"
    BY <2>1, StNext DEF BotInv
  <2>3. BotTypes' /\ Upto' = Upto
    BY <2>1, <2>2 DEF BotInv, BotTypes, Upto
  <2>4. QED
    BY <2>1, <2>2, <2>3 DEF BotInv, Busy
<1>3. CASE QuoteAllows
  <2>1. /\ st["bot"] = "quote" /\ st' = [st EXCEPT !["bot"] = "place"]
        /\ UNCHANGED <<inbox, confirmed, offset, batch, cur, acted, twice, done>>
        /\ "bot" \in Traders /\ "place" \in States
    BY <1>3 DEF QuoteAllows, netVars, botVars, botHist, Traders, States, Busy
  <2>2. st' \in [Traders -> States] /\ st'["bot"] = "place"
    BY <2>1, StNext DEF BotInv
  <2>3. BotTypes' /\ Upto' = Upto
    BY <2>1, <2>2 DEF BotInv, BotTypes, Upto
  <2>4. QED
    BY <2>1, <2>2, <2>3 DEF BotInv, Busy
<1>4. CASE QuoteRefuses
  BY <1>4, AnswerStep DEF QuoteRefuses, netVars, BotInv, Busy
<1>5. CASE Filled("bot") \/ NotFilled("bot")
  BY <1>5, AnswerStep DEF Filled, NotFilled, Resume, netVars, BotInv, Busy
<1>6. ASSUME NEW x \in States, st' = [st EXCEPT !["engine"] = x],
             UNCHANGED <<inbox, confirmed, offset, batch, cur, acted, twice, done>>
      PROVE  BotInv'
  <2>1. st' \in [Traders -> States] /\ st'["bot"] = st["bot"]
    BY <1>6, StNext DEF BotInv, Traders
  <2>2. QED
    BY <1>6, <2>1, BotKept
<1>7. CASE SyncHeld
  BY <1>6, <1>7 DEF SyncHeld, netVars, botVars, botHist, States
<1>8. ASSUME NEW s \in Symbols, buy(s) \/ sell(s) PROVE BotInv'
  BY <1>6, <1>8 DEF buy, sell, EngineOrders, netVars, botVars, botHist, States, Busy
<1>9. ASSUME NEW s \in Symbols, sellNothing(s) PROVE BotInv'
  BY <1>9, BotKept DEF sellNothing, netVars, botVars, botHist, BotInv, BotTypes
<1>10. CASE Placed("engine")
  BY <1>6, <1>10 DEF Placed, Recorded, netVars, botVars, States, Busy
<1>11. CASE PlaceFails("engine")
  <2>1. UNCHANGED <<acted, twice>>
    BY <1>11 DEF PlaceFails, Recorded
  <2>2. QED
    BY <1>6, <1>11, <2>1 DEF PlaceFails, Resume, netVars, States
<1>12. CASE Filled("engine") \/ NotFilled("engine")
  BY <1>6, <1>12 DEF Filled, NotFilled, Resume, netVars, States
<1>13. ASSUME NEW c \in Commands, Sent(c) PROVE BotInv'
  <2>1. /\ inbox' = Append(inbox, c) /\ inbox \in Seq(Commands)
        /\ UNCHANGED <<confirmed, offset, batch, cur, st, acted, twice, done>>
    BY <1>13 DEF Sent, botVars, botHist, BotInv, BotTypes
  <2>2. inbox' \in Seq(Commands) /\ Len(inbox') = Len(inbox) + 1
    BY <2>1, AppendFacts
  <2>3. Upto \in Nat /\ Upto' = Upto /\ Len(batch) \in Nat /\ Len(inbox) \in Nat
    BY <2>1 DEF BotInv, BotTypes, Upto
  <2>4. Upto' + Len(batch') <= Len(inbox')
    BY <2>1, <2>2, <2>3 DEF BotInv
  <2>5. QED
    BY <2>1, <2>2, <2>3, <2>4 DEF BotInv, BotTypes
<1>14. ASSUME NEW k, Executed(k) \/ Ended(k) PROVE BotInv'
  BY <1>14, BotKept DEF Executed, Ended, netVars, botVars, botHist, BotInv, BotTypes
<1>15. CASE Restart
  <2>1. /\ st' = [bot |-> "poll", engine |-> "sync"] /\ offset' = 0 /\ batch' = << >>
        /\ acted' = {} /\ UNCHANGED <<inbox, confirmed, twice, done>>
    BY <1>15 DEF Restart, Idle, netVars
  <2>2. st' \in [Traders -> States] /\ st'["bot"] = "poll"
    BY <2>1 DEF Traders, States
  <2>3. /\ confirmed \in Nat /\ offset \in Nat /\ Len(batch) \in Nat
        /\ Len(inbox) \in Nat /\ Upto + Len(batch) <= Len(inbox)
    BY DEF BotInv, BotTypes
  <2>4. Upto' = confirmed /\ confirmed <= Upto
    BY <2>1, <2>3 DEF Upto
  <2>5. confirmed <= Len(inbox)
    BY <2>3, <2>4 DEF Upto
  <2>6. 1 .. confirmed \subseteq done
    BY ConfirmedDone DEF NothingSkipped
  <2>7. BotTypes'
    BY <2>1, <2>2 DEF BotInv, BotTypes
  <2>8. QED
    BY <2>1, <2>2, <2>3, <2>4, <2>5, <2>6, <2>7 DEF BotInv, Busy
<1>16. CASE UNCHANGED vars
  BY <1>16, BotKept DEF vars, netVars, botVars, botHist, BotInv, BotTypes
<1>17. QED
  BY <1>1, <1>2, <1>3, <1>4, <1>5, <1>7, <1>8, <1>9, <1>10, <1>11, <1>12, <1>13, <1>14, <1>15,
     <1>16, GetUpdatesStep, HandleNoOrderStep, HandleOrderStep, PlaceBotStep
  DEF Next, BotStep, EngineStep

LEMMA BotAlways == Spec => []BotInv
  BY BotInit, BotStepInv, PTL DEF Spec

(* Telegram forgets a command only after the bot has handled it to the     *)
(* end, for any number of messages and restarts.                           *)
THEOREM NothingSkippedHolds == Spec => []NothingSkipped
  BY BotAlways, ConfirmedDone, PTL

(* No command is executed twice by one process, though its updates come in *)
(* batches and the call that confirms them may fail.                       *)
THEOREM OnceARunHolds == Spec => []OnceARun
<1>1. BotInv => OnceARun
  BY DEF BotInv, OnceARun
<1>2. QED
  BY <1>1, BotAlways, PTL

-----------------------------------------------------------------------------
(* The account. *)

LEMMA CommandTypes ==
  ASSUME NEW c \in Commands
  PROVE  /\ c.sym \in Symbols /\ c.kind \in {"buy", "sell", "close"} /\ c.qty \in Nat
         /\ c.bracket \in BOOLEAN
         /\ c.bracket => c.kind = "buy"
<1> USE EquityAssumption
<1>1. CASE c \in [kind : {"buy"}, sym : Symbols, qty : Quantities, bracket : BOOLEAN]
  BY <1>1
<1>2. CASE c \in [kind : {"sell"}, sym : Symbols, qty : Quantities, bracket : {FALSE}]
  BY <1>2
<1>3. CASE c \in [kind : {"close"}, sym : Symbols, qty : {0}, bracket : {FALSE}]
  <2>1. c.sym \in Symbols /\ c.kind = "close" /\ c.qty = 0 /\ c.bracket = FALSE
    BY <1>3
  <2>2. c.bracket \in BOOLEAN /\ (c.bracket => c.kind = "buy")
    BY <2>1, Zenon
  <2>3. c.qty \in Nat /\ c.kind \in {"buy", "sell", "close"} /\ c.sym \in Symbols
    BY <2>1
  <2>4. QED
    BY <2>2, <2>3, Zenon
<1>4. QED
  BY <1>1, <1>2, <1>3 DEF Commands

(* Nothing a trader has decided on changes, but where it is may. *)
LEMMA DeskKept ==
  ASSUME DeskInv, UNCHANGED <<orders, pos, raced, req, seen>>,
         \A a \in Traders : st'[a] \in Wants(a) => st[a] \in Wants(a)
  PROVE  DeskInv'
  BY DEF DeskInv

(* Trader a has made up its mind. *)
LEMMA DeskOrders ==
  ASSUME DeskInv, NEW a \in Traders, NEW r \in Req, req' = [req EXCEPT ![a] = r],
         seen' = [seen EXCEPT ![a] = pos[r.sym]], \A b \in Traders : b # a => st'[b] = st[b],
         r.bracket => r.side = "buy", r.side = "sell" => r.qty <= pos[r.sym],
         UNCHANGED <<orders, pos, raced>>
  PROVE  DeskInv'
<1>1. /\ DOMAIN req' = Traders /\ DOMAIN seen' = Traders /\ req'[a] = r
      /\ seen'[a] = pos[r.sym] /\ pos[r.sym] \in Int
      /\ \A b \in Traders : b # a => req'[b] = req[b] /\ seen'[b] = seen[b]
  BY DEF DeskInv, Req
<1>2. QED
  BY <1>1 DEF DeskInv

(* It has none any more, its order placed or not. *)
LEMMA DeskDone ==
  ASSUME DeskInv, NEW a \in Traders, NEW x, NEW y,
         req' = [req EXCEPT ![a] = x], seen' = [seen EXCEPT ![a] = y],
         st'[a] \notin Wants(a), \A b \in Traders : b # a => st'[b] = st[b],
         orders' \in Seq(Order), \A k \in 1 .. Len(orders') : orders'[k].bracket => orders'[k].side = "buy",
         raced' \in [Traders -> SUBSET Symbols], UNCHANGED pos
  PROVE  DeskInv'
<1>1. /\ DOMAIN req' = Traders /\ DOMAIN seen' = Traders
      /\ \A b \in Traders : b # a => req'[b] = req[b] /\ seen'[b] = seen[b]
  BY DEF DeskInv
<1>2. QED
  BY <1>1 DEF DeskInv

LEMMA HandleOrderDesk == ASSUME BotInv, DeskInv, HandleOrder PROVE DeskInv'
<1> DEFINE c == inbox[Head(batch)]
           r == Request(c)
<1>1. /\ batch # << >> /\ offset' = Head(batch) + 1 /\ batch' = Tail(batch)
      /\ UNCHANGED <<inbox, confirmed>>
  BY DEF HandleOrder, Take, netVars
<1>2. c \in Commands
  <2>1. Head(batch) \in 1 .. Len(inbox)
    BY <1>1, TakeStep
  <2>2. QED
    BY <2>1 DEF BotInv, BotTypes
<1> HIDE DEF c
<1>3. /\ c.sym \in Symbols /\ c.kind \in {"buy", "sell", "close"} /\ c.qty \in Nat
      /\ c.bracket \in BOOLEAN
      /\ c.bracket => c.kind = "buy"
  BY <1>2, CommandTypes
<1>4. pos[c.sym] \in Int
  BY <1>3 DEF DeskInv
<1>5. /\ r.sym = c.sym /\ r.side = (IF c.kind = "buy" THEN "buy" ELSE "sell")
      /\ r.qty = (IF c.kind = "close" THEN pos[c.sym] ELSE c.qty) /\ r.bracket = c.bracket
  BY DEF Request
<1>6. r \in Req
  <2> DEFINE side == IF c.kind = "buy" THEN "buy" ELSE "sell"
             qty == IF c.kind = "close" THEN pos[c.sym] ELSE c.qty
  <2>1. side \in Sides /\ qty \in Int
    BY <1>3, <1>4 DEF Sides
  <2>2. r = [sym |-> c.sym, side |-> side, qty |-> qty, bracket |-> c.bracket]
    BY DEF Request
  <2> HIDE DEF side, qty, r
  <2>3. QED
    BY <1>3, <2>1, <2>2 DEF Req
<1>7. r.side = "sell" => r.qty <= pos[r.sym]
  <2>1. c.kind \in {"sell", "close"} => Sellable(c)
    BY DEF HandleOrder, c
  <2>2. QED
    BY <1>3, <1>4, <1>5, <2>1 DEF Sellable
<1>8. /\ req' = [req EXCEPT !["bot"] = r] /\ seen' = [seen EXCEPT !["bot"] = pos[r.sym]]
      /\ \A b \in Traders : b # "bot" => st'[b] = st[b]
      /\ UNCHANGED <<orders, pos, raced>>
  BY <1>5 DEF HandleOrder, c, acctVars, BotInv, BotTypes
<1>9. "bot" \in Traders
  BY DEF Traders
<1> HIDE DEF r
<1>10. r.bracket => r.side = "buy"
  BY <1>3, <1>5
<1>11. QED
  BY <1>6, <1>7, <1>8, <1>9, <1>10, DeskOrders

LEMMA EngineOrdersDesk ==
  ASSUME BotInv, DeskInv, NEW s \in Symbols, buy(s) \/ sell(s) PROVE DeskInv'
<1>1. PICK r \in Req : /\ EngineOrders(r) /\ ~r.bracket
                       /\ r.side = "sell" => r.qty <= pos[r.sym]
  <2>1. pos[s] \in Int
    BY DEF DeskInv
  <2>2. CASE buy(s)
    <3> DEFINE q == [sym |-> s, side |-> "buy", qty |-> EngineSize, bracket |-> FALSE]
    <3>1. q \in Req /\ EngineOrders(q) /\ ~q.bracket /\ q.side = "buy"
      BY <2>2, EquityAssumption DEF buy, Req, Sides
    <3> HIDE DEF q
    <3>2. QED
      BY <3>1
  <2>3. CASE sell(s)
    <3> DEFINE q == [sym |-> s, side |-> "sell", qty |-> pos[s], bracket |-> FALSE]
    <3>1. q \in Req /\ EngineOrders(q) /\ ~q.bracket /\ q.qty = pos[q.sym] /\ q.qty \in Int
      BY <2>1, <2>3 DEF sell, Req, Sides
    <3> HIDE DEF q
    <3>2. QED
      BY <3>1
  <2>4. QED
    BY <2>2, <2>3
<1>2. /\ req' = [req EXCEPT !["engine"] = r] /\ seen' = [seen EXCEPT !["engine"] = pos[r.sym]]
      /\ \A b \in Traders : b # "engine" => st'[b] = st[b]
      /\ UNCHANGED <<orders, pos, raced>> /\ "engine" \in Traders
  BY <1>1 DEF EngineOrders, acctVars, BotInv, BotTypes, Traders
<1>3. QED
  BY <1>1, <1>2, DeskOrders

LEMMA NewOrderFacts ==
  ASSUME DeskInv, NEW r \in Req, r.qty > 0, r.bracket => r.side = "buy",
         NEW os \in Seq(Order), \A k \in 1 .. Len(os) : os[k].bracket => os[k].side = "buy"
  PROVE  LET n == Len(os) + 1
             new == Append(os, NewOrder(r))
         IN  /\ new \in Seq(Order) /\ Len(new) = n /\ Len(os) \in Nat
             /\ \A k \in 1 .. Len(os) : new[k] = os[k]
             /\ new[n].sym = r.sym /\ new[n].side = r.side /\ new[n].qty = r.qty
             /\ new[n].status = "open"
             /\ \A k \in 1 .. Len(new) : new[k].bracket => new[k].side = "buy"
<1> DEFINE o == NewOrder(r)
           n == Len(os) + 1
           new == Append(os, o)
<1>1. /\ o.sym = r.sym /\ o.side = r.side /\ o.qty = r.qty /\ o.status = "open"
      /\ o.bracket = r.bracket
  BY DEF NewOrder
<1>2. o \in Order
  BY DEF NewOrder, Order, Req
<1> HIDE DEF o
<1>3. /\ new \in Seq(Order) /\ Len(new) = n /\ Len(os) \in Nat /\ new[n] = o
      /\ \A k \in 1 .. Len(os) : new[k] = os[k]
  BY <1>2, AppendFacts
<1>4. \A k \in 1 .. Len(new) : k \in 1 .. Len(os) \/ k = n
  BY <1>3
<1> HIDE DEF new
<1>5. \A k \in 1 .. Len(new) : new[k].bracket => new[k].side = "buy"
  BY <1>1, <1>3, <1>4
<1>6. QED
  BY <1>1, <1>3, <1>5 DEF new, o

(* The status of an open order changes, and nothing else of it. *)
LEMMA StatusFacts ==
  ASSUME DeskInv, NEW k \in DOMAIN orders, NEW x \in {"filled", "dead"}
  PROVE  LET new == [orders EXCEPT ![k].status = x] IN
         /\ k \in 1 .. Len(orders) /\ orders[k] \in Order
         /\ new \in Seq(Order) /\ Len(new) = Len(orders) /\ new[k].status # "open"
         /\ \A j \in 1 .. Len(orders) : j # k => new[j] = orders[j]
         /\ new[k].sym = orders[k].sym /\ new[k].side = orders[k].side
         /\ new[k].qty = orders[k].qty
         /\ \A j \in 1 .. Len(new) : new[j].bracket => new[j].side = "buy"
<1> DEFINE o == orders[k]
           p == [o EXCEPT !.status = x]
           new == [orders EXCEPT ![k] = p]
<1>1. orders \in Seq(Order) /\ k \in 1 .. Len(orders) /\ o \in Order
  BY DEF DeskInv
<1>2. [orders EXCEPT ![k].status = x] = new
  BY <1>1
<1>3. p \in Order
  BY <1>1 DEF Order
<1>4. /\ p.sym = o.sym /\ p.side = o.side /\ p.qty = o.qty /\ p.status = x
      /\ p.bracket = o.bracket
  BY <1>1 DEF Order
<1> HIDE DEF p
<1>5. /\ new \in Seq(Order) /\ Len(new) = Len(orders) /\ new[k] = p
      /\ \A j \in 1 .. Len(orders) : j # k => new[j] = orders[j]
  BY <1>1, <1>3
<1> HIDE DEF new
<1>6. \A j \in 1 .. Len(new) : new[j].bracket => new[j].side = "buy"
  BY <1>1, <1>4, <1>5 DEF DeskInv
<1>7. x # "open"
  OBVIOUS
<1>8. QED
  BY <1>1, <1>2, <1>4, <1>5, <1>6, <1>7

-----------------------------------------------------------------------------
(* Promises. *)

LEMMA SellsFacts ==
  ASSUME DeskInv, NEW s
  PROVE  /\ Sells(s) \subseteq 1 .. Len(orders) /\ IsFiniteSet(Sells(s))
         /\ \A k \in Sells(s) : Shares[k] = orders[k].qty /\ Shares[k] \in Nat
<1>1. /\ DOMAIN orders = 1 .. Len(orders) /\ Len(orders) \in Nat
      /\ \A k \in 1 .. Len(orders) : orders[k] \in Order
  BY DEF DeskInv
<1>2. Sells(s) \subseteq 1 .. Len(orders)
  BY <1>1 DEF Sells
<1>3. IsFiniteSet(Sells(s))
  BY <1>1, <1>2, FiniteIndices
<1>4. \A k \in 1 .. Len(orders) : Shares[k] = orders[k].qty /\ Shares[k] \in Nat
  BY <1>1 DEF Shares, Order
<1>5. QED
  BY <1>2, <1>3, <1>4

LEMMA PromisedNat == ASSUME DeskInv, NEW s PROVE Promised(s) \in Nat
  BY SellsFacts, SumNat DEF Promised

(* Orders are added, and their status changes, but their size never does:  *)
(* what is promised changes by the orders that come and go.                *)
LEMMA PromisedNext ==
  ASSUME DeskInv, DeskInv', NEW s,
         \A k \in 1 .. Len(orders) : k \in 1 .. Len(orders') /\ orders'[k].qty = orders[k].qty
  PROVE  /\ Sells(s)' = Sells(s) => Promised(s)' = Promised(s)
         /\ \A k \in Sells(s) : Sells(s)' = Sells(s) \ {k} =>
              Promised(s) = orders[k].qty + Promised(s)' /\ Promised(s)' \in Nat
         /\ \A k \in 1 .. Len(orders') : k \notin Sells(s) /\ Sells(s)' = Sells(s) \cup {k} =>
              Promised(s)' = orders'[k].qty + Promised(s)
<1>1. /\ Sells(s) \subseteq 1 .. Len(orders) /\ IsFiniteSet(Sells(s))
      /\ \A k \in Sells(s) : Shares[k] = orders[k].qty /\ Shares[k] \in Nat
  BY SellsFacts
<1>2. \A k \in 1 .. Len(orders') : Shares'[k] = orders'[k].qty /\ Shares'[k] \in Nat
  <2>1. /\ DOMAIN orders' = 1 .. Len(orders')
        /\ \A k \in 1 .. Len(orders') : orders'[k] \in Order
    BY DEF DeskInv
  <2>2. QED
    BY <2>1 DEF Shares, Order
<1>3. ASSUME NEW S \in SUBSET Sells(s)
      PROVE  SumFunctionOnSet(Shares', S) = SumFunctionOnSet(Shares, S)
  <2>1. IsFiniteSet(S) /\ \A k \in S : Shares'[k] = Shares[k]
    BY <1>1, <1>2, FS_Subset
  <2>2. QED
    BY <2>1, SumSame
<1>4. ASSUME Sells(s)' = Sells(s) PROVE Promised(s)' = Promised(s)
  BY <1>3, <1>4 DEF Promised
<1>5. ASSUME NEW k \in Sells(s), Sells(s)' = Sells(s) \ {k}
      PROVE  Promised(s) = orders[k].qty + Promised(s)' /\ Promised(s)' \in Nat
  <2>1. Promised(s)' = SumFunctionOnSet(Shares, Sells(s) \ {k})
    BY <1>3, <1>5 DEF Promised
  <2>2. \A j \in Sells(s) : Shares[j] \in Int
    BY <1>1
  <2>3. Promised(s) = Shares[k] + SumFunctionOnSet(Shares, Sells(s) \ {k})
    BY <1>1, <2>2, SumRemove DEF Promised
  <2>4. SumFunctionOnSet(Shares, Sells(s) \ {k}) \in Nat
    BY <1>1, SumNat, FS_Subset
  <2>5. QED
    BY <1>1, <2>1, <2>3, <2>4
<1>6. ASSUME NEW k \in 1 .. Len(orders'), k \notin Sells(s), Sells(s)' = Sells(s) \cup {k}
      PROVE  Promised(s)' = orders'[k].qty + Promised(s)
  <2> DEFINE T == Sells(s) \cup {k}
  <2>1. IsFiniteSet(T) /\ T \ {k} = Sells(s) /\ k \in T
    BY <1>1, <1>6, FS_AddElement
  <2>2. \A j \in T : Shares'[j] \in Int
    BY <1>1, <1>2
  <2>3. SumFunctionOnSet(Shares', T) = Shares'[k] + SumFunctionOnSet(Shares', T \ {k})
    BY <2>1, <2>2, SumRemove
  <2>4. SumFunctionOnSet(Shares', Sells(s)) = Promised(s)
    BY <1>3 DEF Promised
  <2>5. Promised(s)' = SumFunctionOnSet(Shares', T)
    BY <1>6 DEF Promised
  <2> HIDE DEF T
  <2>6. QED
    BY <1>2, <2>1, <2>3, <2>4, <2>5
<1>7. QED
  BY <1>4, <1>5, <1>6

-----------------------------------------------------------------------------
(* The steps of the account and of the two traders. *)

LEMMA CoveredKept ==
  ASSUME Covered, UNCHANGED <<orders, pos, raced>> PROVE Covered'
  BY DEF Covered, Promised, Sells, Shares

LEMMA EndedStep ==
  ASSUME DeskInv, Covered, NEW k \in DOMAIN orders, Ended(k) PROVE DeskInv' /\ Covered'
<1>1. /\ orders' = [orders EXCEPT ![k].status = "dead"] /\ orders[k].status = "open"
      /\ UNCHANGED <<pos, raced, req, seen, st>>
  BY DEF Ended, deskVars
<1>2. /\ k \in 1 .. Len(orders) /\ orders[k] \in Order
      /\ orders' \in Seq(Order) /\ Len(orders') = Len(orders) /\ orders'[k].status # "open"
      /\ \A j \in 1 .. Len(orders) : j # k => orders'[j] = orders[j]
      /\ orders'[k].qty = orders[k].qty
      /\ \A j \in 1 .. Len(orders') : orders'[j].bracket => orders'[j].side = "buy"
  BY <1>1, StatusFacts
<1>3. DeskInv'
  BY <1>1, <1>2 DEF DeskInv
<1>4. DOMAIN orders = 1 .. Len(orders) /\ DOMAIN orders' = 1 .. Len(orders')
  BY <1>3 DEF DeskInv
<1>5. \A j \in 1 .. Len(orders) : j \in 1 .. Len(orders') /\ orders'[j].qty = orders[j].qty
  BY <1>2
<1>6. ASSUME NEW s \in Symbols PROVE Promised(s)' <= Promised(s) /\ Promised(s)' \in Nat
  <2>1. Sells(s)' = Sells(s) \ {k}
    BY <1>2, <1>4 DEF Sells
  <2>2. CASE k \in Sells(s)
    <3>1. Promised(s) = orders[k].qty + Promised(s)' /\ Promised(s)' \in Nat
      BY <1>3, <1>5, <2>1, <2>2, PromisedNext
    <3>2. orders[k].qty \in Nat
      BY <1>2 DEF Order
    <3>3. QED
      BY <3>1, <3>2
  <2>3. CASE k \notin Sells(s)
    <3>1. Sells(s)' = Sells(s)
      BY <2>1, <2>3
    <3>2. Promised(s)' = Promised(s)
      BY <1>3, <1>5, <3>1, PromisedNext
    <3>3. QED
      BY <3>2, PromisedNat
  <2>4. QED
    BY <2>2, <2>3
<1>7. Covered'
  <2> SUFFICES ASSUME NEW s \in Symbols, \A a \in Traders : s \notin raced'[a]
               PROVE  Promised(s)' <= pos'[s]
    BY DEF Covered
  <2>1. Promised(s) <= pos[s] /\ pos[s] \in Int /\ Promised(s) \in Nat
    BY <1>1, PromisedNat DEF Covered, DeskInv
  <2>2. QED
    BY <1>1, <1>6, <2>1
<1>8. QED
  BY <1>3, <1>7

LEMMA ExecutedStep ==
  ASSUME DeskInv, Covered, NEW k \in DOMAIN orders, Executed(k) PROVE DeskInv' /\ Covered'
<1> DEFINE o == orders[k]
           new == [orders EXCEPT ![k].status = "filled"]
           x == [o EXCEPT !.side = "sell", !.bracket = FALSE]
           n == Len(orders) + 1
<1>1. /\ o.status = "open" /\ UNCHANGED <<raced, req, seen, st>>
      /\ pos' = [pos EXCEPT ![o.sym] = IF o.side = "buy" THEN @ + o.qty ELSE @ - o.qty]
      /\ orders' = IF o.bracket THEN Append(new, NewOrder(x)) ELSE new
  BY DEF Executed, deskVars
<1>2. /\ k \in 1 .. Len(orders) /\ o \in Order
      /\ new \in Seq(Order) /\ Len(new) = Len(orders) /\ new[k].status # "open"
      /\ \A j \in 1 .. Len(orders) : j # k => new[j] = orders[j]
      /\ new[k].sym = o.sym /\ new[k].side = o.side /\ new[k].qty = o.qty
      /\ \A j \in 1 .. Len(new) : new[j].bracket => new[j].side = "buy"
  BY StatusFacts
<1>3. o.sym \in Symbols /\ o.qty \in Nat \ {0} /\ o.side \in Sides /\ o.bracket \in BOOLEAN
      /\ (o.bracket => o.side = "buy") /\ Len(orders) \in Nat
  BY <1>2 DEF Order, DeskInv
<1>4. /\ pos' \in [Symbols -> Int] /\ pos \in [Symbols -> Int]
      /\ \A s \in Symbols : s # o.sym => pos'[s] = pos[s]
      /\ pos'[o.sym] = IF o.side = "buy" THEN pos[o.sym] + o.qty ELSE pos[o.sym] - o.qty
  <2>1. pos \in [Symbols -> Int]
    BY DEF DeskInv
  <2> HIDE DEF o
  <2>2. pos[o.sym] \in Int /\ pos[o.sym] + o.qty \in Int /\ pos[o.sym] - o.qty \in Int
    BY <1>3, <2>1
  <2>3. QED
    BY <1>1, <1>3, <2>1, <2>2
<1>5. ASSUME o.bracket
      PROVE  /\ orders' \in Seq(Order) /\ Len(orders') = n
             /\ \A j \in 1 .. Len(orders) : orders'[j] = new[j]
             /\ orders'[n].sym = o.sym /\ orders'[n].side = "sell" /\ orders'[n].qty = o.qty
             /\ orders'[n].status = "open"
             /\ \A j \in 1 .. Len(orders') : orders'[j].bracket => orders'[j].side = "buy"
  <2> DEFINE r == [sym |-> o.sym, side |-> "sell", qty |-> o.qty, bracket |-> FALSE]
  <2>1. NewOrder(x) = NewOrder(r)
    BY <1>2 DEF NewOrder, Order
  <2>2. r \in Req /\ r.qty > 0 /\ ~r.bracket /\ r.sym = o.sym /\ r.qty = o.qty /\ r.side = "sell"
    BY <1>3 DEF Req, Sides
  <2>3. orders' = Append(new, NewOrder(r))
    BY <1>1, <1>5, <2>1
  <2> HIDE DEF r, new, o
  <2>4. QED
    BY <1>2, <2>2, <2>3, NewOrderFacts
<1>6. orders' \in Seq(Order) /\ \A j \in 1 .. Len(orders') : orders'[j].bracket => orders'[j].side = "buy"
  BY <1>1, <1>2, <1>5
<1>7. DeskInv'
  BY <1>1, <1>4, <1>6 DEF DeskInv
<1>8. DOMAIN orders = 1 .. Len(orders) /\ DOMAIN orders' = 1 .. Len(orders')
  BY <1>7 DEF DeskInv
<1>9. \A j \in 1 .. Len(orders) : /\ j \in 1 .. Len(orders')
                                  /\ orders'[j] = new[j] /\ orders'[j].qty = orders[j].qty
  BY <1>1, <1>2, <1>3, <1>5
<1>10. Len(orders') = IF o.bracket THEN n ELSE Len(orders)
  BY <1>1, <1>2, <1>5
<1> HIDE DEF new, o
<1>11. ASSUME NEW s \in Symbols, \A a \in Traders : s \notin raced'[a]
       PROVE  Promised(s)' <= pos'[s]
  <2>1. Promised(s) <= pos[s] /\ pos[s] \in Int /\ Promised(s) \in Nat
    BY <1>1, <1>4, <1>11, PromisedNat DEF Covered
  <2>2. CASE s = o.sym /\ o.side = "sell"
    <3>1. k \in Sells(s)
      BY <1>1, <1>2, <1>8, <2>2 DEF Sells, o
    <3>2. ~o.bracket
      BY <1>3, <2>2
    <3>3. Sells(s)' = Sells(s) \ {k}
      BY <1>2, <1>8, <1>9, <1>10, <3>2 DEF Sells
    <3>4. Promised(s) = o.qty + Promised(s)' /\ Promised(s)' \in Nat
      BY <1>7, <1>9, <3>1, <3>3, PromisedNext DEF o
    <3>5. QED
      BY <1>3, <1>4, <2>1, <2>2, <3>4
  <2>3. CASE s = o.sym /\ o.side # "sell" /\ o.bracket
    <3>1. k \notin Sells(s) /\ n \notin Sells(s)
      BY <1>3, <1>8, <2>3 DEF Sells, o
    <3>2. n \in 1 .. Len(orders') /\ \A j \in 1 .. Len(orders') : j \in 1 .. Len(orders) \/ j = n
      BY <1>3, <1>10, <2>3
    <3>3. Sells(s)' = Sells(s) \cup {n}
      <4>1. \A j \in 1 .. Len(orders) : j \in Sells(s)' <=> j \in Sells(s)
        BY <1>2, <1>8, <1>9, <2>3, <3>1 DEF Sells
      <4>2. n \in Sells(s)'
        BY <1>5, <1>8, <2>3, <3>2 DEF Sells
      <4>3. Sells(s)' \subseteq 1 .. Len(orders') /\ Sells(s) \subseteq 1 .. Len(orders)
        BY <1>8 DEF Sells
      <4>4. QED
        BY <3>2, <4>1, <4>2, <4>3
    <3>4. Promised(s)' = orders'[n].qty + Promised(s)
      BY <1>7, <1>9, <3>1, <3>2, <3>3, PromisedNext
    <3>5. orders'[n].qty = o.qty /\ o.side = "buy"
      BY <1>3, <1>5, <2>3
    <3>6. QED
      BY <1>3, <1>4, <2>1, <2>3, <3>4, <3>5
  <2>4. CASE s # o.sym \/ (o.side # "sell" /\ ~o.bracket)
    <3>1. Sells(s)' = Sells(s)
      <4>1. Sells(s)' \subseteq 1 .. Len(orders') /\ Sells(s) \subseteq 1 .. Len(orders)
        BY <1>8 DEF Sells
      <4>2. \A j \in 1 .. Len(orders) : j \in Sells(s)' <=> j \in Sells(s)
        BY <1>2, <1>8, <1>9, <2>4 DEF Sells, o
      <4>3. \A j \in 1 .. Len(orders') : j \in 1 .. Len(orders) \/ (o.bracket /\ j = n)
        BY <1>3, <1>10
      <4>4. o.bracket => n \notin Sells(s)'
        BY <1>5, <2>4 DEF Sells
      <4>5. QED
        BY <1>9, <4>1, <4>2, <4>3, <4>4
    <3>2. Promised(s)' = Promised(s)
      BY <1>7, <1>9, <3>1, PromisedNext
    <3>3. pos[s] <= pos'[s] /\ pos'[s] \in Int
      BY <1>3, <1>4, <2>1, <2>4 DEF Sides
    <3>4. QED
      BY <2>1, <3>2, <3>3
  <2>5. QED
    BY <2>2, <2>3, <2>4
<1>12. QED
  BY <1>7, <1>11 DEF Covered

(* The account takes an order from a.  A sell that would open a short was  *)
(* decided on another position than the one it meets.                      *)
LEMMA AcceptStep ==
  ASSUME BotInv, DeskInv, Covered, NEW a \in Traders, st[a] = "place", Accepts(req[a]),
         orders' = Append(orders, NewOrder(req[a])), Recorded(a), pos' = pos,
         NEW x, NEW y, req' = [req EXCEPT ![a] = x], seen' = [seen EXCEPT ![a] = y],
         st'[a] \notin Wants(a), \A b \in Traders : b # a => st'[b] = st[b]
  PROVE  DeskInv' /\ Covered'
<1> DEFINE r == req[a]
           n == Len(orders) + 1
<1>1. st[a] \in Wants(a)
  BY DEF Wants, Traders
<1>2. /\ r \in Req /\ seen[a] \in Int
      /\ r.bracket => r.side = "buy"
      /\ r.side = "sell" => r.qty <= seen[a]
  BY <1>1 DEF DeskInv
<1>3. r.sym \in Symbols /\ r.qty \in Int /\ r.qty > 0
  BY <1>2 DEF Accepts, Req
<1>4. /\ orders' \in Seq(Order) /\ Len(orders') = n /\ Len(orders) \in Nat
      /\ \A k \in 1 .. Len(orders) : orders'[k] = orders[k]
      /\ orders'[n].sym = r.sym /\ orders'[n].side = r.side /\ orders'[n].qty = r.qty
      /\ \A k \in 1 .. Len(orders') : orders'[k].bracket => orders'[k].side = "buy"
  <2>1. /\ orders \in Seq(Order)
        /\ \A k \in 1 .. Len(orders) : orders[k].bracket => orders[k].side = "buy"
    BY DEF DeskInv
  <2>2. QED
    BY <1>2, <1>3, <2>1, NewOrderFacts
<1>5. /\ raced \in [Traders -> SUBSET Symbols] /\ raced' \in [Traders -> SUBSET Symbols]
      /\ \A b \in Traders : raced[b] \subseteq raced'[b]
      /\ r.side = "sell" /\ pos[r.sym] # seen[a] => r.sym \in raced'[a]
  <2>1. raced \in [Traders -> SUBSET Symbols]
    BY DEF DeskInv
  <2>2. raced' = [raced EXCEPT ![a] = IF r.side = "sell" /\ pos[r.sym] # seen[a]
                                        THEN @ \cup {r.sym} ELSE @]
    BY DEF Recorded
  <2> HIDE DEF r
  <2>3. QED
    BY <1>3, <2>1, <2>2
<1>6. DeskInv'
  BY <1>4, <1>5, DeskDone
<1>7. DOMAIN orders = 1 .. Len(orders) /\ DOMAIN orders' = 1 .. Len(orders')
  BY <1>6 DEF DeskInv
<1>8. /\ n \in 1 .. Len(orders') /\ \A j \in 1 .. Len(orders') : j \in 1 .. Len(orders) \/ j = n
      /\ \A j \in 1 .. Len(orders) : j \in 1 .. Len(orders') /\ orders'[j].qty = orders[j].qty
  BY <1>4
<1> HIDE DEF r
<1>9. ASSUME NEW s \in Symbols, \A b \in Traders : s \notin raced'[b]
      PROVE  Promised(s)' <= pos'[s]
  <2>1. Promised(s) <= pos[s] /\ pos[s] \in Int /\ Promised(s) \in Nat
    BY <1>5, <1>9, PromisedNat DEF Covered, DeskInv
  <2>2. n \notin Sells(s) /\ Sells(s) \subseteq 1 .. Len(orders)
        /\ Sells(s)' \subseteq 1 .. Len(orders')
        /\ \A j \in 1 .. Len(orders) : j \in Sells(s)' <=> j \in Sells(s)
    BY <1>4, <1>7, <1>8 DEF Sells
  <2>3. CASE n \in Sells(s)'
    <3>1. s = r.sym /\ r.side = "sell"
      BY <1>4, <2>3 DEF Sells
    <3>2. Sells(s)' = Sells(s) \cup {n}
      BY <1>8, <2>2, <2>3
    <3>3. Promised(s)' = r.qty + Promised(s)
      <4>1. Promised(s)' = orders'[n].qty + Promised(s)
        BY <1>6, <1>8, <2>2, <3>2, PromisedNext
      <4>2. QED
        BY <1>4, <4>1
    <3>4. pos[s] = seen[a]
      BY <1>5, <1>9, <3>1
    <3>5. r.qty <= seen[a]
      BY <1>2, <3>1
    <3>6. r.qty <= pos[s] - Promised(s) \/ pos[s] <= 0
      BY <3>1 DEF Accepts, r
    <3>7. QED
      BY <1>3, <2>1, <3>3, <3>4, <3>5, <3>6
  <2>4. CASE n \notin Sells(s)'
    <3>1. Sells(s)' = Sells(s)
      BY <1>8, <2>2, <2>4
    <3>2. Promised(s)' = Promised(s)
      BY <1>6, <1>8, <3>1, PromisedNext
    <3>3. QED
      BY <2>1, <3>2
  <2>5. QED
    BY <2>3, <2>4
<1>10. QED
  BY <1>6, <1>9 DEF Covered

(* Trader a goes on from its order. *)
LEMMA ResumeSt ==
  ASSUME BotTypes, NEW a \in Traders, NEW r, NEW f, Resume(a, r, f)
  PROVE  st'[a] \notin Wants(a) /\ \A b \in Traders : b # a => st'[b] = st[b]
  BY DEF Resume, Answer, Wants, Traders, BotTypes

LEMMA PlaceStep ==
  ASSUME BotInv, DeskInv, Covered, NEW a \in Traders, Placed(a) \/ PlaceFails(a)
  PROVE  DeskInv' /\ Covered'
<1>1. BotTypes
  BY DEF BotInv
<1>2. CASE Placed(a)
  <2>1. st'[a] \notin Wants(a) /\ \A b \in Traders : b # a => st'[b] = st[b]
    BY <1>1, <1>2 DEF Placed, Wants, Traders, BotTypes
  <2>2. QED
    BY <1>2, <2>1, AcceptStep DEF Placed
<1>3. CASE PlaceFails(a)
  <2>1. st'[a] \notin Wants(a) /\ \A b \in Traders : b # a => st'[b] = st[b]
    <3>1. Resume(a, req[a], FALSE)
      BY <1>3 DEF PlaceFails
    <3>2. QED
      BY <1>1, <3>1, ResumeSt
  <2>2. /\ st[a] = "place" /\ pos' = pos /\ req' = [req EXCEPT ![a] = None]
        /\ seen' = [seen EXCEPT ![a] = 0]
    BY <1>3 DEF PlaceFails
  <2>3. CASE UNCHANGED <<orders, raced>>
    <3>1. DeskInv'
      BY <2>1, <2>2, <2>3, DeskDone DEF DeskInv
    <3>2. QED
      BY <2>2, <2>3, <3>1, CoveredKept
  <2>4. CASE Accepts(req[a]) /\ orders' = Append(orders, NewOrder(req[a])) /\ Recorded(a)
    BY <2>1, <2>2, <2>4, AcceptStep
  <2>5. QED
    BY <1>3, <2>3, <2>4 DEF PlaceFails
<1>4. QED
  BY <1>2, <1>3

LEMMA DeskStep ==
  ASSUME BotInv, DeskInv, Covered, [Next]_vars PROVE DeskInv' /\ Covered'
<1>1. ASSUME UNCHANGED <<orders, pos, raced, req, seen>>,
             \A a \in Traders : st'[a] \in Wants(a) => st[a] \in Wants(a)
      PROVE  DeskInv' /\ Covered'
  BY <1>1, DeskKept, CoveredKept
<1>2. BotTypes
  BY DEF BotInv
<1>3. CASE GetUpdates \/ BatchDone
  BY <1>1, <1>2, <1>3 DEF GetUpdates, BatchDone, deskVars, acctVars, Wants, Traders, BotTypes
<1>4. CASE HandleNoOrder \/ GetUpdatesFails
  BY <1>1, <1>4 DEF HandleNoOrder, GetUpdatesFails, deskVars, acctVars
<1>5. CASE HandleOrder
  <2>1. UNCHANGED <<orders, pos, raced>>
    BY <1>5 DEF HandleOrder, acctVars
  <2>2. QED
    BY <1>5, <2>1, HandleOrderDesk, CoveredKept
<1>6. CASE QuoteAllows
  BY <1>1, <1>2, <1>6 DEF QuoteAllows, deskVars, acctVars, Wants, Traders, BotTypes
<1>7. CASE QuoteRefuses
  <2>1. /\ "bot" \in Traders /\ st'["bot"] \notin Wants("bot")
        /\ \A b \in Traders : b # "bot" => st'[b] = st[b]
        /\ req' = [req EXCEPT !["bot"] = None] /\ seen' = [seen EXCEPT !["bot"] = 0]
        /\ UNCHANGED <<orders, pos, raced>>
    BY <1>2, <1>7 DEF QuoteRefuses, Answer, acctVars, Wants, Traders, BotTypes
  <2>2. DeskInv'
    BY <2>1, DeskDone DEF DeskInv
  <2>3. QED
    BY <2>1, <2>2, CoveredKept
<1>8. ASSUME NEW a \in Traders, Filled(a) \/ NotFilled(a) PROVE DeskInv' /\ Covered'
  <2>1. st'[a] \notin Wants(a) /\ \A b \in Traders : b # a => st'[b] = st[b]
    <3>1. \E f \in BOOLEAN : Resume(a, orders[polled[a]], f)
      BY <1>8 DEF Filled, NotFilled
    <3>2. QED
      BY <1>2, <3>1, ResumeSt
  <2>2. UNCHANGED <<orders, pos, raced, req, seen>>
    BY <1>8 DEF Filled, NotFilled, acctVars
  <2>3. \A b \in Traders : st'[b] \in Wants(b) => st[b] \in Wants(b)
    BY <2>1
  <2>4. QED
    BY <1>1, <2>2, <2>3
<1>9. CASE SyncHeld
  BY <1>1, <1>2, <1>9 DEF SyncHeld, deskVars, acctVars, Wants, Traders, BotTypes
<1>10. ASSUME NEW s \in Symbols, buy(s) \/ sell(s) PROVE DeskInv' /\ Covered'
  <2>1. UNCHANGED <<orders, pos, raced>>
    BY <1>10 DEF buy, sell, EngineOrders, acctVars
  <2>2. QED
    BY <1>10, <2>1, EngineOrdersDesk, CoveredKept
<1>11. ASSUME NEW s \in Symbols, sellNothing(s) PROVE DeskInv' /\ Covered'
  BY <1>1, <1>11 DEF sellNothing, deskVars, acctVars
<1>12. ASSUME NEW c \in Commands, Sent(c) PROVE DeskInv' /\ Covered'
  BY <1>1, <1>12 DEF Sent, deskVars, acctVars
<1>13. CASE Restart
  <2>1. /\ st' = [bot |-> "poll", engine |-> "sync"] /\ UNCHANGED <<orders, pos, raced>>
        /\ DOMAIN req' = Traders /\ DOMAIN seen' = Traders
    BY <1>13 DEF Restart, Idle, Nobody, acctVars
  <2>2. \A a \in Traders : st'[a] \notin Wants(a)
    BY <2>1 DEF Traders, Wants
  <2>3. QED
    BY <2>1, <2>2, CoveredKept DEF DeskInv
<1>14. CASE UNCHANGED vars
  BY <1>1, <1>14 DEF vars, deskVars, acctVars
<1>15. "bot" \in Traders /\ "engine" \in Traders
  BY DEF Traders
<1>16. CASE BotStep
  BY <1>3, <1>4, <1>5, <1>6, <1>7, <1>8, <1>15, <1>16, PlaceStep DEF BotStep
<1>17. CASE EngineStep
  BY <1>8, <1>9, <1>10, <1>11, <1>15, <1>17, PlaceStep DEF EngineStep
<1>18. QED
  BY <1>4, <1>12, <1>13, <1>14, <1>16, <1>17, ExecutedStep, EndedStep DEF Next

LEMMA DeskInit == Init => DeskInv /\ Covered
<1> SUFFICES ASSUME Init PROVE DeskInv /\ Covered
  OBVIOUS
<1>1. /\ st = [bot |-> "poll", engine |-> "sync"] /\ orders = << >>
      /\ DOMAIN req = Traders /\ DOMAIN seen = Traders /\ raced = [a \in Traders |-> {}]
      /\ pos \in [Symbols -> 0 .. MaxStart]
  BY DEF Init, Idle, Nobody
<1>2. \A a \in Traders : st[a] \notin Wants(a)
  BY <1>1 DEF Traders, Wants
<1>3. pos \in [Symbols -> Int] /\ \A s \in Symbols : pos[s] >= 0
  BY <1>1, EquityAssumption
<1>4. \A s : Sells(s) = {}
  BY <1>1 DEF Sells
<1>5. \A s : Promised(s) = 0
  BY <1>4, SumEmpty DEF Promised
<1>6. DeskInv
  BY <1>1, <1>2, <1>3 DEF DeskInv
<1>7. QED
  BY <1>3, <1>5, <1>6 DEF Covered

(* A sell decided on the position the account still has when the order     *)
(* arrives never opens a short, in either trader and whatever open, lost   *)
(* and bracket orders there are: the open sell orders never promise more   *)
(* than is held, until a position changes between decision and order.      *)
THEOREM ShortOnlyByRaceHolds == Spec => []ShortOnlyByRace
<1>1. DeskInv /\ Covered => ShortOnlyByRace
  <2> SUFFICES ASSUME DeskInv, Covered, NEW s \in Symbols, \A a \in Traders : s \notin raced[a]
               PROVE  ~ (pos[s] < 0)
    BY DEF ShortOnlyByRace
  <2>1. Promised(s) <= pos[s] /\ Promised(s) \in Nat /\ pos[s] \in Int
    BY PromisedNat DEF Covered, DeskInv
  <2>2. QED
    BY <2>1
<1>2. BotInv /\ DeskInv /\ Covered /\ [Next]_vars => (BotInv /\ DeskInv /\ Covered)'
  BY BotStepInv, DeskStep
<1>3. QED
  BY <1>1, <1>2, BotInit, DeskInit, PTL DEF Spec
=============================================================================
