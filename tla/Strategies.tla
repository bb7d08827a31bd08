----------------------------- MODULE Strategies -----------------------------
(***************************************************************************)
(* The strategies (internal/strategy) in an engine: bars that a builder    *)
(* completes in its own time, an evaluation timer, and an account that may *)
(* or may not execute a signal.  One of the six strategies runs.           *)
(*                                                                         *)
(* A bar is its close, the only field a strategy reads; the last one is in *)
(* progress (Candles says what the builder guarantees).  Averages are      *)
(* compared by their numerators, deviations by their squares; EntryZ and   *)
(* ExitZ are in tenths.  Only as many bars are kept as the strategy reads. *)
(*                                                                         *)
(* Left out: the arms' scores, since with Epsilon > 0 any eligible arm may *)
(* be picked; a signal's strength and reason; the text of the prompt.      *)
(***************************************************************************)
EXTENDS Market, Sequences, SequencesExt, FiniteSetsExt

CONSTANTS
  Kinds,          (* strategies to choose from                             *)
  Arms,           (* Adaptive.Arms                                         *)
  Fast, Slow,     (* Momentum                                              *)
  Window, EntryZ, ExitZ,  (* MeanReversion                                 *)
  MinBars,        (* bars of an instrument in a prompt, at least           *)
  Foreign,        (* an instrument that is not traded                      *)
  MaxAnswer       (* bound: entries in an answer of the model              *)

ASSUME StrategiesAssumption ==
  /\ Kinds \subseteq {"momentum", "meanrev", "adaptive", "llm", "llm+momentum", "llm+adaptive"}
  /\ Arms \in Seq([fast : Nat \ {0}, slow : Nat]) /\ Arms # << >>
  /\ \A k \in DOMAIN Arms : Arms[k].fast < Arms[k].slow
  /\ Fast \in Nat \ {0} /\ Slow \in Nat /\ Fast < Slow
  /\ Window \in Nat \ {0} /\ ExitZ \in Nat /\ EntryZ \in Nat /\ EntryZ > ExitZ
  /\ MinBars \in Nat /\ MaxAnswer \in Nat
  /\ Foreign \notin Instruments /\ None \notin {"buy", "sell"}

VARIABLES
  kind,     (* the strategy that was built                                 *)
  bars,     (* bars[i]: closes, the last one in progress                   *)
  priced,   (* instruments in Engine.last                                  *)
  stage,    (* the engine goroutine                                        *)
  sigs,     (* signals still to be applied                                 *)
  open,     (* Adaptive.open[i]: the arm of the position, or None          *)
  held, saved,  (* the account                                             *)
  (* History. *)
  said,     (* said[i]: the last signal of i since its newest bar closed   *)
  fresh,    (* instruments whose newest closed bar was never evaluated     *)
  skipped,  (* ... that had another such bar since the position was opened *)
  excused   (* ... with a signal that was not executed, or a position of   *)
            (* an earlier process, since a signal was last executed        *)

marketVars  == <<bars, priced>>
historyVars == <<said, fresh, skipped, excused>>
strategiesVars == <<kind, marketVars, stage, sigs, open, held, saved, historyVars>>

A == INSTANCE Account

-----------------------------------------------------------------------------
(* The rules, over a sequence of closed bars. *)

Sum(s) == SumFunctionOnSet(s, DOMAIN s)
LastOf(s, n, back) == SubSeq(s, Len(s) - back - n + 1, Len(s) - back)

(* sma(fast) - sma(slow), `back' bars ago, times fast * slow. *)
Gap(s, arm, back) ==
  Sum(LastOf(s, arm.fast, back)) * arm.slow - Sum(LastOf(s, arm.slow, back)) * arm.fast

(* Mutant: a cross counts only from strictly above. *)
crossedDownStrict(s, arm) == Gap(s, arm, 1) > 0 /\ Gap(s, arm, 0) < 0

crossedUp(s, arm)   == Gap(s, arm, 1) <= 0 /\ Gap(s, arm, 0) > 0
crossedDown(s, arm) == Gap(s, arm, 1) >= 0 /\ Gap(s, arm, 0) < 0

(* Mutant: the bar in progress counts. *)
ClosedAndOpen(s) == s

Closed(s) == SubSeq(s, 1, Len(s) - 1)

maxSlow == Max({Arms[k].slow : k \in DOMAIN Arms})

(* Momentum.Evaluate, for one instrument. *)
momentum(s) ==
  LET arm == [fast |-> Fast, slow |-> Slow] IN
  IF Len(s) < Slow + 2 THEN None
  ELSE IF crossedUp(Closed(s), arm) THEN "buy"
  ELSE IF crossedDown(Closed(s), arm) THEN "sell"
  ELSE None

(* MeanReversion.Evaluate, for one instrument: z = d / sqrt(v), with d the *)
(* distance of the last close from the mean and v the variance, times      *)
(* Window and its square.                                                  *)
meanrev(s) ==
  LET w == LastOf(Closed(s), Window, 0)
      d == Window * w[Window] - Sum(w)
      v == Window * Sum([k \in DOMAIN w |-> w[k] * w[k]]) - Sum(w) * Sum(w)
  IN  IF Len(s) < Window + 2 \/ v = 0 THEN None
      ELSE IF d < 0 /\ 100 * d * d >= EntryZ * EntryZ * v THEN "buy"
      ELSE IF d >= 0 \/ 100 * d * d <= ExitZ * ExitZ * v THEN "sell"
      ELSE None

(* Adaptive.Evaluate, for one instrument with position p: the signals and  *)
(* positions it can lead to.  pickArm takes any eligible arm.              *)
adaptive(s, p) ==
  LET c == Closed(s)
      eligible == {k \in DOMAIN Arms : crossedUp(c, Arms[k])}
  IN  IF Len(s) < maxSlow + 2 THEN {[sig |-> None, pos |-> p]}
      ELSE IF p # None
             THEN {IF crossedDown(c, Arms[p]) THEN [sig |-> "sell", pos |-> None]
                                              ELSE [sig |-> None, pos |-> p]}
      ELSE IF eligible = {} THEN {[sig |-> None, pos |-> None]}
      ELSE {[sig |-> "buy", pos |-> k] : k \in eligible}

(* parseSignals: entries for other instruments, holds and anything else    *)
(* are dropped.                                                            *)
Entries == [inst : Instruments \cup {Foreign}, action : {"buy", "sell", "hold"}]
parseSignals(answer) ==
  SelectSeq(answer, LAMBDA e : e.inst # Foreign /\ e.action # "hold")

-----------------------------------------------------------------------------
StrategiesInit ==
  /\ kind \in Kinds
  /\ bars = [i \in Instruments |-> << >>]
  /\ priced = {}
  /\ stage = "loop"
  /\ sigs = << >>
  /\ open = [i \in Instruments |-> None]
  /\ A!AccountInit
  /\ said = [i \in Instruments |-> None]
  /\ fresh = {}
  /\ skipped = {}
  /\ excused = {}

Keep ==
  CASE kind = "momentum" -> Slow + 2
    [] kind = "meanrev" -> Window + 2
    [] kind = "adaptive" -> maxSlow + 2
    [] OTHER -> Max({MinBars, maxSlow + 2})

(* The builder: a tick in the bar in progress, or the first of a new bar.  *)
TickInBar(i, p) ==
  /\ stage # "down"
  /\ bars[i] # << >>
  /\ bars' = [bars EXCEPT ![i][Len(bars[i])] = p]
  /\ UNCHANGED <<kind, priced, stage, sigs, open, held, saved, historyVars>>

NewBar(i, p) ==
  /\ stage # "down"
  /\ bars' = [bars EXCEPT ![i] =
                LET s == Append(@, p) IN IF Len(s) > Keep THEN Tail(s) ELSE s]
  /\ said' = [said EXCEPT ![i] = None]
  /\ fresh' = fresh \cup {i}
  /\ skipped' = IF i \in fresh THEN skipped \cup {i} ELSE skipped
  /\ UNCHANGED <<kind, priced, stage, sigs, open, held, saved, excused>>

(* The engine receives its first tick of i. *)
Priced(i) ==
  /\ stage = "loop"
  /\ priced' = priced \cup {i}
  /\ UNCHANGED <<kind, bars, stage, sigs, open, held, saved, historyVars>>

-----------------------------------------------------------------------------
(* Evaluate.  f[i] is the signal of i; i comes before j in mk.Instruments. *)

Signals(f) ==
  LET S == {i \in Instruments : f[i] # None}
      o == SetToSeq(S)
  IN  [k \in DOMAIN o |-> [inst |-> o[k], action |-> f[o[k]]]]

(* The engine has signals to apply. *)
Emits(f) ==
  /\ sigs' = Signals(f)
  /\ stage' = "apply"
  /\ said' = [i \in Instruments |-> IF f[i] = None THEN said[i] ELSE f[i]]
  /\ fresh' = {}

(* Momentum and MeanReversion keep nothing. *)
EvaluateRule ==
  /\ stage = "loop"
  /\ kind \in {"momentum", "meanrev"}
  /\ Emits([i \in Instruments |-> IF kind = "momentum" THEN momentum(bars[i])
                                                       ELSE meanrev(bars[i])])
  /\ UNCHANGED <<kind, marketVars, open, held, saved, skipped, excused>>

(* The bandit's choices, one for each instrument. *)
Picks == {g \in [Instruments -> UNION {adaptive(bars[i], open[i]) : i \in Instruments}] :
              \A i \in Instruments : g[i] \in adaptive(bars[i], open[i])}

(* Mutant: an exit leaves the position open. *)
PositionsKept(g) ==
  /\ open' = [i \in Instruments |-> IF g[i].pos = None THEN open[i] ELSE g[i].pos]
  /\ skipped' = {i \in skipped : open'[i] = open[i]}

(* A position recorded when its signal is given. *)
Positions(g) ==
  /\ open' = [i \in Instruments |-> g[i].pos]
  /\ skipped' = {i \in skipped : open'[i] = open[i]}

EvaluateAdaptive ==
  /\ stage = "loop"
  /\ kind = "adaptive"
  /\ \E g \in Picks : Positions(g) /\ Emits([i \in Instruments |-> g[i].sig])
  /\ UNCHANGED <<kind, marketVars, held, saved, excused>>

(* LLM.Evaluate, the prompt: the baseline is evaluated for it.  Without    *)
(* bars there is no prompt, and no baseline.                               *)
Prompt ==
  /\ stage = "loop"
  /\ kind \in {"llm", "llm+momentum", "llm+adaptive"}
  /\ \E i \in Instruments : Len(bars[i]) >= MinBars
  /\ stage' = "ask"
  /\ IF kind = "llm+adaptive" THEN \E g \in Picks : Positions(g)
                              ELSE UNCHANGED <<open, skipped>>
  /\ fresh' = {}
  /\ UNCHANGED <<kind, marketVars, sigs, held, saved, said, excused>>

(* The model answers; a failed request, a refusal and an answer that does  *)
(* not parse come to an empty answer.                                      *)
Answer(a) ==
  /\ stage = "ask"
  /\ sigs' = parseSignals(a)
  /\ stage' = "apply"
  /\ UNCHANGED <<kind, marketVars, open, held, saved, historyVars>>

-----------------------------------------------------------------------------
(* The engine applies the signals. *)

Onward == IF Len(sigs) <= 1 THEN "loop" ELSE "apply"

(* The account executes the signal: a buy of what is held and a sell of    *)
(* what is not are executed when nothing is left to do.                    *)
Execute ==
  /\ sigs # << >>
  /\ LET s == Head(sigs) IN
       /\ s.inst \in priced
       /\ IF s.action = "buy" THEN A!Buy(s.inst) ELSE A!Sell(s.inst)
       /\ excused' = excused \ {s.inst}
  /\ sigs' = Tail(sigs)
  /\ stage' = Onward
  /\ UNCHANGED <<kind, marketVars, open, said, fresh, skipped>>

(* No price yet, nothing affordable, an order that fails. *)
Refuse ==
  /\ sigs # << >>
  /\ excused' = excused \cup {Head(sigs).inst}
  /\ sigs' = Tail(sigs)
  /\ stage' = Onward
  /\ UNCHANGED <<kind, marketVars, open, held, saved, said, fresh, skipped>>

NoSignals ==
  /\ stage = "apply"
  /\ sigs = << >>
  /\ stage' = "loop"
  /\ UNCHANGED <<kind, marketVars, sigs, open, held, saved, historyVars>>

(* ctx is done during the latency: the other signals are dropped. *)
Cancelled ==
  /\ sigs # << >>
  /\ excused' = excused \cup {sigs[k].inst : k \in DOMAIN sigs}
  /\ sigs' = << >>
  /\ stage' = "loop"
  /\ UNCHANGED <<kind, marketVars, open, held, saved, said, fresh, skipped>>

SaveAccount ==
  /\ stage = "loop"
  /\ A!Save
  /\ UNCHANGED <<kind, marketVars, stage, sigs, open, historyVars>>

Down ==
  /\ stage # "down"
  /\ stage' = "down"
  /\ sigs' = << >>
  /\ UNCHANGED <<kind, marketVars, open, held, saved, historyVars>>

(* A new process: an account that remembers, a strategy and a builder that *)
(* do not.                                                                 *)
NewProcess ==
  /\ stage = "down"
  /\ A!Resume
  /\ stage' = "loop"
  /\ bars' = [i \in Instruments |-> << >>]
  /\ priced' = {}
  /\ open' = [i \in Instruments |-> None]
  /\ said' = [i \in Instruments |-> None]
  /\ fresh' = {}
  /\ skipped' = {}
  /\ excused' = held'
  /\ UNCHANGED <<kind, sigs>>

StrategiesNext ==
  \/ \E i \in Instruments, p \in Prices : TickInBar(i, p) \/ NewBar(i, p)
  \/ \E i \in Instruments : Priced(i)
  \/ EvaluateRule \/ EvaluateAdaptive
  \/ Prompt \/ \E n \in 0 .. MaxAnswer : \E a \in [1 .. n -> Entries] : Answer(a)
  \/ Execute \/ Refuse \/ NoSignals \/ Cancelled
  \/ SaveAccount \/ Down \/ NewProcess

StrategiesSpec == StrategiesInit /\ [][StrategiesNext]_strategiesVars

-----------------------------------------------------------------------------
Rules == {"momentum", "meanrev", "adaptive"}

Reverses(a, b) ==
  \/ a = "buy" /\ b = "sell"
  \/ a = "sell" /\ b = "buy" /\ kind # "adaptive"

(* "Acting on a number that will still change turns one decision into a    *)
(* stream of contradictory ones": however the price moves and however      *)
(* often the timer fires, between two completed bars of an instrument no   *)
(* rule takes a buy back; the stateless ones do not change their mind at   *)
(* all.  (The bandit may leave one arm's position and enter another's.)    *)
OneDecisionPerBar ==
  [][\A i \in Instruments : kind \in Rules => ~ Reverses(said[i], said'[i])]_strategiesVars

(* The bandit records a position when it signals it, the account when it   *)
(* executes it.  The two disagree only about an instrument with a signal   *)
(* that was not executed, or with a position of an earlier process, and no *)
(* longer than until the next signal that is.                              *)
BooksAgree ==
  kind = "adaptive" /\ sigs = << >> /\ stage = "loop" =>
    \A i \in Instruments \ excused : (open[i] # None) = (i \in held)

(* A position is held no longer than its own arm's trend: if each closed   *)
(* bar has been evaluated, the arm's fast average is not below its slow    *)
(* one.  An exit is an edge between two bars, which an evaluation that     *)
(* comes a bar too late does not see.                                      *)
ExitNotMissed ==
  stage # "down" =>
    \A i \in Instruments :
      open[i] # None /\ i \notin fresh \cup skipped
        => Gap(Closed(bars[i]), Arms[open[i]], 0) >= 0
=============================================================================
