# Verification of the market-data pipeline

TLA+ models of the parts of `mdp` that carry its own logic, the TLC runs that
check them on small instances, and TLAPS proofs of their safety properties for every
instance. Paths below are relative to `src/`; `PROJECT.json` gives the source
lines of every definition.

## 1. The system

`cmd/mdp` is one process. An exchange socket feeds a pump, the pump feeds a bus,
and everything else is a consumer of the bus or a trader that acts on what the
consumers have computed. All goroutines share one context; the first to return
an error, a signal or `-duration` cancels it.

| part | state | operations | talks to |
|---|---|---|---|
| supervisor, venue stream (`supervise`, `venue/binance`) | connection, attempt counter | Stream, ping loop, back-off | raw channel → pump |
| normalizer, sequencer (`normalize`) | last number per instrument | Decode, Assign | called by the pump |
| pump (`cmd/mdp`) | raw-frame batch | frame, timer, stop | Publish on the bus, raw frames to SQLite |
| bus (`bus`, `bus/inproc`) | subscriptions: queue, pending map, wake flag, counters | Subscribe, Publish, Close | channels to each consumer |
| persister (`consumer/persist`) | batch, counters | tick, timer, stop | SQLite Append |
| store (`store`, `store/sqlite`) | ticks, raw frames, equity | Append, queries, prune | persister, pump, HTTP API, janitor |
| candles (`consumer/candles`) | open bar, history | Add, Recent | strategies, HTTP API |
| paper trading (`consumer/paper`) | last prices, account, state file | tick, mark, evaluate, save, restore | strategies, candles, disk |
| live trading (`consumer/live`, `broker/alpaca`) | held flags, open order | sync, buy, sell, submit, poll | Alpaca |
| strategies (`strategy`) | arms, open positions (adaptive) | Evaluate | read the engines |
| equity trader, Telegram bot | held flags, update offset | poll, order, close | Alpaca, Telegram |
| WebSocket fan-out (`api/wsapi`) | clients and their queues | serve, broadcast, add, remove | bus, browsers |
| HTTP API, registry, config, fake venue | read-only or fixed at start | — | — |

What is hard in it, and where a test hardly reaches:

* **Interleaving** of publisher, `coalesceLoop`, consumers and closers on one
  subscription, which shares state through channels, a mutex and atomics.
* **Shutdown** at any point: a blocked publisher, a half-full batch, an order in
  flight.
* **Redelivery**: the venue repeats trades after a reconnect.
* **The outside world**: orders that fill after the client has given up, answers
  that are lost, partial fills.
* **Crash and restart** around the paper state file and the live positions.
* **Rounding**, on every step of the account's arithmetic.

`PROJECT.json` lists each hazard at its line with the properties that address it.

What makes each part correct: the bus keeps per-instrument order, loses nothing
silently and cannot be stalled; the archive holds what was received; a published
bar is final and equals its definition; the live engine knows what the account
holds; the paper books balance and survive a crash; ingest outlives every
connection and no connection leaves a goroutine behind; a sell of stock does not
become a short, and no command is lost; a scan of the archive sees each row once,
and retention deletes no more than it must; a WebSocket client gets the newest
tick in order and cannot delay anyone; a strategy does not contradict itself
within a bar, agrees with its account about what is open and gets out when its
rule says so; decimal arithmetic is exact wherever the result fits.

## 2. Modules

| module | models | extends / uses |
|---|---|---|
| `Feed` | what a bus promises its consumers, abstractly | — |
| `Bus` | `bus/inproc`, the sequencer, the publishing pump, generic consumers | refines `Feed` |
| `MCBus` | subscriptions for TLC | `Bus` |
| `BusProofs` | theorems about `Bus` | `Bus`, `Lemmas` |
| `Lemmas` | facts on sequences, finite sums and powers of two that the proofs share | — |
| `LiveTradingProofs`, `EquityProofs`, `StoreProofs`, `FanoutProofs` | theorems about the module of that name | it, `Lemmas` |
| `PipelineProofs` | theorems about `Reconnect`, `Archive` and `Candles` | these, `Lemmas` |
| `TradingProofs` | theorems about `PaperTrading` and `Strategies` | these, `Lemmas` |
| `Market` | instruments and prices of the engines that trade on ticks | — |
| `Archive` | pump's raw batch, persister, SQLite appends, restart | — |
| `Decimals` | `model.Decimal`: comparison, sum, product, quotient, rescaling, and their reference | — |
| `Candles`, `MCCandles` | the candle builder and its reference definition | `Decimals` |
| `LiveTrading` | live engine, Alpaca client, the exchange (external) | — |
| `Account` | what a trading engine promises its strategy, abstractly | — |
| `PaperTrading` | paper engine, account, state file, restart | `Market`; refines `Account` |
| `Strategies`, `MCStrategies` | the four strategies and the LLM's two baselines, in an engine | `Market`; on top of `Account` |
| `Reconnect`, `MCReconnect` | supervisor, venue stream, ping goroutines, raw channel | — |
| `Equity` | equity trader and Telegram bot on one account (external) | — |
| `Store`, `MCStore` | paged reads, appends, retention passes, vacuum | — |
| `Fanout`, `MCFanout` | the WebSocket server: broadcast, handlers, readers | on top of `Feed`, refines `Feed` |

### Bus

A variable per field (`subs`, `closed`, `out`, `pending`, `wake`, `done`, the
counters), one program counter for the publisher (`pc`, `tgt`, `todo`, `rest`)
and one per `coalesceLoop` (`loop`, `carry`). A step is what happens between two
points where another goroutine can interfere, so `deliverDropOldest` is
`TrySend | OldestFull, Evict, CountEvicted, OldestRetry`, and a counter is updated a
step after the send or the eviction it counts. `Publish` takes its snapshot of the subscriptions and serves
them in any order, since the source iterates over a map. `subscription.Close` and
`Bus.Close` are `CloseSub`/`CloseBus` (under the lock) and `Shutdown` (closing
`done`, after the unlock). As in the source, every `CloseSub` deletes whatever is
registered under its handle's name, a repeated one too, and only the closing of `done`
happens once; the queue is never closed. `reclosed` records the handles whose second `Close`
found their name registered to another, and `MaxReclosed` bounds them; `MaxSubs` bounds how
many subscriptions are made. `last`, `got`, `offered` and `newest` are history too.

`Feed` says what consumers rely on: numbers per instrument grow, and each
subscriber reads a strictly increasing subsequence. `ImplementsFeed` is the
refinement.

### Archive

The subscription is seen from outside, as the `drop_oldest` queue that `Bus`
verifies. A frame is a trade id or `NoTick`. `flush` begins the persister's transaction,
`InsertRow` adds one row at a time and counts it only if the key was new, `Commit` moves
the rows into the table, and `CountWrite` adds to the counters after that; `WriteFails`
can come before any of the rows or the commit, rolls back, and empties the batch all the
same. The database has one connection, so the pump's transaction (`flushRaw`, a single
step) succeeds only while the persister's is not open. `faulted` records that a write
failed, so that `ReceivedIsKept` separates the code's own losses from the disk's. The
persister stops on `ctxDone` or on `subDone`: `SubCloses` is the deferred `Bus.Close` of a
`run` that returns early because a later component could not be wired, while its goroutines
are up. `Restart` happens at any point, with the tables surviving and an open transaction
lost. Raw-frame storage is on, the default.

`StatsTellTheTable` ties the counters to the table: `Cardinality(ticks)` is what the
process found there (`rowsAtStart`) plus `stored`, which fails if a conflict affects a row
or a row that was rolled back is counted. `LossIsCounted` and the other half of
`StatsTellTheTable` bound what is in neither the table nor the batch by the errors.

### Decimals and Candles

A decimal is an integer `u` of `Width` bits and a scale `s` of at most `MaxScale`
digits in base `Base`; the code has 64, 18 and 10. Each operation has the two paths
of the source: machine integers with the source's overflow tests (`Wrap` is two's
complement), and big integers that `fromBig` brings back digit by digit.
`ArithmeticSound` compares both with whole numbers of the smallest unit.

`Add` of the candle builder has one action per case of its switch; `open` has an
entry for an instrument once it has a bar, as the map in the source. Event times need
not grow, any earlier trade may come again, and prices and quantities are decimals
of different scales. `RangeIsRight` and `TotalIsRight` say what a bar is in terms of the
log of ticks, each trade counted once; `MatchesReference` holds the incremental builder
against them. The builder keeps no trade ids, so there is an exception, `Replayed`: a bar
that was given one of its trades again while in progress has its open, high, low and
place, but its volume, number of trades and close count the replay. The reference takes the
volume to be exact only while the sum fits.

### LiveTrading

The engine goroutine is a program counter (`ping, sync, idle, place, poll`).
The exchange is external: it accepts an order or refuses it, loses the answer,
fills by units, and ends the order in any status `terminalStatuses` names. It
refuses to sell what is not there. Signals are arbitrary, which covers every
strategy. `blind` records, as history, the instruments that were traded without
the engine's notice since it last read its balances: it states exactly when the
engine may be wrong.

### PaperTrading

The arithmetic is that of `model.Decimal` at small scales: every `FromFloat`,
`Mul` and `Rescale` rounds half away from zero where the code does. What the
model leaves out is the error of the `float64` quotient before the rounding.
`save` is two steps, write and rename, with a crash possible in between; a state
file that cannot be read starts a new account, as in `restore`.

`Account` is the engine as a strategy sees it: one position per instrument, bought
and sold whole, and after a restart the positions saved last, or none.
`ImplementsAccount` is the refinement, with `held` the instruments that have a
position and `saved` those of the state file. Marks and failed saves stutter.

### Strategies

A bar is its close, the last one in progress, and the builder adds to it at any
time, as it does in the program. One evaluation is one action for the rules
(`EvaluateRule`, `EvaluateAdaptive`) and two for the LLM, whose request lies between
`Prompt` and `Answer`; the answer is any sequence of entries, and `parseSignals`
drops what the code drops. The averages are compared by their numerators and the
z-score by its square, so the rules are exact where the code uses `float64`. The
engine applies the signals one after the other, and each is executed or not; the
account is `Account`. `fresh` and `skipped` record, as history, that a bar closed
without an evaluation, `excused` that a signal was not executed.

### Reconnect

`Stream` runs in the supervisor's goroutine, so `at` is the program counter of
both; each call of `Stream` has its own socket, ping goroutine and error channel,
and the ping goroutine of an abandoned connection may still be there when the
next is up. Time is a clock that the back-off is measured with; the ping and read
deadlines may pass at any moment. Jitter is in tenths of the delay. The
WebSocket library is external: a ping waits for a pong that only a concurrent
read takes off the socket.

### Equity

Both traders run the same `PlaceEquityOrder` (place, poll for at most 30 seconds),
each with its own program counter, and know of each other what `Positions`
reports. Between the check of a position and the order there is a step, as there
is a request in the code. A stock order is executed as a whole or not at all;
a bracket leaves an exit order. Telegram keeps an update until a later
`getUpdates` confirms it, and the call may fail on either side of that.

### Store

A retention pass is one action per SQL statement, any of which may fail, with
appends and page reads in between. `raw[t]` is how many raw frames of time `t` the
file holds: nothing tells two of them apart. Sizes are in pages: a row takes one, a
deletion leaves it in the file, a vacuum returns it, unless the file is an old one
(`vacuums` false). `base` is history: the rows that have been there since the
scan began.

### Fanout

`Run` reads `Feed`, which the bus implements, and `broadcast` takes its snapshot in
`Receive`, serves it in any order, and per client goes through `TrySend | FindFull,
Evict, Retry` while handlers read the same queues. A handler is `life[c]`, with the
write, the ping and the deferred calls as steps; the reader goroutine ends when the
peer hangs up or its context is done. The socket takes or refuses a frame at any time;
only a peer that reads answers a ping. `ClientsAreFed` is a second instance of `Feed`,
now with the clients as subscribers: what the bus promises the server the server
promises its clients.

## 3. Runs

| run | shows | bounds |
|---|---|---|
| `bus_single` | any one of the four policies: types, order, what the policy keeps, accounting, refinement of `Feed` | depth 1 or 2, 2 instruments, 2 ticks each, frames of 2 |
| `bus_live` | a coalescing and a blocking subscription of one name: none forgotten unless a `Close` was repeated, no lost wake-up, the publisher is never stalled, loops end, the newest tick arrives | 2 ticks, depth 1, one handle closed again |
| `archive` | received ticks and raw frames are kept, the counters tell the table and the losses, no stranded batch | 3 trades, 4 frames, batches of 2, queue of 2, 2 runs |
| `candles` | reference, finality; `ArithmeticSound`, as an assumption that TLC evaluates | 4 ticks, 3 buckets, history 1; 7-bit decimals in base 4 with 2 digits, every pair |
| `live` | final fills, exact belief | 3 orders of 2 units, 2 runs |
| `paper` | balance, state file, refinement of `Account` | 3 ticks, 3 trades, 2 runs |
| `reconnect` | back-off holds, ingest survives, the diagnosis wins, no goroutine leaks | 3 connections, clock to 8, with and without `MaxAttempts`, with and without pings |
| `equity` | shorts only by a race, no command skipped, none executed twice in a run, all answered | 2 commands, 2 accepted orders and their exits, 2 runs |
| `store` | scans in order and complete, the size cap costs no more history than it must | 4 trades on 2 days, 1 raw frame, pages of 1 and 2 rows, 2 rounds |
| `fanout` | each client is a feed that ends with the newest tick; nobody delays a broadcast, is kicked, or is remembered when gone | 2 clients, queue of 1, 2 ticks |
| `strategies` | no contradiction within a bar, books that agree, exits not missed | each of 6 strategies, 3 prices, arms 1/2 and 2/3, momentum 1/3, window 5, answers of 2 |

The bounds let each case happen: queues of depth 1 and 2 overflow with the ticks of
two instruments, every interleaving of one subscription with the publisher and a closer is
in these graphs, and two subscriptions suffice for one to hold up the other. The
history of the candle builder overflows with three buckets. Two units per order
make partial fills, and two runs a restart. Three connections make a short run
after a healthy one and a leftover ping goroutine beside a new connection; the
delays reach their cap at the second retry. Two commands make a batch of two, and
two orders one by each trader. `PruneToSize` has two rounds where the code has 400,
so both the loop's exits are taken; the store's passes and restarts need no bound.
In `bus_live` two ticks fill a queue of depth 1, and the second waits in the pending
map or in a blocked publisher. Its liveness is about the two policies that wait or
hand over to a goroutine; the steps of the two that drop never wait. Two ticks
overflow a client's queue of 1, two clients make one broadcast serve one while the
other leaves, and a client may join and leave within a snapshot. Three prices make
every order of two averages, equality included; the two arms cross at different bars;
the strategies' state is bounded by the bars they read, so their run has no bound on
bars, evaluations, signals or restarts. Seven bits overflow in every fast path and
fall by one digit, by two, and to saturation; base 4 is even, which is all that
rounding halves needs of 10.
`LatestArrives` is about a stream of `MaxSeq` ticks: every finite burst has a last
tick, and it arrives.

In `archive` four frames are three trades and one that is repeated within a batch, in
the next, or after the restart, and they overflow the queue of a persister that is writing.

One run is expected to fail: `live_duplicate` states a sentence of the repository
that the code does not keep, that `ClientID` prevents duplicate positions; each
signal draws a new id (`findings` in `PROJECT.json` quotes it).

The models show other places where code and comment differ, without a run of
their own:

* `bus.go` says `Close` unsubscribes, and that shutdown is signalled on `Done`. A handle's
  second `Close` removes whoever has its name by then (`CloseSub`), and that subscription is
  neither served nor told, not even by `Bus.Close`. No caller in the repository closes a
  handle twice, so this is a trap in the interface and not a failure of today's program.
  `NoOrphan` states that it is the only way to lose a subscription.
* `DESIGN.md` and `bus.go` require consumers to be idempotent ("Retrofitting idempotency
  into a stateful aggregator is a rewrite"), and `store.go` expects a reconnect to replay
  trades. The persister is idempotent; the candle builder keeps no trade ids and adds a
  replayed trade to the bar in progress again. `MatchesReference` counts each trade once
  and states that the close, volume and number of trades of such a bar are all that is wrong.
* `bus.go` bounds a coalescing queue by the number of instruments; superseded
  ticks can fill the channel to its capacity.
* `broker.go` says `ErrRejected` means refused; an order canceled after a partial
  fill is reported so too (`ToFillRejects`), and `blind` has to allow for it.
* `paper/engine.go` says latency makes fills use a price the strategy did not see;
  the goroutine that waits is the one that receives prices (`Apply`).
* It also says a restart does not discard the result; a state file that cannot be
  read is overwritten by the next save (`Restart`, `SaveRenames`).
* `paper.go` keeps the cost of a position as a price per coin of 8 decimals; for more than
  10^6 coins that does not give back what was paid (`SmallPositions` in section 4).
* `bot.go` says the bot never opens a short; the position it checked may be gone
  when its order arrives. `ShortOnlyByRace` states that this is the only way.
* `store.go` says paging skips no row; across instruments it may skip one whose
  event time and trade id another row shares. `ScanExact` states that this is the
  only way.
* A vacuum that fails, or a shutdown before it, makes the next pass delete one
  day more than the cap asks for; `SizeCostsNoMore` states that these, and a file
  older than incremental vacuum, are the only ways.
* After a restart the bot repeats the commands of the batch it had not confirmed.
* `persist.go` says the persister must not drop; a failed `Append` loses its batch,
  which `flush` empties all the same. `ReceivedIsKept` excepts those (`faulted`), and
  `LossIsCounted` says how much an error may stand for.
* `wsapi.go` says an unresponsive client is kicked; after an eviction there is always
  room, so nobody ever is (`NobodyKicked`), and it is the ping or the write deadline
  that ends it. Its queue is said to conflate; it drops the oldest tick of whatever
  instrument, so a burst of one can push out the only tick of another.
* `momentum.go` excludes the bar in progress by dropping the last one; the equity
  engine hands over complete bars only, and so acts a bar late.
* An exit of the adaptive strategy is an edge between two bars. An evaluation that
  comes after two bars have closed does not see it, and the position stays until the
  next one (`skipped` in `ExitNotMissed`).
* `adaptive.go` scores realized returns; a position whose fill was refused is scored
  too, and as the baseline of an LLM the strategy keeps positions that nobody holds.
* `llm.go` says that anything unrecognized becomes a hold; a strength outside `0..1`
  becomes 1.
* `decimal_math.go` says a result is reduced rounding half away from zero; `fromBig`
  rounds at each digit it drops, so the last digit may be one off (`StandsFor`). A sum
  can be the smallest integer, which `Neg` cannot negate (`Operands` leaves it out).
* `Recent` of the candle builder returns one bar more than its limit when there is a
  bar in progress.

Deadlock checking is off in every run: all models stop when their bounds are
used up, and the pipeline itself may fall quiet. That nothing waits for ever is
stated as liveness instead.

**Fairness.** `Bus`: weak fairness of the publisher, of each loop and of the
second half of a `Close`, which are goroutines that the Go scheduler runs; none
of consumers, except as the hypothesis of `LatestArrives`, which is about a
consumer that keeps reading. `Archive`: the persister, whose select includes a
ticker. `Reconnect`: the ping goroutines, and that one whose context is done is not for ever
beaten by its own ticker; none of the peer. `Equity`: the bot's goroutine, with
Telegram answering some calls and the 30-second window of `awaitFill` ending; none
of the account. It takes the HTTP calls to return, which their client's own timeout
sees to. `Fanout`: the broadcast, each handler, whose deadlines and ping timer end
every wait, and each reader; none of the peers or the pipeline.

## 4. Proofs

Each theorem is proved for every value of the constants: any number of handles,
clients, orders, messages or rows, any policy, capacity, batch and page size. All that
is assumed of them is the `ASSUME` of the component's module, which TLC evaluates on
the instances of the runs. Every inductive invariant was checked by TLC on the
component's run before it was proved.

**Bus** (`BusProofs`)

* `TypeCorrect`: `Spec => []TypeOK`. Queue capacities are part of it; the typing
  of the publisher's local state (`TypeInv`) makes it inductive.
* `OrderCorrect`: `Spec => []InOrder`. `InOrder` is not inductive: it does not say
  where the tick in the publisher's hand stands. `OrderInv` adds that every
  subscription's line (read, queued, carried, pending) is increasing (`Lines`),
  that the ticks still to be delivered come after the whole line of their target
  (`InHandOnTop`), and that nothing offered is newer than what was numbered
  (`Offers`). Lemmas on `Ordered`, `After`, `UpTo` and `Later` say what `Append`
  and `Tail` do to them.
* `FeedRefinement`: `Spec => ImplementsFeed`, from `OrderInv`: a `Consume` step is
  a read of a later tick, an `Assign` step the feed's, all others stutter.
* `WakeCorrect`: `Spec => []NoLostWake`.
* `RegistryCorrect`: `Spec => []NoOrphan`, from `Registry`: what is registered or
  closing was made, nothing registered has been shut down, registered names differ, and
  what is neither registered nor shut down or about to be shares its name with a handle in
  `reclosed` (`CutOff`). `Close` is unguarded, as in the source: that a first `Close`
  removes its own subscription, or none, follows from the names that differ; what a second
  one removes is the exception the theorem states.
* `CountsCorrect`: `Spec => []NothingVanishes`. Every step moves one tick from one term
  of the sums to another (`CountPublish`, `CountLoop`, `CountConsume`). Beside `OrderInv`
  it needs that the pending ticks are finitely many even when the instruments are not,
  and that the publisher evicts under `drop_oldest` only.
* `PolicyCorrect`: `Spec => []PolicyKept`, from `PolicyInv`. That a queue has no gap rests
  on the supply (`Supply`): a frame numbers an instrument's ticks consecutively, and what
  is still due to a subscription, in the batch, in the snapshot or in `todo`, follows
  on the newest it was offered, also for one that is being closed under the publisher.
  Then the queue of each instrument is an interval (`Runs`), from the number after the one
  read last, under `block`, up to the newest that has been sent; and under `coalesce` the
  newest tick is in one of five places (`Survives`). `Matches`, `EvictsOldest` and
  `WaitsBlock` say what the publisher has in hand and for which policy.

**Fanout** (`FanoutProofs`)

* `NobodyKickedHolds`: only broadcast adds to a queue, so the room its eviction makes
  is still there when it tries again.
* `NewestWaitsHolds`: the queue of a client is the end of what there was for it; the
  invariant follows the message broadcast still has in hand.
* `ClientsAreFedHolds`: `Spec => ClientsAreFed`, the refinement of `Feed` by every
  client, from the order of subscription, message in hand, queue and last write.

**LiveTrading** (`LiveTradingProofs`): `FillsAreFinalHolds`, with the types and the soundness
of single orders; `BeliefIsExactHolds`, from `BeliefInv`, which says while an order is
placed and polled how the position is made up of its fills, and `Covered`: what the open
sell orders claim is in the position.

**Equity** (`EquityProofs`): `NothingSkippedHolds` and `OnceARunHolds`, from `BotInv`: a batch
is the consecutive updates after the last one handled, everything before is done, and
nothing beyond it has been acted on. `ShortOnlyByRaceHolds`, from `DeskInv`, a sell is of
no more than was seen, and `Covered`, as above unless a trader has raced.

**Store** (`StoreProofs`): `ScanExactHolds`, from `ScanInv`: every row of `base` has been
given or comes after the cursor, and none that has been given does.
`SizeCostsNoMoreHolds`, an action property, from `SizeInv`: unless a vacuum was missed the
file has no more pages than rows and rows just deleted, and where a pass is about to
delete a day the rows are over the cap.

**Reconnect, Archive, Candles** (`PipelineProofs`)

* `NoHammeringHolds`, from `PaceInv`: between any two dials the back-off grew at every
  attempt and its delays have been waited for, or there was a healthy run (`Paced`); it
  needs that `2^n` grows (`PowerGrows`).
* `IngestSurvivesHolds`; `DiagnosisWinsHolds`, from `PingInv`: which ping goroutine has
  closed which connection, and what it left in the channel first.
* `ReceivedIsKeptHolds`, `StatsTellTheTableHolds` and `LossIsCountedHolds`, from
  `KeptInv`. It adds how far the open transaction has come (`WriteInv`): its rows are as
  many as it counts and none is in the table yet, so the commit adds exactly that many
  (`CommitKept`), and each tick of the batch is in the table, in the transaction or still
  to come, so nothing is passed over. A failed write loses the ticks of one batch, of which
  there are no more than `BatchSize` (`FailureKept`).
* `PublishedBarsAreFinalHolds`: `CandlesSpec => PublishedBarsAreFinal`, an action
  property, from `BarsInv`: the history of an instrument is in the strict order of its
  bars' times and all of it older than the bar in progress. That a late tick opens no bar
  a second time is this, not a check of the builder. Prices and volumes play no part, so
  nothing is needed of the decimals.

**PaperTrading** (`TradingProofs`)

* `PaperTypeCorrect`: `Spec => []TypeOK`, with cash a natural number. `Affordable` compares
  after fee and rounding; that a sale never costs money rests on a fee of at most the
  whole notional (`RoundFee`), that equity is positive on `peak`.
* `StateFileIsWholeHolds`, from `FileInv`: between write and rename the temporary file is
  the book that is being saved.
* `BooksBalanceHolds`: `Spec /\ []SmallPositions => []BooksBalance`. A position's cost is
  kept as a price per coin, rounded, and multiplied back when it is sold. `RoundTrip` says
  that this gives what was paid exactly if the position is of at most `PriceUnit` whole
  coins, since then half a price unit per coin is at most half a money unit. With 8
  decimals for prices and 2 for money that is 10^6 coins. The hypothesis is about the
  market and not about the code: for a coin at a fraction of a cent it may fail, and then
  the books are off by the rounding. `SmallPositions` holds in every state of the `paper` run.
* `AccountRefinement`: `Spec => ImplementsAccount`, from `FileInv`: a fill is a `Buy` or a
  `Sell`, the rename a `Save`, a new process a `Resume`, all others stutter.

**Strategies** (`TradingProofs`)

* `OneDecisionPerBarHolds`, an action property, from `SaidInv`: what was said of an
  instrument is what its closed bars still say, and a position the bandit has just bought
  is above its arm's cross, so that no exit can be due.
* `ExitNotMissedHolds`, from `ExitInv`: the gap between an arm's averages was not negative
  at the last bar that was evaluated (one bar ago if a bar has closed since), and there are
  bars enough to compute it. `WindowMoves` says that a new bar, with the oldest dropped or
  not, turns the gap of now into the gap of one bar ago.
* `BooksAgreeHolds`, from `AgreeInv`: there is at most one signal per instrument still to be
  applied, it is a buy exactly if the bandit has the position on record, and an instrument
  without one and not `excused` is held exactly if it is on record.

The provers do no induction over data. Where a sum is needed it is
`SumFunctionOnSet` of the community modules, whose recursion `Lemmas` takes apart once:
a set of finite subsets closed under adding an element is all of them
(`MinimalSubset`, by the library's theorem on finite subsets), so a sum exists, is unique,
and loses one term when its set loses one element (`SumRemove`). The models state
`Claimed`, `Promised`, `Rows`, `Quickest`, the value of the paper positions and the
moving averages as such sums.

Only model-checked:

* liveness and everything under fairness (`NeverStalled`, `LoopEnds`, `LatestArrives` and
  the like), which the prover does not reach;
* `MatchesReference` of `Candles` and `ArithmeticSound`: what a recursive definition
  computes, for the small width only.

## 5. Plan

1. *Done:* `Bus`, its abstract specification, liveness and proofs; `Archive`;
   `Candles` on `Decimals`; `LiveTrading`; `PaperTrading` as an implementation of
   `Account`; `Strategies` on `Account`; `Reconnect`; `Equity`; `Store`; `Fanout` on
   `Feed`; the proofs of section 4.
2. `Archive` composed with `Store`; `LiveTrading` and `Equity` as implementations of
   `Account` outside `blind` and `raced`.

## 6. Not modelled

The HTTP API and dashboard, which only read; the instrument registry, filled once
before anything runs concurrently; the fake venue, a development tool; configuration,
flags and logging; JSON decoding, the Telegram command grammar, the text of LLM
prompts; the equity history. Of the decimals, parsing, printing and the conversions
from and to `float64`; of the strategies, the scores that only weigh a choice any arm
may win. Metrics that nothing reads back (`HighWater`, `BlockedNanos`, the number of
connected clients, failure counts) are left out of the modules.
