------------------------------ MODULE Archive -------------------------------
(***************************************************************************)
(* The path from the venue socket to SQLite: the pump's raw-frame batch,   *)
(* the persister's subscription and batch, and the two append              *)
(* transactions, with failing writes, graceful shutdown and crashes.       *)
(*                                                                         *)
(* A frame is the venue's trade id, or a frame that carries no tick.  The  *)
(* subscription is the drop_oldest queue of module Bus, seen from outside: *)
(* a full queue loses its head.  The counters are those of persist.Stats,  *)
(* which nothing but Stats reads: those of one write are added in one step *)
(* after it.  The database has one connection (sqlite.go, SetMaxOpenConns),*)
(* so that the pump's transaction, which is a single step, waits for the   *)
(* end of the persister's, which is one step per row.                      *)
(***************************************************************************)
EXTENDS Naturals, Sequences, FiniteSets, SequencesExt

CONSTANTS
  MaxTrade,   (* bound: trades the venue executes, numbered by trade id *)
  MaxFrames,  (* bound: frames the venue sends                          *)
  MaxRuns,    (* bound: times the process is started                    *)
  QueueCap,   (* capacity of the persist subscription                   *)
  BatchSize,  (* persist.Config.BatchSize                               *)
  RawBatch    (* frames per raw-frame transaction                       *)

ASSUME ArchiveAssumption ==
  /\ MaxTrade \in Nat /\ MaxFrames \in Nat /\ MaxRuns \in Nat
  /\ QueueCap \in Nat \ {0} /\ BatchSize \in Nat \ {0} /\ RawBatch \in Nat \ {0}

Trades == 1 .. MaxTrade

(* A subscription ack, or a frame the decoder rejects: stored raw only. *)
NoTick == 0
Frames == Trades \cup {NoTick}

VARIABLES
  traded,     (* the venue's last trade id                              *)
  sent,       (* frames it has sent                                     *)
  runs,       (* times the process has been started                     *)
  ctxDone,    (* the run context is done                                *)
  pump,       (* the pump goroutine: "on" or "off"                      *)
  subDone,    (* the persist subscription is shut down                  *)
  persister,  (* where the persister goroutine is                       *)
  rawBatch,   (* frames waiting for the raw-frame transaction           *)
  queue,      (* the persist subscription                               *)
  batch,      (* ticks waiting for the next flush, or being written     *)
  after,      (* where the persister goes when the write is over        *)
  todo,       (* ticks Append has still to insert                       *)
  inserted,   (* rows of the open transaction                           *)
  affected,   (* Append's stored: the sum of RowsAffected               *)
  ticks,      (* the ticks table, by its primary key                    *)
  raws,       (* frames in the raw_frames table                         *)
  received, stored, duplicate, errors,  (* persist.Stats, of this run   *)
  (* History of this run. *)
  seenRaw,    (* frames the pump has read                               *)
  taken,      (* ticks the persister has received                       *)
  rowsAtStart, (* rows of the ticks table when the process started      *)
  faulted     (* a write has failed for a reason of its own             *)

venueVars == <<traded, sent>>
runVars  == <<runs, ctxDone, subDone>>
pumpVars == <<pump, rawBatch, raws, seenRaw>>
txVars   == <<after, todo, inserted, affected>>
statVars == <<received, stored, duplicate, errors>>
persistVars == <<persister, batch, txVars, ticks, statVars, taken, rowsAtStart>>
archiveVars == <<venueVars, runVars, queue, pumpVars, persistVars, faulted>>

PersisterStates == {"select", "insert", "count", "off"}

(* Everything a fresh process starts with; the tables are on disk, and an  *)
(* open transaction is not in them.                                        *)
Fresh ==
  /\ ctxDone' = FALSE /\ subDone' = FALSE /\ pump' = "on" /\ persister' = "select"
  /\ rawBatch' = << >> /\ queue' = << >> /\ batch' = << >>
  /\ after' = "select" /\ todo' = << >> /\ inserted' = {} /\ affected' = 0
  /\ received' = 0 /\ stored' = 0 /\ duplicate' = 0 /\ errors' = 0
  /\ seenRaw' = {} /\ taken' = {} /\ rowsAtStart' = Cardinality(ticks)
  /\ faulted' = FALSE

ArchiveInit ==
  /\ traded = 0 /\ sent = 0 /\ runs = 1 /\ ctxDone = FALSE /\ subDone = FALSE
  /\ pump = "on" /\ persister = "select"
  /\ rawBatch = << >> /\ queue = << >> /\ batch = << >>
  /\ after = "select" /\ todo = << >> /\ inserted = {} /\ affected = 0
  /\ ticks = {} /\ raws = {}
  /\ received = 0 /\ stored = 0 /\ duplicate = 0 /\ errors = 0
  /\ seenRaw = {} /\ taken = {} /\ rowsAtStart = 0 /\ faulted = FALSE

-----------------------------------------------------------------------------
(* The pump. *)

(* Mutant: the transaction is begun with the pump's own context. *)
flushRawWithCtx(frames) ==
  /\ persister # "insert"
  /\ raws' = IF ctxDone THEN raws ELSE raws \cup ToSet(frames)
  /\ rawBatch' = << >>
  /\ UNCHANGED faulted

(* flushRaw: one AppendRawBatch transaction with its own deadline, logged  *)
(* and forgotten if it fails; the batch is emptied either way.  To succeed *)
(* it needs the connection.                                                *)
flushRaw(frames) ==
  /\ rawBatch' = << >>
  /\ \/ /\ persister # "insert"
        /\ raws' = raws \cup ToSet(frames)
        /\ UNCHANGED faulted
     \/ faulted' = TRUE /\ UNCHANGED raws

(* Publish to the drop_oldest subscription of the persister, while the bus *)
(* has it.                                                                 *)
PublishTo(q, t) ==
  IF subDone THEN q
  ELSE IF Len(q) < QueueCap THEN Append(q, t) ELSE Append(Tail(q), t)

(* One frame off the raw channel: batched, decoded, and published if it    *)
(* holds a trade.  A trade is new, or one the venue sends again after a    *)
(* reconnect.                                                              *)
PumpFrame(f) ==
  /\ pump = "on"
  /\ sent < MaxFrames
  /\ sent' = sent + 1
  /\ \/ f = NoTick /\ UNCHANGED traded
     \/ f = traded /\ f > 0 /\ UNCHANGED traded
     \/ f = traded + 1 /\ traded' = f
  /\ LET frames == Append(rawBatch, f) IN
       IF Len(frames) >= RawBatch
         THEN flushRaw(frames)
         ELSE rawBatch' = frames /\ UNCHANGED <<raws, faulted>>
  /\ queue' = IF f = NoTick THEN queue ELSE PublishTo(queue, f)
  /\ seenRaw' = seenRaw \cup {f}
  /\ UNCHANGED <<runVars, pump, persistVars>>

(* rawTicker. *)
PumpInterval ==
  /\ pump = "on"
  /\ rawBatch # << >>
  /\ flushRaw(rawBatch)
  /\ UNCHANGED <<venueVars, runVars, queue, pump, seenRaw, persistVars>>

(* ctx.Done, and the deferred flushRaw. *)
PumpStops ==
  /\ pump = "on"
  /\ ctxDone
  /\ pump' = "off"
  /\ \/ rawBatch # << >> /\ flushRaw(rawBatch)
     \/ rawBatch = << >> /\ UNCHANGED <<rawBatch, raws, faulted>>
  /\ UNCHANGED <<venueVars, runVars, queue, seenRaw, persistVars>>

-----------------------------------------------------------------------------
(* The persister. *)

(* Mutant: the final write is made with the cancelled context, and fails. *)
flushWithCtx(b, then) ==
  IF b # << >> /\ ctxDone
    THEN /\ persister' = then /\ batch' = << >>
         /\ errors' = errors + 1
         /\ UNCHANGED txVars
    ELSE /\ batch' = b
         /\ persister' = IF b = << >> THEN then ELSE "insert"
         /\ after' = then /\ todo' = b /\ inserted' = {} /\ affected' = 0
         /\ UNCHANGED errors

(* Mutant: a partial batch is not written. *)
flushFullOnly(b, then) ==
  /\ batch' = b
  /\ persister' = IF Len(b) < BatchSize THEN then ELSE "insert"
  /\ after' = then /\ todo' = b /\ inserted' = {} /\ affected' = 0
  /\ UNCHANGED errors

(* flush, up to Append's BeginTx, with a deadline of its own instead of    *)
(* ctx; nothing to do for an empty batch.  The persister goes on at then.  *)
flush(b, then) ==
  /\ batch' = b
  /\ persister' = IF b = << >> THEN then ELSE "insert"
  /\ after' = then /\ todo' = b /\ inserted' = {} /\ affected' = 0
  /\ UNCHANGED errors

PersistTick ==
  /\ persister = "select"
  /\ queue # << >>
  /\ queue' = Tail(queue)
  /\ received' = received + 1
  /\ taken' = taken \cup {Head(queue)}
  /\ LET b == Append(batch, Head(queue)) IN
       IF Len(b) >= BatchSize
         THEN flush(b, "select")
         ELSE batch' = b /\ UNCHANGED <<persister, txVars, errors>>
  /\ UNCHANGED <<venueVars, runVars, pumpVars, ticks, stored, duplicate,
                 rowsAtStart, faulted>>

(* The flush ticker. *)
PersistInterval ==
  /\ persister = "select"
  /\ batch # << >>
  /\ flush(batch, "select")
  /\ UNCHANGED <<venueVars, runVars, queue, pumpVars, ticks, received, stored,
                 duplicate, taken, rowsAtStart, faulted>>

(* ctx.Done, or the subscription's Done: the batch is flushed, the queue   *)
(* is left.                                                                *)
PersistStops ==
  /\ persister = "select"
  /\ ctxDone \/ subDone
  /\ flush(batch, "off")
  /\ UNCHANGED <<venueVars, runVars, queue, pumpVars, ticks, received, stored,
                 duplicate, taken, rowsAtStart, faulted>>

(* Mutant: a row that cannot be inserted is passed over. *)
InsertRowSkips ==
  /\ persister = "insert"
  /\ todo # << >>
  /\ todo' = Tail(todo)
  /\ \/ Head(todo) \in ticks \cup inserted /\ UNCHANGED <<inserted, affected>>
     \/ /\ inserted' = inserted \cup ({Head(todo)} \ ticks)
        /\ affected' = Cardinality(inserted')
     \/ UNCHANGED <<inserted, affected>>
  /\ UNCHANGED <<venueVars, runVars, queue, pumpVars, persister, batch, after,
                 ticks, statVars, taken, rowsAtStart, faulted>>

(* Mutant: ON CONFLICT DO UPDATE, which affects the row it finds. *)
InsertRowUpserts ==
  /\ persister = "insert"
  /\ todo # << >>
  /\ todo' = Tail(todo)
  /\ inserted' = inserted \cup ({Head(todo)} \ ticks)
  /\ affected' = affected + 1
  /\ UNCHANGED <<venueVars, runVars, queue, pumpVars, persister, batch, after,
                 ticks, statVars, taken, rowsAtStart, faulted>>

(* Append, one row: ON CONFLICT DO NOTHING, so that a trade the table or   *)
(* this transaction has already affects no row.                            *)
InsertRow ==
  /\ persister = "insert"
  /\ todo # << >>
  /\ todo' = Tail(todo)
  /\ LET new == {Head(todo)} \ (ticks \cup inserted) IN
       /\ inserted' = inserted \cup new
       /\ affected' = affected + Cardinality(new)
  /\ UNCHANGED <<venueVars, runVars, queue, pumpVars, persister, batch, after,
                 ticks, statVars, taken, rowsAtStart, faulted>>

Commit ==
  /\ persister = "insert"
  /\ todo = << >>
  /\ ticks' = ticks \cup inserted
  /\ inserted' = {}
  /\ persister' = "count"
  /\ UNCHANGED <<venueVars, runVars, queue, pumpVars, batch, after, todo, affected,
                 statVars, taken, rowsAtStart, faulted>>

(* The end of flush, after a write that committed: the batch is emptied.   *)
CountWrite ==
  /\ persister = "count"
  /\ stored' = stored + affected
  /\ duplicate' = duplicate + (Len(batch) - affected)
  /\ batch' = << >> /\ affected' = 0
  /\ persister' = after
  /\ UNCHANGED <<venueVars, runVars, queue, pumpVars, after, todo, inserted, ticks,
                 received, errors, taken, rowsAtStart, faulted>>

(* Mutant: the rows inserted up to the failure are counted ("return        *)
(* stored, err"), although they have been rolled back.                     *)
WriteFailsCountsRows ==
  /\ persister = "insert"
  /\ errors' = errors + 1
  /\ stored' = stored + affected
  /\ faulted' = TRUE
  /\ batch' = << >> /\ todo' = << >> /\ inserted' = {} /\ affected' = 0
  /\ persister' = after
  /\ UNCHANGED <<venueVars, runVars, queue, pumpVars, after, ticks, received, duplicate,
                 taken, rowsAtStart>>

(* Begin, a row or the commit fails: rolled back, an error counted, and    *)
(* the batch emptied all the same.                                         *)
WriteFails ==
  /\ persister = "insert"
  /\ errors' = errors + 1
  /\ faulted' = TRUE
  /\ batch' = << >> /\ todo' = << >> /\ inserted' = {} /\ affected' = 0
  /\ persister' = after
  /\ UNCHANGED <<venueVars, runVars, queue, pumpVars, after, ticks, received, stored,
                 duplicate, taken, rowsAtStart>>

-----------------------------------------------------------------------------
CancelRun ==
  /\ ~ctxDone
  /\ ctxDone' = TRUE
  /\ UNCHANGED <<venueVars, runs, subDone, queue, pumpVars, persistVars, faulted>>

(* Bus.Close: run has failed to wire a later component, and returns with   *)
(* its goroutines up and ctx as it was.                                    *)
SubCloses ==
  /\ ~subDone
  /\ subDone' = TRUE
  /\ UNCHANGED <<venueVars, runs, ctxDone, queue, pumpVars, persistVars, faulted>>

(* The process dies, or has returned from g.Wait, and is started again.    *)
Restart ==
  /\ runs < MaxRuns
  /\ runs' = runs + 1
  /\ Fresh
  /\ UNCHANGED <<venueVars, ticks, raws>>

PersistStep ==
  \/ PersistTick \/ PersistInterval \/ PersistStops
  \/ InsertRow \/ Commit \/ CountWrite \/ WriteFails

ArchiveNext ==
  \/ \E f \in Frames : PumpFrame(f)
  \/ PumpInterval \/ PumpStops
  \/ PersistStep
  \/ CancelRun \/ SubCloses \/ Restart

(* The flush ticker fires again and again, and the goroutine is scheduled; *)
(* a write ends, for it has a deadline.                                    *)
ArchiveFairness == WF_archiveVars(PersistStep)

ArchiveSpec == ArchiveInit /\ [][ArchiveNext]_archiveVars
ArchiveFairSpec == ArchiveSpec /\ ArchiveFairness

-----------------------------------------------------------------------------
(* What the persister has received is in the table or in its batch, and    *)
(* one that has stopped holds nothing.                                     *)
TicksKept ==
  /\ taken \subseteq ticks \cup ToSet(batch)
  /\ persister = "off" => taken \subseteq ticks

(* Every frame the pump has read, decodable or not, is in the table or     *)
(* about to be ("the cheapest insurance in the system"), and a pump that   *)
(* has returned leaves none behind.                                        *)
RawFramesKept == seenRaw \subseteq raws \cup (IF pump = "on" THEN ToSet(rawBatch) ELSE {})

(* While the disk takes every write, nothing that was received is lost, by *)
(* the persister or the pump: shutdown discards none of it ("a cancelled   *)
(* context must still be able to write the final batch").                  *)
ReceivedIsKept == ~faulted => TicksKept /\ RawFramesKept

(* The counters tell what is in the table: stored is the rows this process *)
(* has added, whatever was repeated within a batch, across batches or by   *)
(* an earlier process, and whatever was rolled back; and what is neither   *)
(* stored nor a duplicate nor in the batch went with failed writes, a      *)
(* batch at most with each.                                                *)
StatsTellTheTable ==
  /\ Cardinality(ticks) =
       rowsAtStart + stored + (IF persister = "count" THEN affected ELSE 0)
  /\ \E lost \in errors .. (errors * BatchSize) :
       received = stored + duplicate + Len(batch) + lost

(* "The one thing worse than a slow archive is a silently incomplete one": *)
(* a received trade that is neither in the table nor in the batch has gone *)
(* with a write that was counted as an error, at most BatchSize with each. *)
LossIsCounted ==
  Cardinality(taken \ (ticks \cup ToSet(batch))) <= errors * BatchSize

(* "A quiet instrument's last trade is not stranded in memory": a batch   *)
(* that never fills up is written all the same (ReceivedIsKept says where  *)
(* its ticks are then), in every run of the process, also while it stops.  *)
NotStranded == batch # << >> ~> batch = << >>
=============================================================================
