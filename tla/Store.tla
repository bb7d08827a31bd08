------------------------------- MODULE Store --------------------------------
(***************************************************************************)
(* The archive while it is read, written and pruned: DB.Ticks page by page *)
(* (internal/store/sqlite), the persister's Append, and the retention      *)
(* janitor (internal/store/janitor.go), whose passes are several           *)
(* statements with appends and page reads in between.                      *)
(*                                                                         *)
(* A trade id is its rank among the ids, which the ORDER BY and the cursor *)
(* both compare as text.  SQLite is external: a row takes one page, a      *)
(* deleted row's page stays in the file until a vacuum, and an insert uses *)
(* free pages first.  One client pages through one scan at a time.         *)
(***************************************************************************)
EXTENDS Integers, Sequences, FiniteSets, FiniteSetsExt, Functions

CONSTANTS
  Trades,        (* the trades: records of inst, id and time               *)
  Configs,       (* RetentionConfigs: records of Ticks, Raw and MaxBytes   *)
  Queries,       (* records of inst, start, end, desc and limit            *)
  DayLength,
  DefaultLimit, MaxLimit,
  MaxRounds,     (* rounds of PruneToSize, 400 in the code                 *)
  MaxFrames,     (* bound: raw frames in the table                         *)
  MaxTime,       (* bound: the clock                                       *)
  None           (* no instrument filter, no scan, no cursor               *)

ASSUME StoreAssumption ==
  /\ \A t \in Trades : t.id \in Nat /\ t.time \in Nat
  /\ \A t, u \in Trades : t.inst = u.inst /\ t.id = u.id => t = u
  /\ \A c \in Configs : {c.Ticks, c.Raw, c.MaxBytes} \subseteq Nat
  /\ \A q \in Queries : {q.start, q.end, q.limit} \subseteq Nat /\ q.desc \in BOOLEAN
  /\ DayLength \in Nat \ {0} /\ MaxLimit \in Nat /\ DefaultLimit \in 1 .. MaxLimit
  /\ {MaxRounds, MaxFrames, MaxTime} \subseteq Nat
  /\ None \notin Queries \cup [time : Nat, id : Nat]

VARIABLES
  now,
  ticks,     (* the ticks table                                            *)
  raw,       (* raw[t]: rows of raw_frames received at t                   *)
  pages,     (* page_count                                                 *)
  vacuums,   (* auto_vacuum is incremental                                 *)
  cfg,       (* the janitor's RetentionConfig                              *)
  jan,       (* where the janitor is                                       *)
  cut,       (* once: now                                                  *)
  gone,      (* rows deleted since its last vacuum                         *)
  oldest,    (* PruneToSize: day                                           *)
  round,     (* PruneToSize: i                                             *)
  query,     (* the scan the client is paging through, or None             *)
  cursor,    (* NextCursor of its last page, or None                       *)
  more,      (* HasMore of its last page                                   *)
  got,       (* the pages it has been given, as sets of rows               *)
  (* History. *)
  base,      (* rows of the query that have been there since it began      *)
  missed     (* pages were left unreclaimed, and no vacuum has come since  *)

tables   == <<ticks, raw, pages, vacuums>>
janVars  == <<jan, cut, gone, oldest, round>>
scanVars == <<query, cursor, more, got>>
vars == <<now, tables, cfg, janVars, scanVars, base, missed>>

day(t) == t.time \div DayLength

Times == 0 .. MaxTime
Rows(frames) == SumFunctionOnSet(frames, Times)
Live == Cardinality(ticks) + Rows(raw)

Init ==
  /\ now = 0
  /\ ticks = {} /\ raw = [t \in Times |-> 0] /\ pages = 0 /\ vacuums \in BOOLEAN
  /\ cfg \in Configs
  /\ jan = "idle" /\ cut = 0 /\ gone = 0 /\ oldest = 0 /\ round = 0
  /\ query = None /\ cursor = None /\ more = FALSE /\ got = << >>
  /\ base = {} /\ missed = FALSE

-----------------------------------------------------------------------------
(* Writers. *)

(* A row of Append's batch, one that is there already being ignored.  A    *)
(* transaction of several is several of these with nothing in between.     *)
AppendTick(t) ==
  /\ t.time <= now
  /\ ticks' = ticks \cup {t}
  /\ pages' = Max({pages, Cardinality(ticks') + Rows(raw)})
  /\ UNCHANGED <<now, raw, vacuums, cfg, janVars, scanVars, base, missed>>

AppendRaw ==
  /\ Rows(raw) < MaxFrames
  /\ raw' = [raw EXCEPT ![now] = @ + 1]
  /\ pages' = Max({pages, Cardinality(ticks) + Rows(raw')})
  /\ UNCHANGED <<now, ticks, vacuums, cfg, janVars, scanVars, base, missed>>

Tick ==
  /\ now < MaxTime
  /\ now' = now + 1
  /\ UNCHANGED <<tables, cfg, janVars, scanVars, base, missed>>

-----------------------------------------------------------------------------
(* DB.Ticks. *)

NormalizeLimit(n) == IF n = 0 THEN DefaultLimit ELSE Min({n, MaxLimit})

Selects(q, t) ==
  /\ q.inst \in {None, t.inst}
  /\ t.time >= q.start
  /\ q.end = 0 \/ t.time < q.end

(* t is before u in the order of the query. *)
Before(q, t, u) ==
  LET earlier(a, b) == a.time < b.time \/ (a.time = b.time /\ a.id < b.id)
  IN  IF q.desc THEN earlier(u, t) ELSE earlier(t, u)

(* Mutant: the row the cursor was taken from is on both sides of it. *)
AfterOrAt(q, t, c) == c = None \/ ~Before(q, t, c)

(* Mutant: the cursor is the event time alone. *)
AfterTime(q, t, c) ==
  c = None \/ IF q.desc THEN t.time < c.time ELSE t.time > c.time

After(q, t, c) == c = None \/ Before(q, c, t)

(* A page: the first rows after the cursor, and whether there is another. *)
ReadPage(q, c) ==
  LET rows == {t \in ticks : Selects(q, t) /\ After(q, t, c)}
      limit == NormalizeLimit(q.limit)
  IN  \E P \in SUBSET rows :
        /\ Cardinality(P) = Min({limit, Cardinality(rows)})
        /\ \A t \in P, u \in rows \ P : ~Before(q, u, t)
        /\ got' = Append(got, P)
        /\ more' = (Cardinality(rows) > limit)
        /\ cursor' = IF Cardinality(rows) <= limit THEN None
                     ELSE LET last == CHOOSE t \in P : \A u \in P : ~Before(q, t, u)
                          IN  [time |-> last.time, id |-> last.id]

FirstPage(q) ==
  /\ query = None
  /\ query' = q
  /\ base' = {t \in ticks : Selects(q, t)}
  /\ ReadPage(q, None)
  /\ UNCHANGED <<now, tables, cfg, janVars, missed>>

NextPage ==
  /\ query # None /\ more
  /\ ReadPage(query, cursor)
  /\ UNCHANGED <<now, tables, cfg, janVars, query, base, missed>>

-----------------------------------------------------------------------------
(* Janitor.once: Prune, then PruneToSize. *)

PruneFirst == cfg.Ticks > 0 \/ cfg.Raw > 0
SizeNext == IF cfg.MaxBytes > 0 THEN "size" ELSE "idle"

(* On to j, with the values of the pass's locals; 0 where one is done with. *)
GoTo(j, c, o, r) == jan' = j /\ cut' = c /\ oldest' = o /\ round' = r

Once ==
  /\ jan = "idle"
  /\ PruneFirst \/ cfg.MaxBytes > 0
  /\ IF PruneFirst THEN GoTo("raw", now, 0, 0) ELSE GoTo("size", 0, 0, 0)
  /\ UNCHANGED <<now, tables, cfg, gone, scanVars, base, missed>>

PruneRaw ==
  /\ jan = "raw"
  /\ raw' = [t \in Times |-> IF cfg.Raw > 0 /\ t + cfg.Raw < cut THEN 0 ELSE raw[t]]
  /\ gone' = Rows(raw) - Rows(raw')
  /\ GoTo("ticks", cut, 0, 0)
  /\ UNCHANGED <<now, ticks, pages, vacuums, cfg, scanVars, base, missed>>

(* The rows D are deleted. *)
Delete(D) ==
  /\ ticks' = ticks \ D
  /\ base' = base \ D
  /\ gone' = gone + Cardinality(D)
  /\ UNCHANGED <<now, raw, pages, vacuums, cfg, scanVars, missed>>

PruneTicks ==
  /\ jan = "ticks"
  /\ Delete({t \in ticks : cfg.Ticks > 0 /\ t.time + cfg.Ticks < cut})
  /\ GoTo(IF gone' > 0 THEN "vacuum" ELSE SizeNext, 0, 0, 0)

(* Mutant: the pages stay on the freelist. *)
IncrementalVacuumLater ==
  /\ pages' = pages
  /\ gone' = 0
  /\ missed' = FALSE

(* PRAGMA incremental_vacuum, which an older file ignores. *)
IncrementalVacuum ==
  /\ pages' = IF vacuums THEN Live ELSE pages
  /\ gone' = 0
  /\ missed' = FALSE

PruneVacuum ==
  /\ jan = "vacuum"
  /\ IncrementalVacuum
  /\ GoTo(SizeNext, 0, 0, 0)
  /\ UNCHANGED <<now, ticks, raw, vacuums, cfg, scanVars, base>>

CheckSize ==
  /\ jan = "size"
  /\ IF round < MaxRounds /\ pages > cfg.MaxBytes
       THEN GoTo("day", 0, 0, round) ELSE GoTo("idle", 0, 0, 0)
  /\ UNCHANGED <<now, tables, cfg, gone, scanVars, base, missed>>

OldestDay ==
  /\ jan = "day"
  /\ IF ticks = {} THEN GoTo("idle", 0, 0, 0)
     ELSE GoTo("drop", 0, Min({day(t) : t \in ticks}), round)
  /\ UNCHANGED <<now, tables, cfg, gone, scanVars, base, missed>>

DropDay ==
  /\ jan = "drop"
  /\ Delete({t \in ticks : day(t) = oldest})
  /\ GoTo("shrink", 0, 0, round)

Shrink ==
  /\ jan = "shrink"
  /\ IncrementalVacuum
  /\ IF gone = 0 THEN GoTo("idle", 0, 0, 0) ELSE GoTo("size", 0, 0, round + 1)
  /\ UNCHANGED <<now, ticks, raw, vacuums, cfg, scanVars, base>>

(* A statement fails: the pass ends there. *)
PassFails ==
  /\ jan # "idle"
  /\ GoTo("idle", 0, 0, 0)
  /\ gone' = 0
  /\ missed' = (missed \/ gone > 0)
  /\ UNCHANGED <<now, tables, cfg, scanVars, base>>

-----------------------------------------------------------------------------
(* The process ends and is started again, under -vacuum-on-start or not. *)
Restart ==
  /\ GoTo("idle", 0, 0, 0) /\ gone' = 0
  /\ query' = None /\ cursor' = None /\ more' = FALSE /\ got' = << >> /\ base' = {}
  /\ \/ UNCHANGED <<pages, vacuums>> /\ missed' = (missed \/ gone > 0)
     \/ ~vacuums /\ vacuums' = TRUE /\ pages' = Live /\ missed' = FALSE
  /\ UNCHANGED <<now, ticks, raw, cfg>>

Next ==
  \/ \E t \in Trades : AppendTick(t)
  \/ AppendRaw \/ Tick
  \/ \E q \in Queries : FirstPage(q)
  \/ NextPage
  \/ Once \/ PruneRaw \/ PruneTicks \/ PruneVacuum
  \/ CheckSize \/ OldestDay \/ DropDay \/ Shrink \/ PassFails
  \/ Restart

Spec == Init /\ [][Next]_vars

-----------------------------------------------------------------------------
(* The pages of a scan, one after the other, are in the order of the query *)
(* and repeat no row, whatever is appended, deleted or appended again      *)
(* between them.                                                           *)
ScanInOrder ==
  \A j, k \in DOMAIN got :
    j < k => \A t \in got[j], u \in got[k] : Before(query, t, u)

(* "Inserts arriving mid-page cannot cause a row to be skipped": a row     *)
(* that was in the table during the whole scan is on one of its pages.     *)
(* The exception is a scan over all instruments, which may skip a row with *)
(* the event time and trade id of another instrument's.                    *)
ScanMissesNothing ==
  query # None /\ ~more =>
    \A t \in base : \E k \in DOMAIN got :
      \/ t \in got[k]
      \/ query.inst = None /\ \E u \in got[k] : u.time = t.time /\ u.id = t.id

(* What a client that follows the cursor relies on. *)
ScanExact == ScanInOrder /\ ScanMissesNothing

(* PruneToSize gives up history only while rows, not pages that a vacuum   *)
(* would free, are over the cap; unless a pass ended between a deletion    *)
(* and its vacuum, or the file cannot be vacuumed.                         *)
SizeCostsNoMore ==
  [][jan = "drop" /\ ticks \ ticks' # {} => Live > cfg.MaxBytes \/ ~vacuums \/ missed]_vars
=============================================================================
