---------------------------- MODULE RollupStore ----------------------------
(***************************************************************************)
(* The server's usage history (src-tauri/src/ingest.rs): the tables        *)
(* rs_rollup_5m, rs_rollup_1h and rs_rollup_1d, written by apply (one      *)
(* batch of one collector), by the retention purge and by the Admin        *)
(* purge, all under APPLY_LOCK.                                            *)
(*                                                                         *)
(* A 5m row holds how many samples were merged into it and the request     *)
(* that was current when it was last written.  A 1h or 1d row is rebuilt   *)
(* from the finer rows present, so it is modelled as the map of 5m rows it *)
(* stands for: its histogram, maximum and sample count are sums and maxima *)
(* over that map, its request is the one of the newest window in the map.  *)
(*                                                                         *)
(* A statement of a transaction works on a copy of the tables that COMMIT  *)
(* installs; the purges' DELETEs commit one by one.                        *)
(***************************************************************************)
EXTENDS Calendar

CONSTANTS
    Keys,        \* (namespace, kind, workload, container)
    Requests,    \* what a container asks for
    NoRow,       \* absence of a row
    RawSettings, \* values TMJLENS_RETENTION_RAW takes, in hours
    RollHours,   \* TMJLENS_RETENTION_ROLLUP, in hours
    Ahead,       \* bound: how far a collector's clock may run ahead
    MaxNow,      \* bound: how long time runs
    MaxBatches,  \* bound: batches that reach apply
    MaxRows,     \* bound: rows of one batch
    MaxPurges    \* bound: purges an administrator asks for

\* The rollup tier outlives the raw tier by a day, as 90d and 48h do.
ASSUME RetentionAssumption ==
    /\ RawSettings # {} /\ RawSettings \subseteq Nat
    /\ RollHours \in Nat
    /\ \A r \in RawSettings : RollHours >= r + HoursPerDay - 1
ASSUME BoundsAssumption ==
    {Ahead, MaxNow, MaxBatches, MaxRows, MaxPurges} \subseteq Nat
ASSUME RowAssumption ==
    NoRow \notin [samples : Nat \ {0}, request : Requests]

VARIABLES
    now,      \* the wall clock
    raw,      \* raw retention this process was started with
    db,       \* the committed tables
    work,     \* the tables as the open transaction sees them
    pc,       \* where the holder of APPLY_LOCK is; "idle" when it is free
    window,   \* PreparedBatch.window_start of the batch being applied
    rows,     \* rows written so far by that batch
    purgeAt,  \* the instant the running purge took for now
    asked,    \* the running purge was asked for by an administrator
    nextDue,  \* PurgeState.next_due; 0 is None
    purgeErr, \* PurgeState.last_error is set
    batches, purges, \* counters behind MaxBatches and MaxPurges
    gone5, gone1,    \* history: hours below which retention deleted 5m, 1h rows
    torn             \* history: an "all" purge stopped between its DELETEs

vars == <<now, raw, db, work, pc, window, rows, purgeAt, asked, nextDue,
          purgeErr, batches, purges, gone5, gone1, torn>>

clockVars == <<now, raw>>
purgeVars == <<purgeAt, asked, nextDue, purgeErr>>
history   == <<gone5, gone1, torn>>

Row5 == [samples : Nat \ {0}, request : Requests]

\* Tables carry, beside the three tiers, the ledger: every row ever merged,
\* which nothing but an "all" purge forgets.
Empty ==
    [five   |-> [k \in Keys |-> [w \in Windows |-> NoRow]],
     hour   |-> [k \in Keys |-> [h \in Hours |-> NoRow]],
     day    |-> [k \in Keys |-> [d \in Days |-> NoRow]],
     ledger |-> [k \in Keys |-> [w \in Windows |-> NoRow]]]

---------------------------------------------------------------------------
\* Operators named ..._Faulty are defects the properties below must reject.

Upserted_Faulty(row, r) ==
    [samples |-> IF row = NoRow THEN 0 ELSE row.samples + 1, request |-> r]

\* upsert_5m of one sample: merge into the row of its window, or insert it.
Upserted(row, r) ==
    [samples |-> IF row = NoRow THEN 1 ELSE row.samples + 1, request |-> r]

\* compact_into, 5m to 1h.  It leaves the coarse row alone when the range
\* holds no finer one; behind upsert_5m it always holds the one just written,
\* so NoRow only arises where the properties use this as a reference.
HourRow(fives, h) ==
    IF \A w \in WindowsIn(h) : fives[w] = NoRow THEN NoRow
    ELSE [w \in WindowsIn(h) |-> fives[w]]

\* compact_into, 1h to 1d.
DayRow(hours, d) ==
    IF \A h \in HoursIn(d) : hours[h] = NoRow THEN NoRow
    ELSE [w \in WindowsOn(d) |->
             IF hours[HourOf(w)] = NoRow THEN NoRow ELSE hours[HourOf(w)][w]]

\* The day compacted before the hour.
Merged_Faulty(t, k, w, r) ==
    LET h      == HourOf(w)
        d      == DayOf(h)
        fives  == [t.five[k] EXCEPT ![w] = Upserted(t.five[k][w], r)]
        ledger == [t.ledger[k] EXCEPT ![w] = Upserted(t.ledger[k][w], r)]
    IN [five   |-> [t.five EXCEPT ![k] = fives],
        hour   |-> [t.hour EXCEPT ![k][h] = HourRow(fives, h)],
        day    |-> [t.day EXCEPT ![k][d] = DayRow(t.hour[k], d)],
        ledger |-> [t.ledger EXCEPT ![k] = ledger]]

\* upsert_5m followed by merge_up, on the tables t.
Merged(t, k, w, r) ==
    LET h      == HourOf(w)
        d      == DayOf(h)
        fives  == [t.five[k] EXCEPT ![w] = Upserted(t.five[k][w], r)]
        hours  == [t.hour[k] EXCEPT ![h] = HourRow(fives, h)]
        days   == [t.day[k] EXCEPT ![d] = DayRow(hours, d)]
        ledger == [t.ledger[k] EXCEPT ![w] = Upserted(t.ledger[k][w], r)]
    IN [five   |-> [t.five EXCEPT ![k] = fives],
        hour   |-> [t.hour EXCEPT ![k] = hours],
        day    |-> [t.day EXCEPT ![k] = days],
        ledger |-> [t.ledger EXCEPT ![k] = ledger]]

\* raw_retention_floor: the oldest hour the 5m tier keeps.
RawFloor(t)  == HourOf(t) - raw

RollFloor_Faulty(t) == HourOf(t) - RollHours + 1

\* floor_hour(now - retention_rollup()).
RollFloor(t) == HourOf(t) - RollHours

TooOld_Faulty(w) == FALSE

\* The check apply makes before BEGIN: a batch below the floor is dropped.
TooOld(w) == HourOf(w) < RawFloor(now)

Expired_Faulty(w) == HourOf(w) <= RawFloor(purgeAt)

\* What the first DELETE of purge removes.
Expired(w) == HourOf(w) < RawFloor(purgeAt)

Unnoticed_Faulty(failed) ==
    /\ nextDue' = (IF asked THEN now ELSE purgeAt) + SlotsPerHour
    /\ purgeErr' = FALSE

\* record_purge: PURGE_EVERY is an hour, PURGE_RETRY one window.  The
\* administrator's purge takes its instant after the DELETEs.
RecordPurge(failed) ==
    /\ nextDue' = (IF asked THEN now ELSE purgeAt)
                    + (IF failed THEN 1 ELSE SlotsPerHour)
    /\ purgeErr' = failed

Larger(a, b) == IF a < b THEN b ELSE a

Init ==
    /\ now = 0 /\ raw \in RawSettings
    /\ db = Empty /\ work = Empty
    /\ pc = "idle" /\ window = 0 /\ rows = 0
    /\ purgeAt = 0 /\ asked = FALSE /\ nextDue = 0 /\ purgeErr = FALSE
    /\ batches = 0 /\ purges = 0
    /\ gone5 = 0 /\ gone1 = 0 /\ torn = FALSE

Tick ==
    /\ now < MaxNow
    /\ now' = now + 1
    /\ UNCHANGED <<raw, db, work, pc, window, rows, purgeVars, batches,
                   purges, history>>

---------------------------------------------------------------------------
\* apply.

\* The lock is taken and the window is not below the floor: BEGIN.
BeginApply(w) ==
    /\ pc = "idle" /\ batches < MaxBatches
    /\ w <= now + Ahead
    /\ ~TooOld(w)
    /\ pc' = "apply" /\ window' = w /\ rows' = 0
    /\ batches' = batches + 1
    /\ UNCHANGED <<clockVars, db, work, purgeVars, purges, history>>

\* The early return: the batch is dropped and answered 200.
DropBatch(w) ==
    /\ pc = "idle" /\ batches < MaxBatches
    /\ TooOld(w)
    /\ batches' = batches + 1
    /\ UNCHANGED <<clockVars, db, work, pc, window, rows, purgeVars, purges,
                   history>>

WriteRow(k, r) ==
    /\ pc = "apply" /\ rows < MaxRows
    /\ work' = Merged(work, k, window, r)
    /\ rows' = rows + 1
    /\ UNCHANGED <<clockVars, db, pc, window, purgeVars, batches, purges,
                   history>>

\* COMMIT, then purge_if_due decides, still under the lock.
Commit ==
    /\ pc = "apply"
    /\ db' = work
    /\ IF now >= nextDue
         THEN pc' = "purge5m" /\ purgeAt' = now /\ asked' = FALSE
         ELSE pc' = "idle" /\ UNCHANGED <<purgeAt, asked>>
    /\ window' = 0 /\ rows' = 0
    /\ UNCHANGED <<clockVars, work, nextDue, purgeErr, batches, purges,
                   history>>

\* A statement failed: ROLLBACK, and the error goes back to the collector.
Rollback ==
    /\ pc = "apply"
    /\ work' = db
    /\ pc' = "idle" /\ window' = 0 /\ rows' = 0
    /\ UNCHANGED <<clockVars, db, purgeVars, batches, purges, history>>

---------------------------------------------------------------------------
\* purge: three DELETEs, each its own commit.

\* db and work change together outside a batch's transaction.
Install(t) == db' = t /\ work' = t

Purge5m ==
    /\ pc = "purge5m"
    /\ Install([db EXCEPT !.five = [k \in Keys |-> [w \in Windows |->
                  IF Expired(w) THEN NoRow ELSE db.five[k][w]]]])
    /\ gone5' = Larger(gone5, RawFloor(purgeAt))
    /\ pc' = "purge1h"
    /\ UNCHANGED <<clockVars, window, rows, purgeVars, batches, purges,
                   gone1, torn>>

Purge1h ==
    /\ pc = "purge1h"
    /\ LET cut == RollFloor(purgeAt)
       IN /\ Install([db EXCEPT !.hour = [k \in Keys |-> [h \in Hours |->
                        IF h < cut THEN NoRow ELSE db.hour[k][h]]]])
          /\ gone1' = Larger(gone1, cut)
    /\ pc' = "purge1d"
    /\ UNCHANGED <<clockVars, window, rows, purgeVars, batches, purges,
                   gone5, torn>>

\* The last DELETE, and record_purge(Ok).
Purge1d ==
    /\ pc = "purge1d"
    /\ LET cut == DayOf(RollFloor(purgeAt))
       IN Install([db EXCEPT !.day = [k \in Keys |-> [d \in Days |->
                     IF d < cut THEN NoRow ELSE db.day[k][d]]]])
    /\ RecordPurge(FALSE)
    /\ pc' = "idle"
    /\ UNCHANGED <<clockVars, window, rows, purgeAt, asked, batches, purges,
                   history>>

\* One of the DELETEs fails: record_purge(Err).
PurgeFails ==
    /\ pc \in {"purge5m", "purge1h", "purge1d"}
    /\ RecordPurge(TRUE)
    /\ pc' = "idle"
    /\ UNCHANGED <<clockVars, db, work, window, rows, purgeAt, asked,
                   batches, purges, history>>

---------------------------------------------------------------------------
\* purge_collected, the Admin popup's two buttons.

AskRetention ==
    /\ pc = "idle" /\ purges < MaxPurges
    /\ pc' = "purge5m" /\ purgeAt' = now /\ asked' = TRUE
    /\ purges' = purges + 1
    /\ UNCHANGED <<clockVars, db, work, window, rows, nextDue, purgeErr,
                   batches, history>>

\* Mode "all" empties one table per statement; the first also starts the
\* ledger anew, since the user asked to forget.
Wipe5m ==
    /\ pc = "idle" /\ purges < MaxPurges
    /\ Install([db EXCEPT !.five = Empty.five, !.ledger = Empty.ledger])
    /\ pc' = "wipe1h" /\ torn' = TRUE
    /\ purges' = purges + 1
    /\ UNCHANGED <<clockVars, window, rows, purgeVars, batches, gone5, gone1>>

Wipe1h ==
    /\ pc = "wipe1h"
    /\ Install([db EXCEPT !.hour = Empty.hour])
    /\ pc' = "wipe1d"
    /\ UNCHANGED <<clockVars, window, rows, purgeVars, batches, purges,
                   history>>

Wipe1d ==
    /\ pc = "wipe1d"
    /\ Install([db EXCEPT !.day = Empty.day])
    /\ pc' = "idle" /\ torn' = FALSE
    /\ UNCHANGED <<clockVars, window, rows, purgeVars, batches, purges,
                   gone5, gone1>>

WipeFails ==
    /\ pc \in {"wipe1h", "wipe1d"}
    /\ pc' = "idle"
    /\ UNCHANGED <<clockVars, db, work, window, rows, purgeVars, batches,
                   purges, history>>

---------------------------------------------------------------------------
\* The process dies at any point and starts again, perhaps with another
\* TMJLENS_RETENTION_RAW; the statics start over, the file is as committed.
Restart(r) ==
    /\ raw' = r
    /\ work' = db
    /\ pc' = "idle" /\ window' = 0 /\ rows' = 0
    /\ purgeAt' = 0 /\ asked' = FALSE /\ nextDue' = 0 /\ purgeErr' = FALSE
    /\ UNCHANGED <<now, db, batches, purges, history>>

\* Every step but a restart.
Step ==
    \/ Tick
    \/ \E w \in Windows : BeginApply(w)
    \/ \E w \in Windows : DropBatch(w)
    \/ \E k \in Keys, r \in Requests : WriteRow(k, r)
    \/ Commit
    \/ Rollback
    \/ Purge5m
    \/ Purge1h
    \/ Purge1d
    \/ PurgeFails
    \/ AskRetention
    \/ Wipe5m
    \/ Wipe1h
    \/ Wipe1d
    \/ WipeFails

Next == Step \/ \E r \in RawSettings : Restart(r)

Spec == Init /\ [][Next]_vars

\* The same, with a raw retention that no restart raises.
SteadyNext == Step \/ \E r \in {s \in RawSettings : s <= raw} : Restart(r)

SteadySpec == Init /\ [][SteadyNext]_vars

---------------------------------------------------------------------------
\* The tables have their shapes, and every variable its range.
Slot == Row5 \cup {NoRow}
TablesOK(t) ==
    /\ t = [five |-> t.five, hour |-> t.hour, day |-> t.day,
            ledger |-> t.ledger]
    /\ t.five \in [Keys -> [Windows -> Slot]]
    /\ t.ledger \in [Keys -> [Windows -> Slot]]
    /\ t.hour = [k \in Keys |-> [h \in Hours |-> t.hour[k][h]]]
    /\ t.day = [k \in Keys |-> [d \in Days |-> t.day[k][d]]]
    /\ \A k \in Keys, h \in Hours :
          t.hour[k][h] = NoRow \/ t.hour[k][h] \in [WindowsIn(h) -> Slot]
    /\ \A k \in Keys, d \in Days :
          t.day[k][d] = NoRow \/ t.day[k][d] \in [WindowsOn(d) -> Slot]

TypeOK ==
    /\ now \in Nat /\ raw \in RawSettings
    /\ TablesOK(db) /\ TablesOK(work)
    /\ pc \in {"idle", "apply", "purge5m", "purge1h", "purge1d",
               "wipe1h", "wipe1d"}
    /\ window \in Windows /\ rows \in Nat
    /\ purgeAt \in Nat /\ asked \in BOOLEAN
    /\ nextDue \in Nat /\ purgeErr \in BOOLEAN
    /\ batches \in Nat /\ purges \in Nat
    /\ gone5 \in Nat /\ gone1 \in Nat /\ torn \in BOOLEAN

\* What an hourly and a daily row would be had nothing ever been deleted.
WholeHour(t, k, h) == HourRow(t.ledger[k], h)
WholeDay(t, k, d) ==
    DayRow([h \in Hours |-> WholeHour(t, k, h)], d)

\* "The oldest hour the 5m tier keeps, aligned to the hour so every hour at
\* or after it is complete" (the comment on raw_retention_floor): no
\* interleaving of batches, purges and restarts leaves an hour at or above
\* the floor with a 5m row missing or short.
RawTierComplete ==
    torn \/ \A k \in Keys, w \in Windows :
        HourOf(w) >= RawFloor(now) => db.five[k][w] = db.ledger[k][w]

\* compact_into rebuilds a row from whatever finer rows are left.  However
\* late a batch lands, an hourly row holds every sample ever accepted for
\* its hour, and it is there as long as the rollup retention keeps it.
HourlyHistory ==
    torn \/ \A k \in Keys, h \in Hours :
        /\ db.hour[k][h] \in {NoRow, WholeHour(db, k, h)}
        /\ h >= RollFloor(now) => db.hour[k][h] = WholeHour(db, k, h)

\* The same of a day, which is rebuilt from hours the 1h purge may have cut:
\* the day the rollup floor falls in must never be rebuilt.
DailyHistory ==
    torn \/ \A k \in Keys, d \in Days :
        /\ db.day[k][d] \in {NoRow, WholeDay(db, k, d)}
        /\ d >= DayOf(RollFloor(now)) => db.day[k][d] = WholeDay(db, k, d)

\* purge_if_due runs only behind a batch and at most once an hour.  While the
\* last purge succeeded, the 5m tier holds nothing older than the floor of
\* that purge: neither a late batch nor a purge that failed half-way before
\* it lets old rows back in unnoticed.
PurgedAsScheduled ==
    (pc = "idle" /\ nextDue # 0 /\ ~purgeErr) =>
        \A k \in Keys, w \in Windows :
            HourOf(w) < RawFloor(purgeAt) => db.five[k][w] = NoRow
=============================================================================
