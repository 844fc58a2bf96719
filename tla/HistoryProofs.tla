---------------------------- MODULE HistoryProofs ----------------------------
(***************************************************************************)
(* RollupStore implements UsageHistory, for every calendar, set of         *)
(* containers and retention that RetentionAssumption admits: every step of *)
(* the server is a step of the abstract history or leaves it alone.        *)
(***************************************************************************)
EXTENDS RollupHistory, RollupStoreProofs, Sums

USE AbsenceAssumption, RowAssumption, CalendarAssumption

---------------------------------------------------------------------------
\* The total of a row: its samples added up, its newest window.
Counted(row) == [w \in Held(row) |-> row[w].samples]

LEMMA RowSum ==
    ASSUME NEW row, IsFiniteSet(Held(row))
    PROVE  MapThenSumSet(LAMBDA w : row[w].samples, Held(row))
               = SumOf(Counted(row), Held(row))
  <1> DEFINE S == Held(row)
             F == [w \in S |-> row[w].samples]
             Body(I) == [s \in SUBSET S |-> IF s = {} THEN 0
                            ELSE row[Chosen(s)].samples + I[s \ {Chosen(s)}]]
             C == CHOOSE I : I = Body(I)
  <1>1. MapThenSumSet(LAMBDA w : row[w].samples, Held(row)) = C[S]
    BY DEF MapThenSumSet, MapThenFoldSet, Chosen
  <1> HIDE DEF S
  <1>2. ASSUME NEW I
        PROVE  Body(I) = [s \in SUBSET S |-> Added(F, I, s)]
    BY ChosenIsIn DEF Added
  <1>3. IsFiniteSet(S)
    BY DEF S
  <1>4. PICK I : AddsUp(F, S, I)
    BY <1>3, SumExists
  <1> HIDE DEF Body, F
  <1>5. I = Body(I)
    BY <1>2, <1>4 DEF AddsUp
  <1>6. C = Body(C)
    BY <1>5, Zenon
  <1> HIDE DEF C
  <1>7. AddsUp(F, S, C)
    BY <1>2, <1>6 DEF AddsUp
  <1>8. SumOf(F, S) = C[S]
    BY <1>3, <1>7, SumIs
  <1> QED BY <1>1, <1>8 DEF F, S, Counted

\* A row of slots, before and after a part was merged into its window w.
Grown(row, part) ==
    [samples |-> part.samples + IF row = NoRow THEN 0 ELSE row.samples,
     request |-> part.request]

LEMMA RowShape ==
    ASSUME NEW D \in SUBSET Windows, NEW row \in [D -> Slot]
    PROVE  /\ IsFiniteSet(Held(row)) /\ Held(row) \subseteq D /\ Held(row) \subseteq Nat
           /\ \A w \in Held(row) : /\ row[w] \in Row5 /\ Counted(row)[w] \in Nat
                                   /\ Counted(row)[w] = row[w].samples
  <1>1. IsFiniteSet(Windows) /\ Windows \subseteq Nat
    <2>1. \A a, b \in Nat : a * b \in Nat
      BY SMTT(30)
    <2>2. (CalendarDays * HoursPerDay * SlotsPerHour) - 1 \in Int
      BY <2>1
    <2>3. \A b \in Int : IsFiniteSet(0 .. b)
      BY FS_Interval
    <2> QED BY <2>2, <2>3, CalendarTypes DEF Windows
  <1>2. Held(row) \subseteq D
    BY DEF Held
  <1>3. \A w \in Held(row) : row[w] \in Row5
    BY DEF Held, Slot
  <1> QED BY <1>1, <1>2, <1>3, FS_Subset DEF Counted, Row5

\* What the total of a row with something in it is.
LEMMA TotalIs ==
    ASSUME NEW D \in SUBSET Windows, NEW row \in [D -> Slot], row # NoRow,
           NEW m \in Held(row), \A w \in Held(row) : w <= m
    PROVE  TotalOf(row) = [samples |-> SumOf(Counted(row), Held(row)),
                           newest |-> m, request |-> row[m].request]
  <1>1. IsFiniteSet(Held(row)) /\ Held(row) \subseteq Nat
    BY RowShape
  <1>2. \A x \in Held(row) : (\A y \in Held(row) : x >= y) => x = m
    BY <1>1
  <1>3. \A y \in Held(row) : m >= y
    BY <1>1
  <1>4. Max(Held(row)) = m
    BY <1>2, <1>3 DEF Max
  <1> QED BY <1>1, <1>4, RowSum DEF TotalOf

LEMMA NewestHeld ==
    ASSUME NEW D \in SUBSET Windows, NEW row \in [D -> Slot], Held(row) # {}
    PROVE  \E m \in Held(row) : \A w \in Held(row) : w <= m
  BY RowShape, GreatestOf

\* Merging a part into a slot of a row adds the part to its total, whether or
\* not the window was there, and whether or not it is the newest.
LEMMA RowAdds ==
    ASSUME NEW D \in SUBSET Windows, NEW old \in [D -> Slot], NEW new \in [D -> Slot],
           old # NoRow, new # NoRow,
           NEW w \in D, NEW part \in History!Part,
           \A v \in D \ {w} : new[v] = old[v],
           new[w] = Grown(old[w], part)
    PROVE  TotalOf(new) =
               History!Added(IF \A v \in D : old[v] = NoRow THEN NoRow ELSE TotalOf(old), w, part)
  <1>1. /\ part.samples \in Nat \ {0} /\ part.request \in Requests
        /\ part = [samples |-> part.samples, request |-> part.request]
    BY BoundsAssumption DEF History!Part
  <1>2. new[w] # NoRow /\ new[w].request = part.request
        /\ new[w].samples = part.samples + IF old[w] = NoRow THEN 0 ELSE old[w].samples
    <2>1. Grown(old[w], part) \in Row5
      BY <1>1 DEF Grown, Slot, Row5
    <2> QED BY <2>1 DEF Grown, Row5
  <1>3. Held(new) = Held(old) \cup {w}
    BY <1>2 DEF Held
  <1>4. \A v \in Held(old) \ {w} : Counted(new)[v] = Counted(old)[v]
    BY <1>3 DEF Counted, Held
  <1>5. /\ IsFiniteSet(Held(old)) /\ IsFiniteSet(Held(new)) /\ Held(new) \subseteq Nat
        /\ \A v \in Held(old) : Counted(old)[v] \in Nat /\ Counted(old)[v] = old[v].samples
        /\ \A v \in Held(new) : Counted(new)[v] \in Nat /\ Counted(new)[v] = new[v].samples
    BY RowShape
  <1>6. Held(old) \ {w} = Held(new) \ {w} /\ IsFiniteSet(Held(old) \ {w})
    BY <1>3, <1>5, FS_Subset
  <1>7. SumOf(Counted(new), Held(old) \ {w}) = SumOf(Counted(old), Held(old) \ {w})
    BY <1>4, <1>5, <1>6, SumAgrees
  <1>8. SumOf(Counted(new), Held(new))
            = new[w].samples + SumOf(Counted(old), Held(old) \ {w})
    <2>1. w \in Held(new)
      BY <1>3
    <2>2. SumOf(Counted(new), Held(new))
              = Counted(new)[w] + SumOf(Counted(new), Held(new) \ {w})
      BY <1>5, <2>1, SumRemove
    <2> QED BY <1>5, <1>6, <1>7, <2>1, <2>2
  <1>9. SumOf(Counted(old), Held(old) \ {w}) \in Nat
    BY <1>5, <1>6, SumRemove
  <1>10. CASE \A v \in D : old[v] = NoRow
    <2>1. Held(old) = {} /\ Held(new) = {w} /\ old[w] = NoRow
      BY <1>3, <1>10 DEF Held
    <2>2. SumOf(Counted(old), Held(old) \ {w}) = 0
      BY <2>1, SumOfNone
    <2>3. TotalOf(new) = [samples |-> SumOf(Counted(new), Held(new)),
                          newest |-> w, request |-> new[w].request]
      <3>1. w \in Held(new) /\ \A v \in Held(new) : v <= w
        BY <1>5, <2>1
      <3> QED BY <3>1, TotalIs
    <2> QED BY <1>1, <1>2, <1>8, <1>10, <2>1, <2>2, <2>3 DEF History!Added
  <1>11. CASE Held(old) # {}
    <2>1. PICK m \in Held(old) : \A v \in Held(old) : v <= m
      BY <1>11, NewestHeld
    <2>2. TotalOf(old) = [samples |-> SumOf(Counted(old), Held(old)),
                          newest |-> m, request |-> old[m].request]
      BY <2>1, TotalIs
    <2>3. m \in Windows /\ w \in Windows /\ m \in Nat /\ w \in Nat
      BY <1>3, <1>5 DEF Held
    <2>4. SumOf(Counted(old), Held(old)) \in Nat /\ old[m].request \in Requests
      BY <1>5, <2>1, SumRemove, RowShape DEF Row5
    <2>5. TotalOf(old) # NoRow
      BY <2>2, <2>3, <2>4
    <2>6. SumOf(Counted(new), Held(new)) = SumOf(Counted(old), Held(old)) + part.samples
      <3>1. CASE w \in Held(old)
        <4>1. SumOf(Counted(old), Held(old)) = old[w].samples + SumOf(Counted(old), Held(old) \ {w})
          BY <1>5, <3>1, SumRemove
        <4>2. old[w] # NoRow /\ old[w].samples \in Nat
          BY <1>5, <3>1 DEF Held
        <4> QED BY <1>1, <1>2, <1>8, <1>9, <4>1, <4>2
      <3>2. CASE w \notin Held(old)
        <4>1. Held(old) \ {w} = Held(old) /\ old[w] = NoRow
          BY <3>2 DEF Held
        <4> QED BY <1>1, <1>2, <1>8, <1>9, <4>1
      <3> QED BY <3>1, <3>2
    <2>7. CASE w >= m
      <3>1. \A v \in Held(new) : v <= w
        BY <1>3, <1>5, <2>1, <2>3, <2>7
      <3>2. TotalOf(new) = [samples |-> SumOf(Counted(new), Held(new)),
                            newest |-> w, request |-> part.request]
        BY <1>2, <1>3, <3>1, TotalIs
      <3>3. (IF w > m THEN w ELSE m) = w
        BY <2>3, <2>7
      <3> QED BY <1>11, <2>2, <2>5, <2>6, <2>7, <3>2, <3>3 DEF History!Added, Held
    <2>8. CASE w < m
      <3>1. \A v \in Held(new) : v <= m
        BY <1>3, <1>5, <2>1, <2>3, <2>8
      <3>2. m \in Held(new) /\ new[m] = old[m]
        BY <1>3, <2>1, <2>3, <2>8 DEF Held
      <3>3. TotalOf(new) = [samples |-> SumOf(Counted(new), Held(new)),
                            newest |-> m, request |-> old[m].request]
        BY <3>1, <3>2, TotalIs
      <3>4. ~(w > m) /\ ~(w >= m)
        BY <2>3, <2>8
      <3>5. ~ \A v \in D : old[v] = NoRow
        BY <1>11 DEF Held
      <3>6. /\ TotalOf(old).samples = SumOf(Counted(old), Held(old))
            /\ TotalOf(old).newest = m /\ TotalOf(old).request = old[m].request
        BY <2>2
      <3>7. History!Added(TotalOf(old), w, part) =
                [samples |-> TotalOf(old).samples + part.samples,
                 newest |-> m, request |-> old[m].request]
        BY <2>5, <3>4, <3>6 DEF History!Added
      <3> QED BY <2>6, <3>3, <3>5, <3>6, <3>7
    <2> QED BY <2>3, <2>7, <2>8
  <1> QED BY <1>10, <1>11 DEF Held

(***************************************************************************)
(* What the open transaction has done so far: to a container nothing, or   *)
(* what merging one part into its three rows does.                         *)
(***************************************************************************)
Untouched(k) ==
    work.five[k] = db.five[k] /\ work.hour[k] = db.hour[k] /\ work.day[k] = db.day[k]

Touched(k, part) ==
    LET h == HourOf(window)
        d == DayOf(h)
    IN  /\ work.five[k] = [db.five[k] EXCEPT ![window] = Grown(db.five[k][window], part)]
        /\ work.hour[k] = [db.hour[k] EXCEPT ![h] = HourRow(work.five[k], h)]
        /\ work.day[k] = [db.day[k] EXCEPT ![d] = DayRow(work.hour[k], d)]

Written == [samples : 1 .. rows, request : Requests]

Pending ==
    pc = "apply" =>
        /\ rows <= MaxRows
        /\ \A k \in Keys : Untouched(k) \/ \E part \in Written : Touched(k, part)

HInv == IInv /\ Pending

\* The same part written by one more sample.
LEMMA GrownMore ==
    ASSUME NEW row \in Slot, NEW n \in Nat \ {0}, NEW q \in Requests, NEW r \in Requests
    PROVE  /\ Upserted(Grown(row, [samples |-> n, request |-> q]), r)
                  = Grown(row, [samples |-> n + 1, request |-> r])
           /\ Upserted(row, r) = Grown(row, [samples |-> 1, request |-> r])
  <1> DEFINE g == Grown(row, [samples |-> n, request |-> q])
             before == IF row = NoRow THEN 0 ELSE row.samples
  <1>1. before \in Nat
    BY DEF Slot, Row5
  <1>2. g = [samples |-> n + before, request |-> q]
    BY DEF Grown
  <1>3. g # NoRow /\ g.samples = n + before
    BY <1>1, <1>2 DEF Row5
  <1>4. Upserted(g, r) = [samples |-> n + before + 1, request |-> r]
    BY <1>3 DEF Upserted
  <1>5. Grown(row, [samples |-> n + 1, request |-> r])
            = [samples |-> n + 1 + before, request |-> r]
    BY DEF Grown
  <1>6. Upserted(row, r) = [samples |-> before + 1, request |-> r]
    BY DEF Upserted
  <1>7. Grown(row, [samples |-> 1, request |-> r]) = [samples |-> 1 + before, request |-> r]
    BY DEF Grown
  <1> QED BY <1>1, <1>4, <1>5, <1>6, <1>7

\* What upsert_5m and merge_up do to the container of the row.
LEMMA WriteRowTables ==
    ASSUME IInv, NEW k \in Keys, NEW r \in Requests, WriteRow(k, r)
    PROVE  LET h == HourOf(window)
               d == DayOf(h)
               f == Upserted(work.five[k][window], r)
           IN  /\ work'.five[k] = [work.five[k] EXCEPT ![window] = f]
               /\ work'.hour[k] = [work.hour[k] EXCEPT ![h] = HourRow(work'.five[k], h)]
               /\ work'.day[k] = [work.day[k] EXCEPT ![d] = DayRow(work'.hour[k], d)]
               /\ \A j \in Keys \ {k} : /\ work'.five[j] = work.five[j]
                                        /\ work'.hour[j] = work.hour[j]
                                        /\ work'.day[j] = work.day[j]
  <1> DEFINE h == HourOf(window)
             d == DayOf(h)
             fives == [work.five[k] EXCEPT ![window] = Upserted(work.five[k][window], r)]
             hours == [work.hour[k] EXCEPT ![h] = HourRow(fives, h)]
             days == [work.day[k] EXCEPT ![d] = DayRow(hours, d)]
  <1>1. DOMAIN work.five = Keys /\ DOMAIN work.hour = Keys /\ DOMAIN work.day = Keys
    BY DEF IInv, TypeOK, TablesOK
  <1>2. /\ work'.five = [work.five EXCEPT ![k] = fives]
        /\ work'.hour = [work.hour EXCEPT ![k] = hours]
        /\ work'.day = [work.day EXCEPT ![k] = days]
    BY DEF WriteRow, Merged
  <1>3. work'.five[k] = fives /\ work'.hour[k] = hours /\ work'.day[k] = days
    BY <1>1, <1>2
  <1>4. \A j \in Keys \ {k} : /\ work'.five[j] = work.five[j]
                              /\ work'.hour[j] = work.hour[j]
                              /\ work'.day[j] = work.day[j]
    BY <1>1, <1>2
  <1> QED BY <1>3, <1>4

LEMMA WriteRowPending ==
    ASSUME HInv, NEW k \in Keys, NEW r \in Requests, WriteRow(k, r)
    PROVE  Pending'
  <1> DEFINE h == HourOf(window)
             d == DayOf(h)
             f == Upserted(work.five[k][window], r)
  <1>1. /\ pc = "apply" /\ rows' = rows + 1 /\ rows < MaxRows /\ rows \in Nat
        /\ db' = db /\ window' = window /\ pc' = pc /\ MaxRows \in Nat
    BY BoundsAssumption DEF WriteRow, HInv, IInv, TypeOK
  <1>2. /\ work'.five[k] = [work.five[k] EXCEPT ![window] = f]
        /\ work'.hour[k] = [work.hour[k] EXCEPT ![h] = HourRow(work'.five[k], h)]
        /\ work'.day[k] = [work.day[k] EXCEPT ![d] = DayRow(work'.hour[k], d)]
        /\ \A j \in Keys \ {k} : /\ work'.five[j] = work.five[j]
                                 /\ work'.hour[j] = work.hour[j]
                                 /\ work'.day[j] = work.day[j]
    BY WriteRowTables DEF HInv
  <1>3. /\ db.five[k] \in [Windows -> Slot] /\ window \in Windows
        /\ DOMAIN db.hour[k] = Hours /\ DOMAIN db.day[k] = Days
        /\ h \in Hours /\ d \in Days
    BY CalendarTypes DEF HInv, IInv, TypeOK, TablesOK
  <1>4. \A part \in Written : part \in Written'
    BY <1>1 DEF Written
  <1>5. ASSUME NEW j \in Keys \ {k}
        PROVE  (Untouched(j) \/ \E part \in Written : Touched(j, part))'
    <2>1. Untouched(j) => Untouched(j)'
      BY <1>1, <1>2 DEF Untouched
    <2>2. \A part : Touched(j, part) => Touched(j, part)'
      BY <1>1, <1>2 DEF Touched
    <2> QED BY <1>1, <1>4, <2>1, <2>2 DEF HInv, Pending
  <1>6. ASSUME NEW part \in Written', f = Grown(db.five[k][window], part),
               \A v \in Windows \ {window} : work.five[k][v] = db.five[k][v],
               \A g \in Hours \ {h} : work.hour[k][g] = db.hour[k][g],
               \A e \in Days \ {d} : work.day[k][e] = db.day[k][e],
               DOMAIN work.five[k] = Windows, DOMAIN work.hour[k] = Hours,
               DOMAIN work.day[k] = Days
        PROVE  Touched(k, part)'
    <2> HIDE DEF h, d, f
    <2>1. work'.five[k] = [db.five[k] EXCEPT ![window] = Grown(db.five[k][window], part)]
      BY <1>2, <1>3, <1>6
    <2>2. work'.hour[k] = [db.hour[k] EXCEPT ![h] = HourRow(work'.five[k], h)]
      BY <1>2, <1>3, <1>6
    <2>3. work'.day[k] = [db.day[k] EXCEPT ![d] = DayRow(work'.hour[k], d)]
      BY <1>2, <1>3, <1>6
    <2> QED BY <1>1, <2>1, <2>2, <2>3 DEF Touched, h, d
  <1>7. (Untouched(k) \/ \E part \in Written : Touched(k, part))'
    <2>1. CASE Untouched(k)
      <3> DEFINE part == [samples |-> 1, request |-> r]
      <3>1. part \in Written'
        BY <1>1 DEF Written
      <3>2. f = Grown(db.five[k][window], part)
        BY <1>3, <2>1, GrownMore DEF Untouched
      <3> HIDE DEF part, h, d, f
      <3>3. Touched(k, part)'
        BY <1>3, <1>6, <2>1, <3>1, <3>2 DEF Untouched
      <3> QED BY <3>1, <3>3
    <2>2. ASSUME NEW old \in Written, Touched(k, old)
          PROVE  (\E part \in Written : Touched(k, part))'
      <3> DEFINE part == [samples |-> old.samples + 1, request |-> r]
      <3>1. /\ part \in Written' /\ old.samples \in Nat \ {0} /\ old.request \in Requests
            /\ old = [samples |-> old.samples, request |-> old.request]
        BY <1>1 DEF Written
      <3>2. work.five[k][window] = Grown(db.five[k][window], old)
        BY <1>3, <2>2 DEF Touched
      <3>3. f = Grown(db.five[k][window], part)
        <4>1. /\ db.five[k][window] \in Slot
              /\ old.samples + 1 \in Nat
          BY <1>3, <3>1
        <4>2. Upserted(Grown(db.five[k][window],
                             [samples |-> old.samples, request |-> old.request]), r)
                  = Grown(db.five[k][window], [samples |-> old.samples + 1, request |-> r])
          BY <3>1, <4>1, GrownMore
        <4> QED BY <3>1, <3>2, <4>2
      <3>4. /\ \A v \in Windows \ {window} : work.five[k][v] = db.five[k][v]
            /\ \A g \in Hours \ {h} : work.hour[k][g] = db.hour[k][g]
            /\ \A e \in Days \ {d} : work.day[k][e] = db.day[k][e]
            /\ DOMAIN work.five[k] = Windows /\ DOMAIN work.hour[k] = Hours
            /\ DOMAIN work.day[k] = Days
        BY <1>3, <2>2 DEF Touched
      <3> HIDE DEF part, h, d, f
      <3>5. Touched(k, part)'
        BY <1>6, <3>1, <3>3, <3>4
      <3> QED BY <3>1, <3>5
    <2> QED BY <1>1, <2>1, <2>2 DEF HInv, Pending
  <1>8. \A j \in Keys : (Untouched(j) \/ \E part \in Written : Touched(j, part))'
    BY <1>5, <1>7
  <1>9. rows' <= MaxRows'
    BY <1>1
  <1> QED BY <1>8, <1>9 DEF Pending

\* Only WriteRow writes in a transaction, and BeginApply opens it on the
\* committed tables.
LEMMA PendingKept == HInv /\ [SteadyNext]_vars => Pending'
  <1> SUFFICES ASSUME HInv, [SteadyNext]_vars PROVE Pending'
    OBVIOUS
  <1>1. ASSUME UNCHANGED <<pc, rows, db, work, window>>
        PROVE  Pending'
    BY <1>1 DEF HInv, Pending, Untouched, Touched, Written
  <1>2. ASSUME NEW w \in Windows, BeginApply(w)
        PROVE  Pending'
    <2>1. work = db /\ work' = work /\ db' = db /\ rows' = 0 /\ MaxRows \in Nat
      BY <1>2, BoundsAssumption DEF BeginApply, HInv, IInv, Retained
    <2> QED BY <2>1 DEF Pending, Untouched
  <1>3. ASSUME pc' # "apply" PROVE Pending'
    BY <1>3 DEF Pending
  <1>4. ASSUME NEW k \in Keys, NEW r \in Requests, WriteRow(k, r)
        PROVE  Pending'
    BY <1>4, WriteRowPending
  <1>5. CASE Tick \/ UNCHANGED vars
    BY <1>1, <1>5 DEF Tick, vars
  <1>6. ASSUME NEW w \in Windows, DropBatch(w) PROVE Pending'
    BY <1>3, <1>6 DEF DropBatch
  <1>7. CASE Commit \/ Rollback
    BY <1>3, <1>7 DEF Commit, Rollback
  <1>8. CASE Purge5m \/ Purge1h \/ Purge1d \/ PurgeFails \/ AskRetention
    BY <1>3, <1>8 DEF Purge5m, Purge1h, Purge1d, PurgeFails, AskRetention
  <1>9. CASE Wipe5m \/ Wipe1h \/ Wipe1d \/ WipeFails
    BY <1>3, <1>9 DEF Wipe5m, Wipe1h, Wipe1d, WipeFails
  <1>10. ASSUME NEW r, Restart(r) PROVE Pending'
    BY <1>3, <1>10 DEF Restart
  <1> QED BY <1>2, <1>4, <1>5, <1>6, <1>7, <1>8, <1>9, <1>10 DEF SteadyNext, Step

THEOREM HistoryInvariant == SteadySpec => []HInv
  <1>1. Init => Pending
    BY DEF Init, Pending
  <1>2. HInv /\ [SteadyNext]_vars => HInv'
    BY NextInv, PendingKept DEF HInv
  <1>3. Init => HInv
    BY <1>1, InitInv DEF HInv
  <1> QED BY <1>2, <1>3, PTL DEF SteadySpec

(***************************************************************************)
(* COMMIT.  What a batch merges into is in reach of the finer rows, so the *)
(* row rebuilt from them is the old one with the part added.               *)
(***************************************************************************)
LEMMA RangesOf ==
    /\ \A h \in Hours : WindowsIn(h) \in SUBSET Windows
    /\ \A d \in Days : WindowsOn(d) \in SUBSET Windows
  BY DEF WindowsIn, WindowsOn

\* The rows a batch merges into are what their finer rows say.
LEMMA RowsBefore ==
    ASSUME IInv, ~torn, pc = "apply", NEW k \in Keys
    PROVE  LET h == HourOf(window)
               d == DayOf(h)
           IN  /\ h \in Hours /\ d \in Days /\ h \in HoursIn(d)
               /\ window \in WindowsIn(h) /\ window \in WindowsOn(d)
               /\ db.hour[k][h] = HourRow(db.five[k], h)
               /\ \A g \in HoursIn(d) : g \in Hours /\ db.hour[k][g] = HourRow(db.ledger[k], g)
               /\ db.day[k][d] = DayRow(db.hour[k], d)
  <1> DEFINE h == HourOf(window)
             d == DayOf(h)
  <1>1. h \in Hours /\ d \in Days /\ h \in HoursIn(d) /\ window \in Windows
        /\ window \in WindowsIn(h) /\ window \in WindowsOn(d)
    BY CalendarTypes DEF HoursIn, WindowsIn, WindowsOn, IInv, TypeOK
  <1>2. InReach(window) /\ Faithful(db)
    BY DEF IInv, Retained
  <1>3. \A g \in HoursIn(d) : g \in Hours /\ db.hour[k][g] = HourRow(db.ledger[k], g)
    BY <1>2 DEF InReach, HoursIn, Faithful, HoursFaithful, WholeHour
  <1>4. \A v \in WindowsIn(h) : db.ledger[k][v] = db.five[k][v]
    BY <1>2 DEF InReach, WindowsIn, Faithful, FivesFaithful
  <1>5. db.hour[k][h] = HourRow(db.five[k], h)
    <2>1. HourRow(db.ledger[k], h) = HourRow(db.five[k], h)
      BY <1>4, HourRowRange
    <2> QED BY <1>1, <1>3, <2>1
  <1>6. d >= DayOf(gone1)
    <2>1. h \in Nat /\ gone1 \in Nat /\ gone1 <= h
      BY <1>1, <1>2, CalendarTypes DEF InReach, IInv, TypeOK
    <2> QED BY <2>1, DayOfMonotone
  <1>7. db.day[k][d] = DayRow([g \in Hours |-> WholeHour(db, k, g)], d)
    BY <1>1, <1>2, <1>6 DEF Faithful, DaysFaithful, WholeDay
  <1>8. \A g \in HoursIn(d) : [x \in Hours |-> WholeHour(db, k, x)][g] = db.hour[k][g]
    BY <1>3 DEF WholeHour
  <1>9. db.day[k][d] = DayRow(db.hour[k], d)
    BY <1>1, <1>7, <1>8, DayRowRange
  <1> QED BY <1>1, <1>3, <1>5, <1>9

LEMMA HourLands ==
    ASSUME HInv, ~torn, pc = "apply", NEW k \in Keys, NEW part \in History!Part,
           Touched(k, part)
    PROVE  \A g \in Hours :
               TotalOf(work.hour[k][g]) =
                   IF g = HourOf(window) THEN History!Added(TotalOf(db.hour[k][g]), window, part)
                   ELSE TotalOf(db.hour[k][g])
  <1> DEFINE h == HourOf(window)
             D == WindowsIn(h)
             old == [v \in D |-> db.five[k][v]]
             new == [v \in D |-> work.five[k][v]]
  <1>1. /\ h \in Hours /\ window \in D /\ D \in SUBSET Windows
        /\ db.hour[k][h] = HourRow(db.five[k], h)
    BY RowsBefore, RangesOf DEF HInv
  <1>2. /\ db.five[k] \in [Windows -> Slot] /\ work.five[k] \in [Windows -> Slot]
        /\ DOMAIN db.hour[k] = Hours
    BY DEF HInv, IInv, TypeOK, TablesOK
  <1>3. /\ work.five[k] = [db.five[k] EXCEPT ![window] = Grown(db.five[k][window], part)]
        /\ work.hour[k] = [db.hour[k] EXCEPT ![h] = HourRow(work.five[k], h)]
    BY DEF Touched
  <1>4. old \in [D -> Slot] /\ new \in [D -> Slot] /\ old # NoRow /\ new # NoRow
    BY <1>1, <1>2
  <1>5. \A v \in D \ {window} : new[v] = old[v]
    BY <1>1, <1>2, <1>3
  <1>6. new[window] = Grown(old[window], part)
    BY <1>1, <1>2, <1>3
  <1>7. new[window] # NoRow
    <2>1. part.samples \in Nat \ {0} /\ part.request \in Requests
      BY BoundsAssumption DEF History!Part
    <2>2. Grown(old[window], part) \in Row5
      BY <1>1, <1>4, <2>1 DEF Grown, Slot, Row5
    <2> QED BY <1>6, <2>2 DEF Row5
  <1>8. HourRow(work.five[k], h) = new
    BY <1>1, <1>7 DEF HourRow
  <1>9. HourRow(db.five[k], h) = IF \A v \in D : old[v] = NoRow THEN NoRow ELSE old
    BY DEF HourRow
  <1>10. work.hour[k][h] = new /\ \A g \in Hours \ {h} : work.hour[k][g] = db.hour[k][g]
    BY <1>1, <1>2, <1>3, <1>8
  <1> HIDE DEF old, new, D, h
  <1>11. TotalOf(new) =
             History!Added(IF \A v \in D : old[v] = NoRow THEN NoRow ELSE TotalOf(old), window, part)
    BY <1>1, <1>4, <1>5, <1>6, RowAdds
  <1>12. TotalOf(db.hour[k][h]) = IF \A v \in D : old[v] = NoRow THEN NoRow ELSE TotalOf(old)
    <2>1. TotalOf(NoRow) = NoRow
      BY DEF TotalOf
    <2>2. db.hour[k][h] = IF \A v \in D : old[v] = NoRow THEN NoRow ELSE old
      BY <1>1, <1>9 DEF h
    <2> QED BY <2>1, <2>2
  <1> QED BY <1>10, <1>11, <1>12 DEF h

\* What a day is rebuilt from, window for window.
Spread(hours, d) ==
    [v \in WindowsOn(d) |-> IF hours[HourOf(v)] = NoRow THEN NoRow ELSE hours[HourOf(v)][v]]

LEMMA DayLands ==
    ASSUME HInv, ~torn, pc = "apply", NEW k \in Keys, NEW part \in History!Part,
           Touched(k, part)
    PROVE  \A e \in Days :
               TotalOf(work.day[k][e]) =
                   IF e = DayOf(HourOf(window))
                     THEN History!Added(TotalOf(db.day[k][e]), window, part)
                     ELSE TotalOf(db.day[k][e])
  <1> DEFINE h == HourOf(window)
             d == DayOf(h)
             D == WindowsOn(d)
             old == Spread(db.hour[k], d)
             new == Spread(work.hour[k], d)
  <1>1. /\ h \in Hours /\ d \in Days /\ h \in HoursIn(d) /\ window \in D
        /\ window \in WindowsIn(h) /\ D \in SUBSET Windows
        /\ db.hour[k][h] = HourRow(db.five[k], h)
        /\ \A g \in HoursIn(d) : g \in Hours /\ db.hour[k][g] = HourRow(db.ledger[k], g)
        /\ db.day[k][d] = DayRow(db.hour[k], d)
    BY RowsBefore, RangesOf DEF HInv
  <1>2. /\ db.five[k] \in [Windows -> Slot] /\ work.five[k] \in [Windows -> Slot]
        /\ DOMAIN db.hour[k] = Hours /\ DOMAIN db.day[k] = Days
        /\ \A g \in Hours : /\ db.hour[k][g] = NoRow \/ db.hour[k][g] \in [WindowsIn(g) -> Slot]
                            /\ work.hour[k][g] = NoRow \/ work.hour[k][g] \in [WindowsIn(g) -> Slot]
    BY DEF HInv, IInv, TypeOK, TablesOK
  <1>3. /\ work.five[k] = [db.five[k] EXCEPT ![window] = Grown(db.five[k][window], part)]
        /\ work.hour[k] = [db.hour[k] EXCEPT ![h] = HourRow(work.five[k], h)]
        /\ work.day[k] = [db.day[k] EXCEPT ![d] = DayRow(work.hour[k], d)]
    BY DEF Touched
  <1>4. \A v \in D : HourOf(v) \in Hours /\ v \in WindowsIn(HourOf(v)) /\ HourOf(v) \in HoursIn(d)
    BY <1>1, CalendarTypes DEF WindowsOn, WindowsIn, HoursIn
  <1>5. old \in [D -> Slot] /\ new \in [D -> Slot] /\ old # NoRow /\ new # NoRow
    <2>1. \A v \in D : old[v] \in Slot /\ new[v] \in Slot
      BY <1>2, <1>4 DEF Spread, Slot
    <2>2. old \in [D -> Slot] /\ new \in [D -> Slot]
      BY <2>1 DEF Spread
    <2> QED BY <1>1, <2>2
  <1>6. Grown(db.five[k][window], part) # NoRow
    <2>1. part.samples \in Nat \ {0} /\ part.request \in Requests
      BY BoundsAssumption DEF History!Part
    <2>2. Grown(db.five[k][window], part) \in Row5
      BY <1>1, <1>2, <2>1 DEF Grown, Slot, Row5
    <2> QED BY <2>2 DEF Row5
  <1>7. /\ work.five[k][window] = Grown(db.five[k][window], part)
        /\ \A v \in Windows \ {window} : work.five[k][v] = db.five[k][v]
    BY <1>1, <1>2, <1>3
  <1>8. work.hour[k][h] = [v \in WindowsIn(h) |-> work.five[k][v]] /\ work.hour[k][h] # NoRow
    <2>1. HourRow(work.five[k], h) = [v \in WindowsIn(h) |-> work.five[k][v]]
      BY <1>1, <1>6, <1>7 DEF HourRow
    <2>2. work.hour[k][h] = HourRow(work.five[k], h)
      BY <1>1, <1>2, <1>3
    <2>3. [v \in WindowsIn(h) |-> work.five[k][v]] \in [WindowsIn(h) -> Slot]
      BY <1>1, <1>2, RangesOf
    <2> QED BY <1>1, <2>1, <2>2, <2>3
  <1>9. \A g \in Hours \ {h} : work.hour[k][g] = db.hour[k][g]
    BY <1>2, <1>3
  <1>10. \A v \in WindowsIn(h) :
            (IF db.hour[k][h] = NoRow THEN NoRow ELSE db.hour[k][h][v]) = db.five[k][v]
    <2>1. CASE \A v \in WindowsIn(h) : db.five[k][v] = NoRow
      BY <1>1, <2>1 DEF HourRow
    <2>2. CASE ~ \A v \in WindowsIn(h) : db.five[k][v] = NoRow
      <3>1. db.hour[k][h] = [v \in WindowsIn(h) |-> db.five[k][v]]
        BY <1>1, <2>2 DEF HourRow
      <3>2. [v \in WindowsIn(h) |-> db.five[k][v]] \in [WindowsIn(h) -> Slot]
        BY <1>1, <1>2, RangesOf
      <3> QED BY <1>1, <3>1, <3>2
    <2> QED BY <2>1, <2>2
  <1>11. \A v \in D \ {window} : new[v] = old[v]
    <2> SUFFICES ASSUME NEW v \in D \ {window} PROVE new[v] = old[v]
      OBVIOUS
    <2>1. CASE HourOf(v) = h
      BY <1>1, <1>4, <1>7, <1>8, <1>10, <2>1 DEF Spread
    <2>2. CASE HourOf(v) # h
      BY <1>4, <1>9, <2>2 DEF Spread
    <2> QED BY <2>1, <2>2
  <1>12. new[window] = Grown(old[window], part)
    BY <1>1, <1>7, <1>8, <1>10 DEF Spread
  <1>13. DayRow(work.hour[k], d) = new
    BY <1>1, <1>8 DEF DayRow, Spread
  <1>14. DayRow(db.hour[k], d) = IF \A g \in HoursIn(d) : db.hour[k][g] = NoRow THEN NoRow ELSE old
    BY DEF DayRow, Spread
  <1>15. (\A g \in HoursIn(d) : db.hour[k][g] = NoRow) <=> \A v \in D : old[v] = NoRow
    <2>1. ASSUME NEW g \in HoursIn(d), db.hour[k][g] # NoRow
          PROVE  \E v \in D : old[v] # NoRow
      <3>1. PICK v \in WindowsIn(g) : db.ledger[k][v] # NoRow
        BY <1>1, <2>1 DEF HourRow
      <3>2. db.hour[k][g] = [u \in WindowsIn(g) |-> db.ledger[k][u]]
        <4>1. db.hour[k][g] = HourRow(db.ledger[k], g)
          BY <1>1
        <4> QED BY <2>1, <4>1 DEF HourRow
      <3>3. v \in D /\ HourOf(v) = g
        BY DEF WindowsIn, WindowsOn, HoursIn
      <3> QED BY <2>1, <3>1, <3>2, <3>3 DEF Spread
    <2> QED BY <1>4, <2>1 DEF Spread
  <1>16. work.day[k][d] = new /\ \A e \in Days \ {d} : work.day[k][e] = db.day[k][e]
    BY <1>1, <1>2, <1>3, <1>13
  <1> HIDE DEF old, new, D, h, d
  <1>17. TotalOf(new) =
             History!Added(IF \A v \in D : old[v] = NoRow THEN NoRow ELSE TotalOf(old), window, part)
    BY <1>1, <1>5, <1>11, <1>12, RowAdds
  <1>18. TotalOf(db.day[k][d]) = IF \A v \in D : old[v] = NoRow THEN NoRow ELSE TotalOf(old)
    <2>1. TotalOf(NoRow) = NoRow
      BY DEF TotalOf
    <2>2. db.day[k][d] = IF \A v \in D : old[v] = NoRow THEN NoRow ELSE old
      BY <1>1, <1>14, <1>15
    <2> QED BY <2>1, <2>2
  <1> QED BY <1>16, <1>17, <1>18 DEF d, h

(***************************************************************************)
(* Every step is a step of the history.                                    *)
(***************************************************************************)
LEMMA SameCalendar ==
    /\ History!Hours = Hours /\ History!Days = Days /\ History!Windows = Windows
    /\ \A w : History!HourOf(w) = HourOf(w)
    /\ \A h : History!DayOf(h) = DayOf(h)
  BY DEF History!Hours, Hours, History!Days, Days, History!Windows, Windows,
         History!HourOf, HourOf, History!DayOf, DayOf

LEMMA NoTotal == TotalOf(NoRow) = NoRow
  BY DEF TotalOf

\* A step that leaves the committed tables alone leaves the history alone.
LEMMA Unseen ==
    ASSUME UNCHANGED <<now, db, torn>>
    PROVE  UNCHANGED History!vars
  BY DEF History!vars, HourTotals, DayTotals

LEMMA StartsEmpty == Init => History!Init
  <1> SUFFICES ASSUME Init PROVE History!Init
    OBVIOUS
  <1>1. now = 0 /\ torn = FALSE /\ db = Empty
    BY DEF Init
  <1>2. /\ Empty.hour = [k \in Keys |-> [h \in Hours |-> NoRow]]
        /\ Empty.day = [k \in Keys |-> [d \in Days |-> NoRow]]
    BY DEF Empty
  <1>3. /\ \A k \in Keys, h \in Hours : TotalOf(db.hour[k][h]) = NoRow
        /\ \A k \in Keys, d \in Days : TotalOf(db.day[k][d]) = NoRow
    BY <1>1, <1>2, NoTotal
  <1>4. HourTotals = [k \in Keys |-> [h \in Hours |-> NoRow]]
    BY <1>3 DEF HourTotals
  <1>5. DayTotals = [k \in Keys |-> [d \in Days |-> NoRow]]
    BY <1>3 DEF DayTotals
  <1> QED BY <1>1, <1>4, <1>5, SameCalendar DEF History!Init

\* A committed batch is landed, once and as a whole; or an "all" purge stopped
\* half-way, and nothing is promised.
LEMMA CommitLands == HInv /\ Commit => History!Next
  <1> SUFFICES ASSUME HInv, Commit PROVE History!Next
    OBVIOUS
  <1>1. /\ pc = "apply" /\ db' = work /\ now' = now /\ torn' = torn /\ window \in Windows
    BY DEF Commit, clockVars, history, HInv, IInv, TypeOK
  <1>2. CASE torn
    <2>1. torn' /\ torn
      BY <1>1, <1>2
    <2>2. History!Wipe
      BY <1>1, <2>1 DEF History!Wipe
    <2> QED BY <2>2 DEF History!Next
  <1>3. CASE ~torn
    <2> DEFINE K == {k \in Keys : ~Untouched(k)}
               batch == [k \in K |-> CHOOSE part \in Written : Touched(k, part)]
    <2>1. Written \subseteq History!Part
      <3>1. rows \in Nat /\ rows <= MaxRows /\ MaxRows \in Nat
        BY <1>1, BoundsAssumption DEF HInv, IInv, TypeOK, Pending
      <3> QED BY <3>1 DEF Written, History!Part
    <2>2. ASSUME NEW k \in K
          PROVE  batch[k] \in History!Part /\ Touched(k, batch[k])
      <3>1. \E part \in Written : Touched(k, part)
        BY <1>1 DEF HInv, Pending
      <3> QED BY <2>1, <3>1
    <2>3. K \in SUBSET Keys /\ batch \in [K -> History!Part]
      BY <2>2
    <2>4. \A k \in Keys \ K : Untouched(k)
      OBVIOUS
    <2> HIDE DEF K, batch
    <2>5. ASSUME NEW k \in Keys, NEW h \in Hours
          PROVE  TotalOf(work.hour[k][h]) =
                     IF k \in K /\ h = HourOf(window)
                       THEN History!Added(TotalOf(db.hour[k][h]), window, batch[k])
                       ELSE TotalOf(db.hour[k][h])
      <3>1. CASE k \in K
        BY <1>1, <1>3, <2>2, <3>1, HourLands
      <3>2. CASE k \notin K
        BY <2>4, <3>2 DEF Untouched
      <3> QED BY <3>1, <3>2
    <2>6. ASSUME NEW k \in Keys, NEW d \in Days
          PROVE  TotalOf(work.day[k][d]) =
                     IF k \in K /\ d = DayOf(HourOf(window))
                       THEN History!Added(TotalOf(db.day[k][d]), window, batch[k])
                       ELSE TotalOf(db.day[k][d])
      <3>1. CASE k \in K
        BY <1>1, <1>3, <2>2, <3>1, DayLands
      <3>2. CASE k \notin K
        BY <2>4, <3>2 DEF Untouched
      <3> QED BY <3>1, <3>2
    <2>7. /\ HourTotals' = [k \in Keys |-> [h \in Hours |-> TotalOf(work.hour[k][h])]]
          /\ DayTotals' = [k \in Keys |-> [d \in Days |-> TotalOf(work.day[k][d])]]
      BY <1>1 DEF HourTotals, DayTotals
    <2>8. /\ \A k \in Keys, h \in Hours : HourTotals[k][h] = TotalOf(db.hour[k][h])
          /\ \A k \in Keys, d \in Days : DayTotals[k][d] = TotalOf(db.day[k][d])
      BY DEF HourTotals, DayTotals
    <2>9. HourTotals' = [k \in Keys |-> [h \in Hours |->
                            IF k \in K /\ h = HourOf(window)
                              THEN History!Added(HourTotals[k][h], window, batch[k])
                              ELSE HourTotals[k][h]]]
      BY <2>5, <2>7, <2>8
    <2>10. DayTotals' = [k \in Keys |-> [d \in Days |->
                            IF k \in K /\ d = DayOf(HourOf(window))
                              THEN History!Added(DayTotals[k][d], window, batch[k])
                              ELSE DayTotals[k][d]]]
      BY <2>6, <2>7, <2>8
    <2>11. History!Land(window)
      <3>1. HourTotals' = [k \in Keys |-> [h \in History!Hours |->
                              IF k \in K /\ h = History!HourOf(window)
                                THEN History!Added(HourTotals[k][h], window, batch[k])
                                ELSE HourTotals[k][h]]]
        BY <2>9, SameCalendar
      <3>2. DayTotals' = [k \in Keys |-> [d \in History!Days |->
                             IF k \in K /\ d = History!DayOf(History!HourOf(window))
                               THEN History!Added(DayTotals[k][d], window, batch[k])
                               ELSE DayTotals[k][d]]]
        BY <2>10, SameCalendar
      <3> QED BY <1>1, <2>3, <3>1, <3>2, Zenon DEF History!Land
    <2> QED BY <1>1, <2>11, SameCalendar DEF History!Next
  <1> QED BY <1>2, <1>3

\* The DELETE of hours forgets those below its floor, or none at all while
\* the server is younger than the retention.
LEMMA Purge1hForgets == HInv /\ Purge1h => [History!Next]_(History!vars)
  <1> SUFFICES ASSUME HInv, Purge1h PROVE [History!Next]_(History!vars)
    OBVIOUS
  <1> DEFINE cut == RollFloor(purgeAt)
  <1>1. /\ now' = now /\ torn' = torn /\ db'.day = db.day /\ TablesOK(db)
        /\ db'.hour = [k \in Keys |-> [h \in Hours |->
                          IF h < cut THEN NoRow ELSE db.hour[k][h]]]
        /\ now \in Nat /\ purgeAt \in Nat /\ purgeAt <= now /\ raw \in Nat
    BY RetentionAssumption
       DEF Purge1h, Install, clockVars, history, HInv, IInv, TypeOK, Retained
  <1>2. cut \in Int /\ cut <= RollFloor(now) /\ RollFloor(now) \in Int
    BY <1>1, Floors
  <1>3. RollFloor(now) = HourOf(now) - RollHours /\ HourOf(now) \in Int /\ RollHours \in Nat
    BY <1>1, HourOfMonotone, RetentionAssumption DEF RollFloor
  <1>4. DayTotals' = DayTotals
    BY <1>1 DEF DayTotals
  <1>5. /\ \A k \in Keys, h \in Hours : HourTotals[k][h] = TotalOf(db.hour[k][h])
        /\ HourTotals = [k \in Keys |-> [h \in Hours |-> HourTotals[k][h]]]
        /\ HourTotals' = [k \in Keys |-> [h \in Hours |-> TotalOf(db'.hour[k][h])]]
    BY DEF HourTotals
  <1>6. \A k \in Keys, h \in Hours :
            TotalOf(db'.hour[k][h]) = IF h < cut THEN NoRow ELSE HourTotals[k][h]
    <2> HIDE DEF cut
    <2>1. \A k \in Keys, h \in Hours :
              db'.hour[k][h] = IF h < cut THEN NoRow ELSE db.hour[k][h]
      BY <1>1
    <2> QED BY <1>5, <2>1, NoTotal
  <1>7. HourTotals' = [k \in Keys |-> [h \in Hours |->
                          IF h < cut THEN NoRow ELSE HourTotals[k][h]]]
    <2> HIDE DEF cut
    <2> QED BY <1>5, <1>6
  <1> HIDE DEF cut
  <1>8. CASE cut >= 0
    <2>1. cut \in 0 .. HourOf(now) /\ cut <= HourOf(now) - RollHours
      BY <1>2, <1>3, <1>8
    <2>2. History!ForgetHours(cut)
      BY <1>1, <1>4, <1>7, <2>1, SameCalendar DEF History!ForgetHours
    <2> QED BY <2>1, <2>2, SameCalendar DEF History!Next
  <1>9. CASE cut < 0
    <2>1. \A h \in Hours : ~(h < cut)
      BY <1>2, <1>9, CalendarTypes
    <2>2. HourTotals' = HourTotals
      BY <1>5, <1>7, <2>1
    <2> QED BY <1>1, <1>4, <2>2 DEF History!vars
  <1> QED BY <1>2, <1>8, <1>9

LEMMA Purge1dForgets == HInv /\ Purge1d => [History!Next]_(History!vars)
  <1> SUFFICES ASSUME HInv, Purge1d PROVE [History!Next]_(History!vars)
    OBVIOUS
  <1> DEFINE cut == DayOf(RollFloor(purgeAt))
  <1>1. /\ now' = now /\ torn' = torn /\ db'.hour = db.hour /\ TablesOK(db)
        /\ db'.day = [k \in Keys |-> [d \in Days |->
                         IF d < cut THEN NoRow ELSE db.day[k][d]]]
        /\ now \in Nat /\ purgeAt \in Nat /\ purgeAt <= now /\ raw \in Nat
    BY RetentionAssumption
       DEF Purge1d, Install, clockVars, history, HInv, IInv, TypeOK, Retained
  <1>2. /\ RollFloor(purgeAt) \in Int /\ RollFloor(now) \in Int
        /\ RollFloor(purgeAt) <= RollFloor(now)
    BY <1>1, Floors
  <1>3. /\ RollFloor(now) = HourOf(now) - RollHours /\ HourOf(now) \in Int
        /\ RollFloor(now) <= HourOf(now)
    BY <1>1, HourOfMonotone, RetentionAssumption DEF RollFloor
  <1>4. /\ cut \in Int /\ cut <= DayOf(HourOf(now) - RollHours)
        /\ cut <= DayOf(HourOf(now)) /\ DayOf(HourOf(now)) \in Int
    <2>1. RollFloor(purgeAt) <= HourOf(now)
      BY <1>2, <1>3
    <2> QED BY <1>2, <1>3, <2>1, DayOfMonotone
  <1>5. HourTotals' = HourTotals
    BY <1>1 DEF HourTotals
  <1>6. /\ \A k \in Keys, d \in Days : DayTotals[k][d] = TotalOf(db.day[k][d])
        /\ DayTotals = [k \in Keys |-> [d \in Days |-> DayTotals[k][d]]]
        /\ DayTotals' = [k \in Keys |-> [d \in Days |-> TotalOf(db'.day[k][d])]]
    BY DEF DayTotals
  <1> HIDE DEF cut
  <1>7. \A k \in Keys, d \in Days :
            TotalOf(db'.day[k][d]) = IF d < cut THEN NoRow ELSE DayTotals[k][d]
    <2>1. \A k \in Keys, d \in Days :
              db'.day[k][d] = IF d < cut THEN NoRow ELSE db.day[k][d]
      BY <1>1
    <2> QED BY <1>6, <2>1, NoTotal
  <1>8. DayTotals' = [k \in Keys |-> [d \in Days |->
                         IF d < cut THEN NoRow ELSE DayTotals[k][d]]]
    BY <1>6, <1>7
  <1>9. CASE cut >= 0
    <2>1. cut \in 0 .. DayOf(HourOf(now))
      BY <1>4, <1>9
    <2>2. History!ForgetDays(cut)
      BY <1>1, <1>4, <1>5, <1>8, SameCalendar DEF History!ForgetDays
    <2> QED BY <2>1, <2>2, SameCalendar DEF History!Next
  <1>10. CASE cut < 0
    <2>1. \A d \in Days : ~(d < cut)
      BY <1>4, <1>10 DEF Days
    <2>2. DayTotals' = DayTotals
      BY <1>6, <1>8, <2>1
    <2> QED BY <1>1, <1>5, <2>2 DEF History!vars
  <1> QED BY <1>4, <1>9, <1>10

\* An "all" purge promises nothing until its last DELETE, which finds the
\* other tables empty.
LEMMA WipesOnTheWay == Wipe5m \/ (HInv /\ Wipe1h) => History!Next
  <1>1. Wipe5m => now' = now /\ torn'
    BY DEF Wipe5m, clockVars
  <1>2. HInv /\ Wipe1h => now' = now /\ torn /\ torn'
    BY DEF Wipe1h, clockVars, history, HInv, IInv, Retained
  <1>3. now' = now /\ torn' => History!Wipe
    BY DEF History!Wipe
  <1> QED BY <1>1, <1>2, <1>3 DEF History!Next

LEMMA WipeEnds == HInv /\ Wipe1d => History!Next
  <1> SUFFICES ASSUME HInv, Wipe1d PROVE History!Next
    OBVIOUS
  <1>1. /\ now' = now /\ torn /\ db.hour = Empty.hour
        /\ db'.hour = db.hour /\ db'.day = Empty.day
    BY DEF Wipe1d, Install, clockVars, HInv, IInv, TypeOK, TablesOK, Retained
  <1>2. /\ Empty.hour = [k \in Keys |-> [h \in Hours |-> NoRow]]
        /\ Empty.day = [k \in Keys |-> [d \in Days |-> NoRow]]
    BY DEF Empty
  <1>3. /\ \A k \in Keys, h \in Hours : TotalOf(db'.hour[k][h]) = NoRow
        /\ \A k \in Keys, d \in Days : TotalOf(db'.day[k][d]) = NoRow
    BY <1>1, <1>2, NoTotal
  <1>4. /\ HourTotals' = [k \in Keys |-> [h \in Hours |-> NoRow]]
        /\ DayTotals' = [k \in Keys |-> [d \in Days |-> NoRow]]
    BY <1>3 DEF HourTotals, DayTotals
  <1>5. History!Wipe
    BY <1>1, <1>4, SameCalendar DEF History!Wipe
  <1> QED BY <1>5 DEF History!Next

LEMMA TimeIsSeen == HInv /\ Tick => History!Next
  <1> SUFFICES ASSUME HInv, Tick PROVE History!Next
    OBVIOUS
  <1>1. now \in Nat /\ now' = now + 1 /\ db' = db /\ torn' = torn
    BY DEF Tick, history, HInv, IInv, TypeOK
  <1>2. HourTotals' = HourTotals /\ DayTotals' = DayTotals
    BY <1>1 DEF HourTotals, DayTotals
  <1>3. History!TimePasses
    BY <1>1, <1>2 DEF History!TimePasses
  <1> QED BY <1>3 DEF History!Next

\* Purge5m takes 5m rows only, of which the history knows nothing.
LEMMA Purge5mUnseen == HInv /\ Purge5m => UNCHANGED History!vars
  <1> SUFFICES ASSUME HInv, Purge5m PROVE UNCHANGED History!vars
    OBVIOUS
  <1>1. now' = now /\ torn' = torn /\ db'.hour = db.hour /\ db'.day = db.day
    BY DEF Purge5m, Install, clockVars, HInv, IInv, TypeOK, TablesOK
  <1> QED BY <1>1 DEF History!vars, HourTotals, DayTotals

LEMMA StepsSeen == HInv /\ [SteadyNext]_vars => [History!Next]_(History!vars)
  <1> SUFFICES ASSUME HInv, [SteadyNext]_vars PROVE [History!Next]_(History!vars)
    OBVIOUS
  <1>1. CASE UNCHANGED vars
    BY <1>1, Unseen DEF vars, history
  <1>2. ASSUME NEW w \in Windows, BeginApply(w) \/ DropBatch(w)
        PROVE  [History!Next]_(History!vars)
    BY <1>2, Unseen DEF BeginApply, DropBatch, clockVars, history
  <1>3. ASSUME NEW k \in Keys, NEW r \in Requests, WriteRow(k, r)
        PROVE  [History!Next]_(History!vars)
    BY <1>3, Unseen DEF WriteRow, clockVars, history
  <1>4. CASE Rollback \/ PurgeFails \/ AskRetention \/ WipeFails
    BY <1>4, Unseen DEF Rollback, PurgeFails, AskRetention, WipeFails, clockVars, history
  <1>5. ASSUME NEW r, Restart(r)
        PROVE  [History!Next]_(History!vars)
    BY <1>5, Unseen DEF Restart, history
  <1> QED BY <1>1, <1>2, <1>3, <1>4, <1>5, TimeIsSeen, CommitLands, Purge5mUnseen,
             Purge1hForgets, Purge1dForgets, WipesOnTheWay, WipeEnds
          DEF SteadyNext, Step

\* Through any number of batches in any order, purges, failures and restarts,
\* an hourly or daily row is what adding every batch once would give, and only
\* retention and an "all" purge take anything away.
THEOREM HistoryIsImplemented == SteadySpec => ImplementsUsageHistory
  <1> QED BY HistoryInvariant, StartsEmpty, StepsSeen, PTL
          DEF SteadySpec, ImplementsUsageHistory, History!Spec
=============================================================================
