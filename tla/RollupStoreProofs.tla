-------------------------- MODULE RollupStoreProofs --------------------------
(***************************************************************************)
(* The usage history is complete for every calendar, every set of          *)
(* containers, every retention that RetentionAssumption admits and any     *)
(* number of batches, purges and restarts that do not raise the retention. *)
(***************************************************************************)
EXTENDS RollupStore, TLAPS

---------------------------------------------------------------------------
\* The calendar.

\* Flooring to a larger unit (floor_hour, with_hour(0)): what \div is.
LEMMA DivFacts ==
    ASSUME NEW n \in Int, NEW u \in Nat \ {0}
    PROVE  /\ n \div u \in Int
           /\ u * (n \div u) <= n
           /\ n < u * (n \div u) + u
  <1>1. /\ n \div u \in Int /\ n % u \in 0 .. u - 1
        /\ n = u * (n \div u) + (n % u)
    BY SMTT(30)
  <1> QED BY <1>1

LEMMA MulMonotone ==
    ASSUME NEW u \in Nat \ {0}, NEW a \in Int, NEW b \in Int, a < b
    PROVE  u * a + u <= u * b
  <1>1. b - a - 1 \in Nat /\ u \in Nat
    OBVIOUS
  <1>2. u * (b - a - 1) >= 0
    BY <1>1, SMTT(30)
  <1>3. u * (b - a - 1) = u * b - u * a - u
    BY SMTT(30)
  <1>4. u * b \in Int /\ u * a \in Int
    OBVIOUS
  <1> QED BY <1>2, <1>3, <1>4

LEMMA DivMonotone ==
    ASSUME NEW u \in Nat \ {0}, NEW m \in Int, NEW n \in Int, m <= n
    PROVE  m \div u <= n \div u
  <1> DEFINE a == m \div u
             b == n \div u
  <1>1. a \in Int /\ u * a <= m /\ b \in Int /\ n < u * b + u
    BY DivFacts
  <1>2. CASE b < a
    <2>1. u * b + u <= u * a
      BY <1>1, <1>2, MulMonotone
    <2>2. u * a \in Int /\ u * b \in Int
      BY <1>1
    <2> HIDE DEF a, b
    <2> QED BY <1>1, <2>1, <2>2
  <1> QED BY <1>1, <1>2

\* A number below b units lies in one of the units 0 .. b - 1.
LEMMA DivBelow ==
    ASSUME NEW u \in Nat \ {0}, NEW b \in Nat, NEW n \in Nat, n < b * u
    PROVE  n \div u \in 0 .. b - 1
  <1> DEFINE q == n \div u
  <1>1. q \in Int /\ u * q <= n /\ n < u * q + u
    BY DivFacts
  <1>2. u * b = b * u /\ u * b \in Nat
    OBVIOUS
  <1>3. CASE q < 0
    <2>1. u * q + u <= u * 0
      BY <1>1, <1>3, MulMonotone
    <2>2. u * q \in Int /\ u * 0 = 0
      BY <1>1
    <2> HIDE DEF q
    <2> QED BY <1>1, <2>1, <2>2
  <1>4. CASE b < q
    <2>1. u * b + u <= u * q
      BY <1>1, <1>4, MulMonotone
    <2>2. u * q \in Int
      BY <1>1
    <2> HIDE DEF q
    <2> QED BY <1>1, <1>2, <2>1, <2>2
  <1>5. CASE q = b
    BY <1>1, <1>2, <1>5
  <1> HIDE DEF q
  <1>6. q \in 0 .. b - 1
    BY <1>1, <1>3, <1>4, <1>5
  <1> QED BY <1>6 DEF q

\* Two members of one unit are less than a unit apart.
LEMMA SameUnit ==
    ASSUME NEW u \in Nat \ {0}, NEW m \in Int, NEW n \in Int,
           m \div u = n \div u
    PROVE  m - n < u
  <1>1. m < u * (m \div u) + u /\ u * (n \div u) <= n
    BY DivFacts
  <1>2. u * (n \div u) \in Int
    BY DivFacts
  <1> QED BY <1>1, <1>2

\* Every window lies in an hour and every hour in a day (CalendarDays bounds
\* all three).
LEMMA CalendarTypes ==
    /\ \A w \in Windows : w \in Nat /\ HourOf(w) \in Hours
    /\ \A h \in Hours : h \in Nat /\ DayOf(h) \in Days
    /\ 0 \in Windows
  <1> USE CalendarAssumption
  <1> DEFINE H == CalendarDays * HoursPerDay
  <1>1. H \in Nat \ {0} /\ H * SlotsPerHour \in Nat \ {0}
    <2>1. ASSUME NEW a \in Nat \ {0}, NEW b \in Nat \ {0}
          PROVE  a * b \in Nat \ {0}
      BY SMTT(30)
    <2> QED BY <2>1
  <1>2. ASSUME NEW w \in Windows PROVE w \in Nat /\ HourOf(w) \in Hours
    <2>1. w \in Nat /\ w < H * SlotsPerHour
      BY <1>1 DEF Windows
    <2> QED BY <2>1, <1>1, DivBelow DEF HourOf, Hours
  <1>3. ASSUME NEW h \in Hours PROVE h \in Nat /\ DayOf(h) \in Days
    <2>1. h \in Nat /\ h < CalendarDays * HoursPerDay
      BY <1>1 DEF Hours
    <2> QED BY <2>1, DivBelow DEF DayOf, Days
  <1>4. 0 \in Windows
    BY <1>1 DEF Windows
  <1> QED BY <1>2, <1>3, <1>4

LEMMA HourOfMonotone ==
    ASSUME NEW m \in Int, NEW n \in Int, m <= n
    PROVE  HourOf(m) \in Int /\ HourOf(n) \in Int /\ HourOf(m) <= HourOf(n)
  BY CalendarAssumption, DivMonotone, DivFacts DEF HourOf

LEMMA DayOfMonotone ==
    ASSUME NEW m \in Int, NEW n \in Int, m <= n
    PROVE  DayOf(m) \in Int /\ DayOf(n) \in Int /\ DayOf(m) <= DayOf(n)
  BY CalendarAssumption, DivMonotone, DivFacts DEF DayOf

\* Two hours of a day are at most HoursPerDay - 1 apart.
LEMMA SameDay ==
    ASSUME NEW m \in Int, NEW n \in Int, DayOf(m) = DayOf(n)
    PROVE  m - n < HoursPerDay
  BY CalendarAssumption, SameUnit DEF DayOf

---------------------------------------------------------------------------
\* What retention has deleted, and what is left.

\* A window whose hour still has all its 5m rows and whose day still has all
\* its hourly rows: what apply may merge into.
InReach(w) ==
    /\ HourOf(w) >= gone5
    /\ \A h \in HoursIn(DayOf(HourOf(w))) : h >= gone1

FivesFaithful(t) ==
    \A k \in Keys, w \in Windows :
        HourOf(w) >= gone5 => t.five[k][w] = t.ledger[k][w]
HoursFaithful(t) ==
    \A k \in Keys, h \in Hours :
        /\ t.hour[k][h] \in {NoRow, WholeHour(t, k, h)}
        /\ h >= gone1 => t.hour[k][h] = WholeHour(t, k, h)
DaysFaithful(t) ==
    \A k \in Keys, d \in Days :
        /\ t.day[k][d] \in {NoRow, WholeDay(t, k, d)}
        /\ d >= DayOf(gone1) => t.day[k][d] = WholeDay(t, k, d)
Faithful(t) == FivesFaithful(t) /\ HoursFaithful(t) /\ DaysFaithful(t)

\* The strengthening: retention has deleted nothing above today's floors, and
\* what it has not deleted is what was accepted.
Retained ==
    /\ pc # "apply" => work = db
    /\ purgeAt <= now
    /\ gone5 = 0 \/ gone5 <= RawFloor(now)
    /\ gone1 = 0 \/ gone1 <= RollFloor(now)
    /\ pc = "purge1d" => gone1 >= RollFloor(purgeAt)
    /\ pc = "apply" => InReach(window)
    /\ pc \in {"wipe1h", "wipe1d"} =>
          torn /\ db.five = Empty.five /\ db.ledger = Empty.ledger
    /\ pc = "wipe1d" => db.hour = Empty.hour
    /\ torn \/ (Faithful(db) /\ Faithful(work))

IInv == TypeOK /\ Retained

---------------------------------------------------------------------------
\* compact_into looks only at the rows of its range.
LEMMA HourRowRange ==
    ASSUME NEW f, NEW g, NEW h, \A w \in WindowsIn(h) : f[w] = g[w]
    PROVE  HourRow(f, h) = HourRow(g, h)
  BY DEF HourRow

LEMMA DayRowRange ==
    ASSUME NEW f, NEW g, NEW d \in Days, \A h \in HoursIn(d) : f[h] = g[h]
    PROVE  DayRow(f, d) = DayRow(g, d)
  <1>1. \A w \in WindowsOn(d) : HourOf(w) \in HoursIn(d)
    BY CalendarTypes DEF WindowsOn, HoursIn
  <1> QED BY <1>1 DEF DayRow

\* A rebuilt row is a row.
LEMMA HourRowType ==
    ASSUME NEW f \in [Windows -> Slot], NEW h \in Hours
    PROVE  HourRow(f, h) = NoRow \/ HourRow(f, h) \in [WindowsIn(h) -> Slot]
  BY DEF HourRow, WindowsIn

LEMMA DayRowType ==
    ASSUME NEW f, NEW d \in Days,
           \A h \in Hours : f[h] = NoRow \/ f[h] \in [WindowsIn(h) -> Slot]
    PROVE  DayRow(f, d) = NoRow \/ DayRow(f, d) \in [WindowsOn(d) -> Slot]
  <1>1. ASSUME NEW w \in WindowsOn(d)
        PROVE  (IF f[HourOf(w)] = NoRow THEN NoRow ELSE f[HourOf(w)][w]) \in Slot
    <2>1. HourOf(w) \in Hours /\ w \in WindowsIn(HourOf(w))
      BY CalendarTypes DEF WindowsOn, WindowsIn
    <2> QED BY <2>1 DEF Slot
  <1> QED BY <1>1 DEF DayRow

\* With nothing in the ledger there is no row to rebuild.
LEMMA EmptyRows ==
    /\ \A h : HourRow([w \in Windows |-> NoRow], h) = NoRow
    /\ \A d : DayRow([h \in Hours |-> NoRow], d) = NoRow
  BY DEF HourRow, DayRow, WindowsIn, HoursIn

LEMMA EmptyTables == TablesOK(Empty)
  <1> DEFINE E == Empty
  <1>1. /\ E.five = [k \in Keys |-> [w \in Windows |-> NoRow]]
        /\ E.hour = [k \in Keys |-> [h \in Hours |-> NoRow]]
        /\ E.day = [k \in Keys |-> [d \in Days |-> NoRow]]
        /\ E.ledger = [k \in Keys |-> [w \in Windows |-> NoRow]]
        /\ E = [five |-> E.five, hour |-> E.hour, day |-> E.day,
                ledger |-> E.ledger]
    BY DEF Empty
  <1> HIDE DEF E
  <1>2. TablesOK(E)
    BY <1>1 DEF TablesOK, Slot
  <1> QED BY <1>2 DEF E

---------------------------------------------------------------------------
\* upsert_5m and merge_up keep the tables well formed.
LEMMA MergedType ==
    ASSUME NEW t, TablesOK(t), NEW k \in Keys, NEW w \in Windows,
           NEW r \in Requests
    PROVE  TablesOK(Merged(t, k, w, r))
  <1> DEFINE h == HourOf(w)
             d == DayOf(h)
             fives  == [t.five[k] EXCEPT ![w] = Upserted(t.five[k][w], r)]
             hours  == [t.hour[k] EXCEPT ![h] = HourRow(fives, h)]
             days   == [t.day[k] EXCEPT ![d] = DayRow(hours, d)]
             ledger == [t.ledger[k] EXCEPT ![w] = Upserted(t.ledger[k][w], r)]
             m == Merged(t, k, w, r)
  <1>1. h \in Hours /\ d \in Days
    BY CalendarTypes
  <1>2. ASSUME NEW s \in Slot PROVE Upserted(s, r) \in Slot
    BY <1>2, RowAssumption DEF Upserted, Slot, Row5
  <1>3. /\ t.five[k] \in [Windows -> Slot] /\ t.ledger[k] \in [Windows -> Slot]
        /\ \A g \in Hours : t.hour[k][g] = NoRow
                              \/ t.hour[k][g] \in [WindowsIn(g) -> Slot]
        /\ t.hour[k] = [g \in Hours |-> t.hour[k][g]]
        /\ t.day[k] = [e \in Days |-> t.day[k][e]]
        /\ \A e \in Days : t.day[k][e] = NoRow
                              \/ t.day[k][e] \in [WindowsOn(e) -> Slot]
    BY DEF TablesOK
  <1>4. fives \in [Windows -> Slot] /\ ledger \in [Windows -> Slot]
    BY <1>2, <1>3
  <1>5. /\ \A g \in Hours : hours[g] = NoRow
                              \/ hours[g] \in [WindowsIn(g) -> Slot]
        /\ hours = [g \in Hours |-> hours[g]]
    BY <1>1, <1>3, <1>4, HourRowType
  <1>6. /\ \A e \in Days : days[e] = NoRow
                              \/ days[e] \in [WindowsOn(e) -> Slot]
        /\ days = [e \in Days |-> days[e]]
    BY <1>1, <1>3, <1>5, DayRowType
  <1>7. /\ m.five = [t.five EXCEPT ![k] = fives]
        /\ m.hour = [t.hour EXCEPT ![k] = hours]
        /\ m.day = [t.day EXCEPT ![k] = days]
        /\ m.ledger = [t.ledger EXCEPT ![k] = ledger]
        /\ m = [five |-> m.five, hour |-> m.hour, day |-> m.day,
                ledger |-> m.ledger]
    BY DEF Merged
  <1> HIDE DEF fives, hours, days, ledger, m, h, d
  <1>8. TablesOK(m)
    <2> USE DEF TablesOK
    <2>1. m.five \in [Keys -> [Windows -> Slot]]
      BY <1>4, <1>7
    <2>2. m.ledger \in [Keys -> [Windows -> Slot]]
      BY <1>4, <1>7
    <2>3. m.hour = [j \in Keys |-> [g \in Hours |-> m.hour[j][g]]]
      <3>1. DOMAIN t.hour = Keys
        OBVIOUS
      <3>2. \A j \in Keys : t.hour[j] = [g \in Hours |-> t.hour[j][g]]
        OBVIOUS
      <3>3. m.hour = [j \in Keys |-> IF j = k THEN hours ELSE t.hour[j]]
        BY <1>7, <3>1
      <3>4. \A j \in Keys : m.hour[j] = [g \in Hours |-> m.hour[j][g]]
        BY <1>5, <3>2, <3>3
      <3> HIDE DEF TablesOK
      <3> QED BY <3>3, <3>4, Zenon
    <2>4. m.day = [j \in Keys |-> [e \in Days |-> m.day[j][e]]]
      <3>1. DOMAIN t.day = Keys
        OBVIOUS
      <3>2. \A j \in Keys : t.day[j] = [g \in Days |-> t.day[j][g]]
        OBVIOUS
      <3>3. m.day = [j \in Keys |-> IF j = k THEN days ELSE t.day[j]]
        BY <1>7, <3>1
      <3>4. \A j \in Keys : m.day[j] = [g \in Days |-> m.day[j][g]]
        BY <1>6, <3>2, <3>3
      <3> HIDE DEF TablesOK
      <3> QED BY <3>3, <3>4, Zenon
    <2>5. \A j \in Keys, g \in Hours :
            m.hour[j][g] = NoRow \/ m.hour[j][g] \in [WindowsIn(g) -> Slot]
      BY <1>5, <1>7
    <2>6. \A j \in Keys, e \in Days :
            m.day[j][e] = NoRow \/ m.day[j][e] \in [WindowsOn(e) -> Slot]
      BY <1>6, <1>7
    <2> QED BY <1>7, <2>1, <2>2, <2>3, <2>4, <2>5, <2>6
  <1> QED BY <1>8 DEF m

\* The heart of it: rebuilding the hour and the day of a window in reach from
\* the finer rows present is the same as merging into everything accepted.
LEMMA MergedFaithful ==
    ASSUME NEW t, TablesOK(t), Faithful(t), NEW k \in Keys,
           NEW w \in Windows, InReach(w), NEW r \in Requests
    PROVE  Faithful(Merged(t, k, w, r))
  <1> DEFINE h == HourOf(w)
             d == DayOf(h)
             fives  == [t.five[k] EXCEPT ![w] = Upserted(t.five[k][w], r)]
             hours  == [t.hour[k] EXCEPT ![h] = HourRow(fives, h)]
             days   == [t.day[k] EXCEPT ![d] = DayRow(hours, d)]
             ledger == [t.ledger[k] EXCEPT ![w] = Upserted(t.ledger[k][w], r)]
             m == Merged(t, k, w, r)
  <1>1. h \in Hours /\ d \in Days /\ h \in HoursIn(d) /\ w \in WindowsIn(h)
    BY CalendarTypes DEF HoursIn, WindowsIn
  <1>2. /\ DOMAIN t.five = Keys /\ DOMAIN t.ledger = Keys
        /\ DOMAIN t.hour = Keys /\ DOMAIN t.day = Keys
        /\ DOMAIN t.five[k] = Windows /\ DOMAIN t.ledger[k] = Windows
        /\ DOMAIN t.hour[k] = Hours /\ DOMAIN t.day[k] = Days
    BY DEF TablesOK
  <1>3. /\ m.five = [t.five EXCEPT ![k] = fives]
        /\ m.hour = [t.hour EXCEPT ![k] = hours]
        /\ m.day = [t.day EXCEPT ![k] = days]
        /\ m.ledger = [t.ledger EXCEPT ![k] = ledger]
    BY DEF Merged
  <1>4. t.five[k][w] = t.ledger[k][w]
    BY DEF Faithful, FivesFaithful, InReach
  <1>5. \A v \in Windows : HourOf(v) >= gone5 => fives[v] = ledger[v]
    BY <1>2, <1>4 DEF Faithful, FivesFaithful
  <1>6. \A j \in Keys : j # k => /\ m.five[j] = t.five[j]
                                 /\ m.hour[j] = t.hour[j]
                                 /\ m.day[j] = t.day[j]
                                 /\ m.ledger[j] = t.ledger[j]
    BY <1>2, <1>3
  <1>7. /\ m.five[k] = fives /\ m.hour[k] = hours /\ m.day[k] = days
        /\ m.ledger[k] = ledger
    BY <1>2, <1>3
  <1>8. \A v \in Windows : v # w => ledger[v] = t.ledger[k][v]
    BY <1>2
  <1>9. \A g \in Hours : hours[g] = IF g = h THEN HourRow(fives, h)
                                    ELSE t.hour[k][g]
    BY <1>1, <1>2
  <1>10. \A e \in Days : days[e] = IF e = d THEN DayRow(hours, d)
                                   ELSE t.day[k][e]
    BY <1>1, <1>2
  <1> HIDE DEF m, fives, hours, days, ledger
  <1>11. FivesFaithful(m)
    BY <1>5, <1>6, <1>7 DEF Faithful, FivesFaithful
  <1>12. \A g \in Hours : g # h => WholeHour(m, k, g) = WholeHour(t, k, g)
    <2>1. ASSUME NEW g \in Hours, g # h
          PROVE  \A v \in WindowsIn(g) : ledger[v] = t.ledger[k][v]
      BY <1>8, <2>1 DEF WindowsIn
    <2> QED BY <1>7, <2>1, HourRowRange DEF WholeHour
  <1>13. HourRow(fives, h) = WholeHour(m, k, h)
    <2>1. \A v \in WindowsIn(h) : fives[v] = ledger[v]
      BY <1>5 DEF InReach, WindowsIn
    <2> QED BY <1>7, <2>1, HourRowRange DEF WholeHour
  <1>14. HoursFaithful(m)
    <2>1. ASSUME NEW j \in Keys, j # k
          PROVE  \A g : WholeHour(m, j, g) = WholeHour(t, j, g)
      BY <1>6, <2>1 DEF WholeHour
    <2>2. ASSUME NEW j \in Keys, NEW g \in Hours
          PROVE  /\ m.hour[j][g] \in {NoRow, WholeHour(m, j, g)}
                 /\ g >= gone1 => m.hour[j][g] = WholeHour(m, j, g)
      <3>1. CASE j = k
        BY <1>7, <1>12, <1>13, <1>9, <3>1 DEF Faithful, HoursFaithful
      <3>2. CASE j # k
        BY <1>6, <2>1, <3>2 DEF Faithful, HoursFaithful
      <3> QED BY <3>1, <3>2
    <2> QED BY <2>2 DEF HoursFaithful
  <1>15. \A e \in Days : e # d => WholeDay(m, k, e) = WholeDay(t, k, e)
    <2>1. ASSUME NEW e \in Days, e # d
          PROVE  \A g \in HoursIn(e) : /\ g \in Hours
                                       /\ WholeHour(m, k, g) = WholeHour(t, k, g)
      BY <1>1, <1>12, <2>1 DEF HoursIn
    <2> QED BY <2>1, DayRowRange DEF WholeDay
  <1>16. DayRow(hours, d) = WholeDay(m, k, d)
    <2>1. \A g \in HoursIn(d) : g \in Hours /\ g >= gone1
      BY DEF InReach, HoursIn
    <2>2. \A g \in HoursIn(d) : hours[g] = WholeHour(m, k, g)
      BY <1>7, <1>14, <2>1 DEF HoursFaithful
    <2>3. \A g \in HoursIn(d) :
            hours[g] = [x \in Hours |-> WholeHour(m, k, x)][g]
      BY <2>1, <2>2
    <2> QED BY <1>1, <2>3, DayRowRange DEF WholeDay
  <1>17. DaysFaithful(m)
    <2>1. ASSUME NEW j \in Keys, j # k
          PROVE  \A e : WholeDay(m, j, e) = WholeDay(t, j, e)
      BY <1>6, <2>1 DEF WholeDay, WholeHour
    <2>2. ASSUME NEW j \in Keys, NEW e \in Days
          PROVE  /\ m.day[j][e] \in {NoRow, WholeDay(m, j, e)}
                 /\ e >= DayOf(gone1) => m.day[j][e] = WholeDay(m, j, e)
      <3>1. CASE j = k
        BY <1>7, <1>15, <1>16, <1>10, <3>1 DEF Faithful, DaysFaithful
      <3>2. CASE j # k
        BY <1>6, <2>1, <3>2 DEF Faithful, DaysFaithful
      <3> QED BY <3>1, <3>2
    <2> QED BY <2>2 DEF DaysFaithful
  <1> QED BY <1>11, <1>14, <1>17 DEF Faithful, m

---------------------------------------------------------------------------
\* Floors are integers, and they only rise while the retention is steady.
LEMMA Floors ==
    ASSUME NEW m \in Nat, NEW n \in Nat, m <= n, raw \in Nat
    PROVE  /\ RawFloor(m) \in Int /\ RawFloor(n) \in Int
           /\ RawFloor(m) <= RawFloor(n)
           /\ RollFloor(m) \in Int /\ RollFloor(n) \in Int
           /\ RollFloor(m) <= RollFloor(n)
  BY HourOfMonotone, RetentionAssumption DEF RawFloor, RollFloor

\* A batch that is not below the floor lands in reach: its day starts above
\* the rollup floor because the rollup tier outlives the raw one by a day.
LEMMA AcceptedInReach ==
    ASSUME NEW w \in Windows, IInv, ~TooOld(w)
    PROVE  InReach(w)
  <1>1. now \in Nat /\ raw \in RawSettings /\ raw \in Nat /\ gone5 \in Nat
        /\ gone1 \in Nat
    BY RetentionAssumption DEF IInv, TypeOK
  <1>2. /\ RawFloor(now) \in Int /\ RollFloor(now) \in Int
        /\ RollFloor(now) = RawFloor(now) + raw - RollHours
        /\ RollHours \in Nat /\ HoursPerDay \in Nat
        /\ RollHours >= raw + HoursPerDay - 1
    BY <1>1, HourOfMonotone, RetentionAssumption, CalendarAssumption
       DEF RawFloor, RollFloor
  <1>3. HourOf(w) \in Nat /\ HourOf(w) >= RawFloor(now)
    BY <1>2, CalendarTypes DEF TooOld
  <1>4. HourOf(w) >= gone5
    BY <1>1, <1>2, <1>3 DEF IInv, Retained
  <1>5. ASSUME NEW h \in HoursIn(DayOf(HourOf(w)))
        PROVE  h >= gone1
    <2>1. h \in Nat /\ DayOf(h) = DayOf(HourOf(w))
      BY CalendarTypes DEF HoursIn
    <2>2. HourOf(w) - h < HoursPerDay
      BY <1>3, <2>1, SameDay
    <2> QED BY <1>1, <1>2, <1>3, <2>1, <2>2 DEF IInv, Retained
  <1> QED BY <1>4, <1>5 DEF InReach

LEMMA InitInv == Init => IInv
  <1> SUFFICES ASSUME Init PROVE IInv
    OBVIOUS
  <1>1. TablesOK(Empty)
    BY EmptyTables
  <1>2. TypeOK
    BY <1>1, CalendarTypes DEF Init, TypeOK
  <1>3. Faithful(Empty)
    <2>1. \A k \in Keys : /\ Empty.five[k] = [w \in Windows |-> NoRow]
                          /\ Empty.hour[k] = [h \in Hours |-> NoRow]
                          /\ Empty.day[k] = [d \in Days |-> NoRow]
                          /\ Empty.ledger[k] = [w \in Windows |-> NoRow]
      BY DEF Empty
    <2>2. \A k \in Keys : \A h : WholeHour(Empty, k, h) = NoRow
      BY <2>1, EmptyRows DEF WholeHour
    <2>3. \A k \in Keys : \A d : WholeDay(Empty, k, d) = NoRow
      BY <2>2, EmptyRows DEF WholeDay
    <2> QED BY <2>1, <2>2, <2>3
            DEF Faithful, FivesFaithful, HoursFaithful, DaysFaithful
  <1>4. Retained
    BY <1>3 DEF Init, Retained
  <1> QED BY <1>2, <1>4 DEF IInv

---------------------------------------------------------------------------
\* Steps that leave the tables and what retention deleted as they were.
LEMMA SameTables ==
    ASSUME UNCHANGED <<db, work, gone5, gone1, torn>>
    PROVE  (torn \/ (Faithful(db) /\ Faithful(work)))
             => (torn \/ (Faithful(db) /\ Faithful(work)))'
  BY DEF Faithful, FivesFaithful, HoursFaithful, DaysFaithful, WholeHour,
         WholeDay

LEMMA TickInv == IInv /\ Tick => IInv'
  <1> SUFFICES ASSUME IInv, Tick PROVE IInv'
    OBVIOUS
  <1>1. TypeOK'
    BY DEF IInv, TypeOK, Tick, purgeVars, history
  <1>2. /\ now \in Nat /\ now' = now + 1 /\ raw' = raw /\ raw \in Nat
        /\ gone5' = gone5 /\ gone1' = gone1 /\ gone5 \in Nat /\ gone1 \in Nat
    BY RetentionAssumption DEF IInv, TypeOK, Tick, history
  <1>3. /\ RawFloor(now) \in Int /\ (RawFloor(now))' \in Int
        /\ RollFloor(now) \in Int /\ (RollFloor(now))' \in Int
        /\ RawFloor(now) <= (RawFloor(now))'
        /\ RollFloor(now) <= (RollFloor(now))'
    BY <1>2, HourOfMonotone, RetentionAssumption DEF RawFloor, RollFloor
  <1>4. Retained'
    BY <1>2, <1>3, SameTables
       DEF IInv, TypeOK, Retained, Tick, purgeVars, history, InReach, RollFloor
  <1> QED BY <1>1, <1>4 DEF IInv

LEMMA BeginApplyInv ==
    ASSUME NEW w \in Windows PROVE IInv /\ BeginApply(w) => IInv'
  <1> SUFFICES ASSUME IInv, BeginApply(w) PROVE IInv'
    OBVIOUS
  <1>1. TypeOK'
    BY DEF IInv, TypeOK, BeginApply, clockVars, purgeVars, history
  <1>2. InReach(w)
    BY AcceptedInReach DEF BeginApply
  <1>3. Retained'
    BY <1>2, SameTables
       DEF IInv, TypeOK, Retained, BeginApply, clockVars, purgeVars, history,
           InReach, RawFloor, RollFloor
  <1> QED BY <1>1, <1>3 DEF IInv

LEMMA DropBatchInv ==
    ASSUME NEW w \in Windows PROVE IInv /\ DropBatch(w) => IInv'
  BY SameTables
     DEF IInv, TypeOK, Retained, DropBatch, clockVars, purgeVars, history,
         InReach, RawFloor, RollFloor

LEMMA WriteRowInv ==
    ASSUME NEW k \in Keys, NEW r \in Requests
    PROVE  IInv /\ WriteRow(k, r) => IInv'
  <1> SUFFICES ASSUME IInv, WriteRow(k, r) PROVE IInv'
    OBVIOUS
  <1>1. TablesOK(work) /\ TablesOK(db) /\ window \in Windows
    BY DEF IInv, TypeOK
  <1>2. TablesOK(Merged(work, k, window, r))
    BY <1>1, MergedType
  <1>3. InReach(window)
    BY DEF IInv, Retained, WriteRow
  <1>4. torn \/ (Faithful(db) /\ Faithful(Merged(work, k, window, r)))
    BY <1>1, <1>3, MergedFaithful DEF IInv, Retained
  <1>5. TypeOK'
    BY <1>1, <1>2
       DEF IInv, TypeOK, WriteRow, clockVars, purgeVars, history
  <1>6. (torn \/ (Faithful(db) /\ Faithful(work)))'
    BY <1>4
       DEF WriteRow, history, Faithful, FivesFaithful, HoursFaithful,
           DaysFaithful, WholeHour, WholeDay
  <1>7. Retained'
    BY <1>6
       DEF IInv, TypeOK, Retained, WriteRow, clockVars, purgeVars, history,
           InReach, RawFloor, RollFloor
  <1> QED BY <1>5, <1>7 DEF IInv

LEMMA CommitInv == IInv /\ Commit => IInv'
  <1> SUFFICES ASSUME IInv, Commit PROVE IInv'
    OBVIOUS
  <1>1. TypeOK'
    BY CalendarTypes DEF IInv, TypeOK, Commit, clockVars, history
  <1>2. (torn \/ (Faithful(db) /\ Faithful(work)))'
    BY DEF IInv, Retained, Commit, history, Faithful, FivesFaithful,
           HoursFaithful, DaysFaithful, WholeHour, WholeDay
  <1>3. Retained'
    BY <1>2
       DEF IInv, TypeOK, Retained, Commit, clockVars, history, RawFloor,
           RollFloor
  <1> QED BY <1>1, <1>3 DEF IInv

LEMMA RollbackInv == IInv /\ Rollback => IInv'
  <1> SUFFICES ASSUME IInv, Rollback PROVE IInv'
    OBVIOUS
  <1>1. TypeOK'
    BY CalendarTypes
       DEF IInv, TypeOK, Rollback, clockVars, purgeVars, history
  <1>2. (torn \/ (Faithful(db) /\ Faithful(work)))'
    BY DEF IInv, Retained, Rollback, history, Faithful, FivesFaithful,
           HoursFaithful, DaysFaithful, WholeHour, WholeDay
  <1>3. Retained'
    BY <1>2
       DEF IInv, TypeOK, Retained, Rollback, clockVars, purgeVars, history,
           RawFloor, RollFloor
  <1> QED BY <1>1, <1>3 DEF IInv

\* The 5m DELETE takes only windows below the floor it raises gone5 to.
LEMMA Purge5mInv == IInv /\ Purge5m => IInv'
  <1> SUFFICES ASSUME IInv, Purge5m PROVE IInv'
    OBVIOUS
  <1> DEFINE fives == [k \in Keys |-> [w \in Windows |->
                         IF Expired(w) THEN NoRow ELSE db.five[k][w]]]
  <1>1. /\ TablesOK(db) /\ now \in Nat /\ purgeAt \in Nat /\ purgeAt <= now
        /\ raw \in Nat /\ raw' = raw /\ now' = now /\ purgeAt' = purgeAt
        /\ gone5 \in Nat /\ gone1 \in Nat
    BY RetentionAssumption
       DEF IInv, TypeOK, Retained, Purge5m, clockVars, purgeVars
  <1>2. /\ RawFloor(purgeAt) \in Int /\ RawFloor(now) \in Int
        /\ RawFloor(purgeAt) <= RawFloor(now)
    BY <1>1, Floors
  <1>3. /\ db'.five = fives /\ db'.hour = db.hour /\ db'.day = db.day
        /\ db'.ledger = db.ledger /\ work' = db'
        /\ db' = [five |-> fives, hour |-> db.hour, day |-> db.day,
                  ledger |-> db.ledger]
    BY <1>1 DEF Purge5m, Install, TablesOK
  <1>4. TablesOK(db')
    BY <1>1, <1>3 DEF TablesOK, Slot
  <1>5. /\ gone5' \in Nat /\ gone5' >= gone5 /\ gone5' >= RawFloor(purgeAt)
        /\ gone5' = 0 \/ gone5' <= RawFloor(now)
        /\ gone1' = gone1 /\ torn' = torn
    BY <1>1, <1>2 DEF IInv, Retained, Purge5m, Larger
  <1>6. (torn \/ (Faithful(db) /\ Faithful(work)))'
    <2> SUFFICES ASSUME ~torn PROVE (Faithful(db))'
      BY <1>3, <1>5
         DEF Faithful, FivesFaithful, HoursFaithful, DaysFaithful, WholeHour,
             WholeDay
    <2>1. Faithful(db)
      BY DEF IInv, Retained
    <2>2. ASSUME NEW k \in Keys, NEW w \in Windows, HourOf(w) >= gone5'
          PROVE  db'.five[k][w] = db'.ledger[k][w]
      <3>1. HourOf(w) \in Nat
        BY CalendarTypes DEF Hours
      <3>2. HourOf(w) >= gone5 /\ ~Expired(w)
        BY <1>1, <1>2, <1>5, <2>2, <3>1 DEF Expired
      <3> QED BY <1>3, <2>1, <3>2 DEF Faithful, FivesFaithful
    <2> QED BY <1>3, <1>5, <2>1, <2>2
            DEF Faithful, FivesFaithful, HoursFaithful, DaysFaithful,
                WholeHour, WholeDay
  <1>7. TypeOK'
    BY <1>3, <1>4, <1>5
       DEF IInv, TypeOK, Purge5m, clockVars, purgeVars
  <1>8. Retained'
    BY <1>1, <1>3, <1>5, <1>6
       DEF IInv, Retained, Purge5m, clockVars, purgeVars, RawFloor, RollFloor
  <1> QED BY <1>7, <1>8 DEF IInv

\* The 1h DELETE takes only hours below the floor it raises gone1 to; whole
\* days above that floor are still backed by their hours.
LEMMA Purge1hInv == IInv /\ Purge1h => IInv'
  <1> SUFFICES ASSUME IInv, Purge1h PROVE IInv'
    OBVIOUS
  <1> DEFINE cut == RollFloor(purgeAt)
             hours == [k \in Keys |-> [h \in Hours |->
                         IF h < cut THEN NoRow ELSE db.hour[k][h]]]
  <1>1. /\ TablesOK(db) /\ now \in Nat /\ purgeAt \in Nat /\ purgeAt <= now
        /\ raw \in Nat /\ raw' = raw /\ now' = now /\ purgeAt' = purgeAt
        /\ gone5 \in Nat /\ gone1 \in Nat
    BY RetentionAssumption
       DEF IInv, TypeOK, Retained, Purge1h, clockVars, purgeVars
  <1>2. cut \in Int /\ RollFloor(now) \in Int /\ cut <= RollFloor(now)
    BY <1>1, Floors
  <1>3. /\ db'.five = db.five /\ db'.hour = hours /\ db'.day = db.day
        /\ db'.ledger = db.ledger /\ work' = db'
        /\ db' = [five |-> db.five, hour |-> hours, day |-> db.day,
                  ledger |-> db.ledger]
    BY <1>1 DEF Purge1h, Install, TablesOK
  <1>4. TablesOK(db')
    BY <1>1, <1>3 DEF TablesOK, Slot
  <1>5. /\ gone1' \in Nat /\ gone1' >= gone1 /\ gone1' >= cut
        /\ gone1' = 0 \/ gone1' <= RollFloor(now)
        /\ gone5' = gone5 /\ torn' = torn
    BY <1>1, <1>2 DEF IInv, Retained, Purge1h, Larger
  <1>6. (torn \/ (Faithful(db) /\ Faithful(work)))'
    <2> SUFFICES ASSUME ~torn PROVE (Faithful(db))'
      BY <1>3, <1>5
         DEF Faithful, FivesFaithful, HoursFaithful, DaysFaithful, WholeHour,
             WholeDay
    <2>1. Faithful(db)
      BY DEF IInv, Retained
    <2>2. ASSUME NEW k \in Keys, NEW h \in Hours
          PROVE  /\ db'.hour[k][h] \in {NoRow, WholeHour(db', k, h)}
                 /\ h >= gone1' => db'.hour[k][h] = WholeHour(db', k, h)
      <3>1. h \in Nat /\ WholeHour(db', k, h) = WholeHour(db, k, h)
        BY <1>3, CalendarTypes DEF WholeHour
      <3>2. db'.hour[k][h] = IF h < cut THEN NoRow ELSE db.hour[k][h]
        BY <1>3
      <3>3. h >= gone1' => h >= gone1 /\ ~(h < cut)
        BY <1>1, <1>2, <1>5, <3>1
      <3> QED BY <2>1, <3>1, <3>2, <3>3 DEF Faithful, HoursFaithful
    <2>3. ASSUME NEW d \in Days, d >= DayOf(gone1')
          PROVE  d >= DayOf(gone1)
      <3>1. DayOf(gone1) <= DayOf(gone1') /\ DayOf(gone1) \in Int
            /\ DayOf(gone1') \in Int /\ d \in Int
        BY <1>1, <1>5, DayOfMonotone DEF Days
      <3> QED BY <2>3, <3>1
    <2>4. \A k, d : WholeDay(db', k, d) = WholeDay(db, k, d)
      BY <1>3 DEF WholeDay, WholeHour
    <2>5. (FivesFaithful(db))'
      BY <1>3, <1>5, <2>1 DEF Faithful, FivesFaithful
    <2>6. (HoursFaithful(db))'
      BY <2>2 DEF HoursFaithful, WholeHour
    <2>7. (DaysFaithful(db))'
      <3>1. \A k \in Keys, d \in Days : db'.day[k][d] = db.day[k][d]
        BY <1>3
      <3>2. \A k \in Keys, d \in Days :
              (WholeDay(db, k, d))' = WholeDay(db, k, d)
        BY <2>4 DEF WholeDay, WholeHour
      <3> QED BY <2>1, <2>3, <3>1, <3>2 DEF Faithful, DaysFaithful
    <2> QED BY <2>5, <2>6, <2>7 DEF Faithful
  <1>7. TypeOK'
    BY <1>3, <1>4, <1>5
       DEF IInv, TypeOK, Purge1h, clockVars, purgeVars
  <1>8. Retained'
    BY <1>1, <1>3, <1>5, <1>6
       DEF IInv, Retained, Purge1h, clockVars, purgeVars, RawFloor, RollFloor
  <1> QED BY <1>7, <1>8 DEF IInv

\* The 1d DELETE takes only days below the day of the 1h floor.
LEMMA Purge1dInv == IInv /\ Purge1d => IInv'
  <1> SUFFICES ASSUME IInv, Purge1d PROVE IInv'
    OBVIOUS
  <1> DEFINE cut == DayOf(RollFloor(purgeAt))
             days == [k \in Keys |-> [d \in Days |->
                         IF d < cut THEN NoRow ELSE db.day[k][d]]]
  <1>1. /\ TablesOK(db) /\ now \in Nat /\ purgeAt \in Nat /\ purgeAt <= now
        /\ raw \in Nat /\ gone1 \in Nat /\ gone1 >= RollFloor(purgeAt)
        /\ gone5' = gone5 /\ gone1' = gone1 /\ torn' = torn
    BY RetentionAssumption DEF IInv, TypeOK, Retained, Purge1d, history
  <1>2. cut \in Int /\ DayOf(gone1) \in Int /\ cut <= DayOf(gone1)
    BY <1>1, Floors, DayOfMonotone
  <1>3. /\ db'.five = db.five /\ db'.hour = db.hour /\ db'.day = days
        /\ db'.ledger = db.ledger /\ work' = db'
        /\ db' = [five |-> db.five, hour |-> db.hour, day |-> days,
                  ledger |-> db.ledger]
    BY <1>1 DEF Purge1d, Install, TablesOK
  <1>4. TablesOK(db')
    BY <1>1, <1>3 DEF TablesOK, Slot
  <1>5. (torn \/ (Faithful(db) /\ Faithful(work)))'
    <2> SUFFICES ASSUME ~torn PROVE (Faithful(db))'
      BY <1>1, <1>3
         DEF Faithful, FivesFaithful, HoursFaithful, DaysFaithful, WholeHour,
             WholeDay
    <2>1. Faithful(db)
      BY DEF IInv, Retained
    <2>2. \A k, d : WholeDay(db', k, d) = WholeDay(db, k, d)
      BY <1>3 DEF WholeDay, WholeHour
    <2>3. ASSUME NEW k \in Keys, NEW d \in Days
          PROVE  /\ db'.day[k][d] \in {NoRow, WholeDay(db', k, d)}
                 /\ d >= DayOf(gone1) => db'.day[k][d] = WholeDay(db', k, d)
      <3>1. db'.day[k][d] = IF d < cut THEN NoRow ELSE db.day[k][d]
        BY <1>3
      <3>2. d >= DayOf(gone1) => ~(d < cut)
        BY <1>2 DEF Days
      <3> QED BY <2>1, <2>2, <3>1, <3>2 DEF Faithful, DaysFaithful
    <2> QED BY <1>1, <1>3, <2>1, <2>2, <2>3
            DEF Faithful, FivesFaithful, HoursFaithful, DaysFaithful,
                WholeHour
  <1>6. nextDue' \in Nat /\ purgeErr' \in BOOLEAN
    <2>1. SlotsPerHour \in Nat /\ now \in Nat /\ purgeAt \in Nat
      BY <1>1, CalendarAssumption
    <2>2. RecordPurge(FALSE)
      BY DEF Purge1d
    <2>3. nextDue' = (IF asked THEN now ELSE purgeAt) + SlotsPerHour
      BY <2>2 DEF RecordPurge
    <2>4. (IF asked THEN now ELSE purgeAt) \in Nat
      BY <2>1, Zenon
    <2>5. purgeErr' \in BOOLEAN
      BY <2>2, Zenon DEF RecordPurge
    <2> QED BY <2>1, <2>3, <2>4, <2>5
  <1>8. TypeOK'
    BY <1>1, <1>3, <1>4, <1>6
       DEF IInv, TypeOK, Purge1d, clockVars, history
  <1>7. Retained'
    BY <1>1, <1>3, <1>5
       DEF IInv, Retained, Purge1d, clockVars, RawFloor, RollFloor
  <1> QED BY <1>7, <1>8 DEF IInv

LEMMA PurgeFailsInv == IInv /\ PurgeFails => IInv'
  <1> SUFFICES ASSUME IInv, PurgeFails PROVE IInv'
    OBVIOUS
  <1>1. TypeOK'
    BY DEF IInv, TypeOK, PurgeFails, RecordPurge, clockVars, history
  <1>2. Retained'
    BY SameTables
       DEF IInv, TypeOK, Retained, PurgeFails, clockVars, history, RawFloor,
           RollFloor
  <1> QED BY <1>1, <1>2 DEF IInv

LEMMA AskRetentionInv == IInv /\ AskRetention => IInv'
  <1> SUFFICES ASSUME IInv, AskRetention PROVE IInv'
    OBVIOUS
  <1>1. TypeOK'
    BY DEF IInv, TypeOK, AskRetention, clockVars, history
  <1>2. Retained'
    BY SameTables
       DEF IInv, TypeOK, Retained, AskRetention, clockVars, history, RawFloor,
           RollFloor
  <1> QED BY <1>1, <1>2 DEF IInv

\* From the first DELETE of an "all" purge to the last nothing is claimed of
\* the tables; that they are being emptied is.
LEMMA Wipe5mInv == IInv /\ Wipe5m => IInv'
  <1> SUFFICES ASSUME IInv, Wipe5m PROVE IInv'
    OBVIOUS
  <1>1. TablesOK(db) /\ TablesOK(Empty)
    BY EmptyTables DEF IInv, TypeOK
  <1>2. /\ db'.five = Empty.five /\ db'.hour = db.hour /\ db'.day = db.day
        /\ db'.ledger = Empty.ledger /\ work' = db'
        /\ db' = [five |-> Empty.five, hour |-> db.hour, day |-> db.day,
                  ledger |-> Empty.ledger]
    BY <1>1 DEF Wipe5m, Install, TablesOK
  <1> HIDE DEF Empty
  <1>3. TablesOK(db')
    BY <1>1, <1>2 DEF TablesOK
  <1>4. TypeOK'
    BY <1>2, <1>3 DEF IInv, TypeOK, Wipe5m, clockVars, purgeVars
  <1>5. Retained'
    BY <1>2
       DEF IInv, Retained, Wipe5m, clockVars, purgeVars, RawFloor, RollFloor
  <1> QED BY <1>4, <1>5 DEF IInv

LEMMA Wipe1hInv == IInv /\ Wipe1h => IInv'
  <1> SUFFICES ASSUME IInv, Wipe1h PROVE IInv'
    OBVIOUS
  <1>1. TablesOK(db) /\ TablesOK(Empty)
    BY EmptyTables DEF IInv, TypeOK
  <1>2. /\ db'.five = db.five /\ db'.hour = Empty.hour /\ db'.day = db.day
        /\ db'.ledger = db.ledger /\ work' = db'
        /\ db' = [five |-> db.five, hour |-> Empty.hour, day |-> db.day,
                  ledger |-> db.ledger]
    BY <1>1 DEF Wipe1h, Install, TablesOK
  <1>3. TablesOK(db')
    BY <1>1, <1>2 DEF TablesOK
  <1>4. TypeOK'
    BY <1>2, <1>3 DEF IInv, TypeOK, Wipe1h, clockVars, purgeVars, history
  <1>5. Retained'
    BY <1>2
       DEF IInv, Retained, Wipe1h, clockVars, purgeVars, history, RawFloor,
           RollFloor
  <1> QED BY <1>4, <1>5 DEF IInv

\* The last DELETE leaves every tier as empty as the new ledger.
LEMMA Wipe1dInv == IInv /\ Wipe1d => IInv'
  <1> SUFFICES ASSUME IInv, Wipe1d PROVE IInv'
    OBVIOUS
  <1>1. TablesOK(db) /\ TablesOK(Empty)
    BY EmptyTables DEF IInv, TypeOK
  <1>2. /\ db'.five = db.five /\ db'.hour = db.hour /\ db'.day = Empty.day
        /\ db'.ledger = db.ledger /\ work' = db'
        /\ db' = [five |-> db.five, hour |-> db.hour, day |-> Empty.day,
                  ledger |-> db.ledger]
    BY <1>1 DEF Wipe1d, Install, TablesOK
  <1>3. TablesOK(db')
    BY <1>1, <1>2 DEF TablesOK
  <1>4. TypeOK'
    BY <1>2, <1>3 DEF IInv, TypeOK, Wipe1d, clockVars, purgeVars
  <1>5. \A k \in Keys : /\ db'.five[k] = [w \in Windows |-> NoRow]
                        /\ db'.hour[k] = [h \in Hours |-> NoRow]
                        /\ db'.day[k] = [d \in Days |-> NoRow]
                        /\ db'.ledger[k] = [w \in Windows |-> NoRow]
    BY <1>2 DEF IInv, Retained, Wipe1d, Empty
  <1>6. (Faithful(db) /\ Faithful(work))'
    <2>1. \A k \in Keys : \A h : (WholeHour(db, k, h))' = NoRow
      BY <1>5, EmptyRows DEF WholeHour
    <2>2. \A k \in Keys : \A d : (WholeDay(db, k, d))' = NoRow
      BY <2>1, EmptyRows DEF WholeDay, WholeHour
    <2>3. (Faithful(db))'
      BY <1>5, <2>1, <2>2
         DEF Faithful, FivesFaithful, HoursFaithful, DaysFaithful
    <2> QED BY <1>2, <2>3
            DEF Faithful, FivesFaithful, HoursFaithful, DaysFaithful,
                WholeHour, WholeDay
  <1>7. Retained'
    BY <1>2, <1>6
       DEF IInv, Retained, Wipe1d, clockVars, purgeVars, RawFloor, RollFloor
  <1> QED BY <1>4, <1>7 DEF IInv

LEMMA WipeFailsInv == IInv /\ WipeFails => IInv'
  <1> SUFFICES ASSUME IInv, WipeFails PROVE IInv'
    OBVIOUS
  <1>1. TypeOK'
    BY DEF IInv, TypeOK, WipeFails, clockVars, purgeVars, history
  <1>2. Retained'
    BY SameTables
       DEF IInv, TypeOK, Retained, WipeFails, clockVars, purgeVars, history,
           RawFloor, RollFloor
  <1> QED BY <1>1, <1>2 DEF IInv

\* A restart forgets the open transaction and the purge in flight; a lower
\* retention only raises the floor.
LEMMA RestartInv ==
    ASSUME NEW r \in RawSettings, r <= raw
    PROVE  IInv /\ Restart(r) => IInv'
  <1> SUFFICES ASSUME IInv, Restart(r) PROVE IInv'
    OBVIOUS
  <1>1. TypeOK'
    BY CalendarTypes DEF IInv, TypeOK, Restart, history
  <1>2. /\ now \in Nat /\ raw \in Nat /\ raw' \in Nat /\ raw' <= raw
        /\ now' = now /\ gone5 \in Nat /\ gone5' = gone5 /\ HourOf(now) \in Int
    BY RetentionAssumption, HourOfMonotone
       DEF IInv, TypeOK, Restart, history
  <1>3. gone5' = 0 \/ gone5' <= (RawFloor(now))'
    BY <1>2 DEF IInv, Retained, RawFloor
  <1>4. (torn \/ (Faithful(db) /\ Faithful(work)))'
    BY DEF IInv, Retained, Restart, history, Faithful, FivesFaithful,
           HoursFaithful, DaysFaithful, WholeHour, WholeDay
  <1>5. Retained'
    BY <1>2, <1>3, <1>4 DEF IInv, Retained, Restart, history, RollFloor
  <1> QED BY <1>1, <1>5 DEF IInv

LEMMA StutterInv == IInv /\ UNCHANGED vars => IInv'
  BY SameTables
     DEF IInv, TypeOK, Retained, vars, purgeVars, history, InReach, RawFloor,
         RollFloor

LEMMA NextInv == IInv /\ [SteadyNext]_vars => IInv'
  <1>1. IInv /\ Step => IInv'
    BY TickInv, BeginApplyInv, DropBatchInv, WriteRowInv, CommitInv,
       RollbackInv, Purge5mInv, Purge1hInv, Purge1dInv, PurgeFailsInv,
       AskRetentionInv, Wipe5mInv, Wipe1hInv, Wipe1dInv, WipeFailsInv
       DEF Step
  <1>2. ASSUME IInv, NEW r \in {s \in RawSettings : s <= raw}, Restart(r)
        PROVE  IInv'
    BY <1>2, RestartInv
  <1> QED BY <1>1, <1>2, StutterInv DEF SteadyNext

---------------------------------------------------------------------------
\* Every state of a server whose raw retention is never raised is well typed
\* and has retained what it should.
THEOREM Invariance == SteadySpec => []IInv
  <1> QED BY InitInv, NextInv, PTL DEF SteadySpec

\* The tables and the purge's bookkeeping stay in their types.
THEOREM TypeCorrect == SteadySpec => []TypeOK
  <1>1. IInv => TypeOK
    BY DEF IInv
  <1> QED BY <1>1, Invariance, PTL

\* Every hour at or above the raw floor has all its 5m rows.
THEOREM RawTierIsComplete == SteadySpec => []RawTierComplete
  <1>1. IInv => RawTierComplete
    <2> SUFFICES ASSUME IInv, ~torn, NEW k \in Keys, NEW w \in Windows,
                        HourOf(w) >= RawFloor(now)
                 PROVE  db.five[k][w] = db.ledger[k][w]
      BY DEF RawTierComplete
    <2>1. /\ HourOf(w) \in Nat /\ RawFloor(now) \in Int /\ gone5 \in Nat
      BY CalendarTypes, Floors, RetentionAssumption
         DEF IInv, TypeOK, Hours
    <2>2. HourOf(w) >= gone5
      BY <2>1 DEF IInv, Retained
    <2> QED BY <2>2 DEF IInv, Retained, Faithful, FivesFaithful
  <1> QED BY <1>1, Invariance, PTL

\* However late batches land, an hourly row holds all that was accepted for
\* its hour, for as long as the rollup retention lasts.
THEOREM HourlyHistoryIsKept == SteadySpec => []HourlyHistory
  <1>1. IInv => HourlyHistory
    <2> SUFFICES ASSUME IInv, ~torn, NEW k \in Keys, NEW h \in Hours
                 PROVE  /\ db.hour[k][h] \in {NoRow, WholeHour(db, k, h)}
                        /\ h >= RollFloor(now) =>
                              db.hour[k][h] = WholeHour(db, k, h)
      BY DEF HourlyHistory
    <2>1. h \in Nat /\ RollFloor(now) \in Int /\ gone1 \in Nat
      BY CalendarTypes, Floors, RetentionAssumption DEF IInv, TypeOK
    <2>2. h >= RollFloor(now) => h >= gone1
      BY <2>1 DEF IInv, Retained
    <2> QED BY <2>2 DEF IInv, Retained, Faithful, HoursFaithful
  <1> QED BY <1>1, Invariance, PTL

\* The same of the daily rows, the day the rollup floor falls in included.
THEOREM DailyHistoryIsKept == SteadySpec => []DailyHistory
  <1>1. IInv => DailyHistory
    <2> SUFFICES ASSUME IInv, ~torn, NEW k \in Keys, NEW d \in Days
                 PROVE  /\ db.day[k][d] \in {NoRow, WholeDay(db, k, d)}
                        /\ d >= DayOf(RollFloor(now)) =>
                              db.day[k][d] = WholeDay(db, k, d)
      BY DEF DailyHistory
    <2>1. /\ d \in Nat /\ RollFloor(now) \in Int /\ gone1 \in Nat
          /\ gone1 = 0 \/ gone1 <= RollFloor(now)
      BY Floors, RetentionAssumption DEF IInv, TypeOK, Retained, Days
    <2>2. DayOf(0) = 0
      BY CalendarAssumption, DivBelow DEF DayOf
    <2>3. d >= DayOf(RollFloor(now)) => d >= DayOf(gone1)
      <3>1. CASE gone1 = 0
        BY <2>1, <2>2, <3>1
      <3>2. CASE gone1 <= RollFloor(now)
        <4>1. DayOf(gone1) <= DayOf(RollFloor(now)) /\ DayOf(gone1) \in Int
              /\ DayOf(RollFloor(now)) \in Int
          BY <2>1, <3>2, DayOfMonotone
        <4> QED BY <2>1, <4>1
      <3> QED BY <2>1, <3>1, <3>2
    <2> QED BY <2>3 DEF IInv, Retained, Faithful, DaysFaithful
  <1> QED BY <1>1, Invariance, PTL

---------------------------------------------------------------------------
\* The purge's own schedule, which any restart leaves intact.

\* The part of the tables' shape the DELETEs and upserts rely on.
Shaped(t) ==
    /\ t = [five |-> t.five, hour |-> t.hour, day |-> t.day, ledger |-> t.ledger]
    /\ t.five = [k \in Keys |-> [w \in Windows |-> t.five[k][w]]]

\* The last purge's floor holds of t.
CutAt(t) ==
    \A k \in Keys, w \in Windows : HourOf(w) < RawFloor(purgeAt) => t.five[k][w] = NoRow

Clocks ==
    /\ now \in Nat /\ raw \in Nat /\ purgeAt \in Nat /\ purgeAt <= now
    /\ nextDue \in Nat /\ purgeErr \in BOOLEAN /\ asked \in BOOLEAN

\* What the last purge cut stays cut: a batch in the open transaction is above
\* the floor of that purge, because it was above the later floor of its BEGIN.
Scheduled ==
    /\ Clocks /\ Shaped(db) /\ Shaped(work)
    /\ pc = "apply" => window \in Windows /\ HourOf(window) >= RawFloor(purgeAt)
    /\ pc \in {"purge1h", "purge1d"} => CutAt(db)
    /\ pc \in {"idle", "apply", "wipe1h", "wipe1d"} /\ nextDue # 0 /\ ~purgeErr
          => CutAt(db) /\ CutAt(work)

LEMMA ScheduledInit == Init => Scheduled
  <1> SUFFICES ASSUME Init PROVE Scheduled
    OBVIOUS
  <1>1. /\ raw \in Nat /\ SlotsPerHour \in Nat
        /\ now = 0 /\ purgeAt = 0 /\ nextDue = 0 /\ purgeErr = FALSE /\ asked = FALSE
    BY RetentionAssumption, CalendarAssumption DEF Init
  <1>2. Clocks
    <2>1. purgeErr \in BOOLEAN /\ asked \in BOOLEAN
      BY <1>1, Zenon
    <2>2. now \in Nat /\ purgeAt \in Nat /\ purgeAt <= now /\ nextDue \in Nat
      BY <1>1
    <2> QED BY <1>1, <2>1, <2>2, Zenon DEF Clocks
  <1>3. Shaped(db) /\ Shaped(work)
    BY DEF Init, Empty, Shaped
  <1> QED BY <1>2, <1>3 DEF Init, Scheduled

\* Nothing but the clock and the counters moves.
LEMMA ScheduledQuiet ==
    ASSUME Scheduled, Tick \/ (\E w \in Windows : DropBatch(w)) \/ UNCHANGED vars
    PROVE  Scheduled'
  <1>1. /\ UNCHANGED <<raw, db, work, pc, window, purgeAt, asked, nextDue, purgeErr>>
        /\ now' \in {now, now + 1}
    BY DEF Tick, DropBatch, clockVars, purgeVars, vars
  <1>2. Clocks'
    <2>1. now \in Nat /\ purgeAt \in Nat /\ purgeAt <= now
      BY DEF Scheduled, Clocks
    <2>2. PICK later \in {now, now + 1} : later = now'
      BY <1>1
    <2>3. later \in Nat /\ purgeAt <= later
      BY <2>1
    <2>4. /\ raw' \in Nat /\ purgeAt' \in Nat /\ nextDue' \in Nat
          /\ purgeErr' \in BOOLEAN /\ asked' \in BOOLEAN
      BY <1>1 DEF Scheduled, Clocks
    <2>5. now' \in Nat /\ purgeAt' <= now'
      BY <1>1, <2>2, <2>3
    <2> QED BY <2>4, <2>5 DEF Clocks
  <1> QED BY <1>1, <1>2 DEF Scheduled, Shaped, CutAt, RawFloor

LEMMA ScheduledBatch ==
    ASSUME Scheduled,
           \/ \E w \in Windows : BeginApply(w)
           \/ \E k \in Keys, r \in Requests : WriteRow(k, r)
           \/ Commit \/ Rollback
    PROVE  Scheduled'
  <1>1. /\ now \in Nat /\ raw \in Nat /\ purgeAt \in Nat /\ purgeAt <= now
        /\ UNCHANGED <<now, raw, nextDue, purgeErr>>
    BY DEF Scheduled, Clocks, BeginApply, WriteRow, Commit, Rollback, clockVars, purgeVars
  <1>2. ASSUME NEW w \in Windows, BeginApply(w) PROVE Scheduled'
    <2>1. /\ UNCHANGED <<db, work, purgeAt, asked>> /\ pc = "idle" /\ pc' = "apply"
          /\ window' = w /\ ~TooOld(w)
      BY <1>2 DEF BeginApply, purgeVars
    <2>2. HourOf(w) >= RawFloor(purgeAt)
      <3>1. /\ RawFloor(purgeAt) \in Int /\ RawFloor(now) \in Int
            /\ RawFloor(purgeAt) <= RawFloor(now)
        BY <1>1, Floors
      <3>2. HourOf(w) \in Int
        BY CalendarTypes DEF Hours
      <3> QED BY <2>1, <3>1, <3>2 DEF TooOld
    <2>3. Clocks'
      BY <1>1, <2>1 DEF Scheduled, Clocks
    <2> QED BY <1>1, <2>1, <2>2, <2>3 DEF Scheduled, Shaped, CutAt, RawFloor
  <1>3. ASSUME NEW k \in Keys, NEW r \in Requests, WriteRow(k, r) PROVE Scheduled'
    <2>1. /\ UNCHANGED <<db, purgeAt, asked, window>> /\ pc = "apply" /\ pc' = "apply"
          /\ work' = Merged(work, k, window, r)
      BY <1>3 DEF WriteRow, purgeVars
    <2>2. PICK fives : /\ work'.five = [work.five EXCEPT ![k] = fives]
                       /\ fives = [work.five[k] EXCEPT ![window] =
                                     Upserted(work.five[k][window], r)]
      BY <2>1 DEF Merged
    <2>3. Shaped(work')
      <3>1. work' = [five |-> work'.five, hour |-> work'.hour, day |-> work'.day,
                     ledger |-> work'.ledger]
        BY <2>1 DEF Merged
      <3>2. DOMAIN work.five = Keys /\ \A j \in Keys : DOMAIN work.five[j] = Windows
        BY DEF Scheduled, Shaped
      <3>3. DOMAIN work'.five = Keys /\ \A j \in Keys : DOMAIN work'.five[j] = Windows
        BY <2>2, <3>2
      <3>4. \A j \in Keys : work'.five[j] = [w \in Windows |-> work'.five[j][w]]
        <4>1. ASSUME NEW j \in Keys
              PROVE  work'.five[j] = [w \in Windows |-> work'.five[j][w]]
          <5>1. work.five[j] = [w \in Windows |-> work.five[j][w]]
            BY DEF Scheduled, Shaped
          <5>2. CASE j = k
            BY <2>2, <3>2, <5>1, <5>2
          <5>3. CASE j # k
            BY <2>2, <3>2, <5>1, <5>3
          <5> QED BY <5>2, <5>3
        <4> QED BY <4>1
      <3>5. work'.five = [j \in Keys |-> [w \in Windows |-> work'.five[j][w]]]
        <4>1. work'.five = [j \in Keys |-> IF j = k THEN fives ELSE work.five[j]]
          BY <2>2, <3>2
        <4> QED BY <3>4, <4>1, Zenon
      <3> QED BY <3>1, <3>5 DEF Shaped
    <2>4. CutAt(work) => CutAt(work')
      <3> SUFFICES ASSUME CutAt(work), NEW j \in Keys, NEW w \in Windows,
                          HourOf(w) < RawFloor(purgeAt)
                   PROVE  work'.five[j][w] = NoRow
        BY DEF CutAt
      <3>1. w # window
        <4>1. HourOf(window) >= RawFloor(purgeAt) /\ window \in Windows
          BY <2>1 DEF Scheduled
        <4>2. HourOf(w) \in Int /\ HourOf(window) \in Int /\ RawFloor(purgeAt) \in Int
          BY <1>1, <4>1, Floors, CalendarTypes DEF Hours
        <4> QED BY <4>1, <4>2
      <3>2. work'.five[j][w] = work.five[j][w]
        BY <2>2, <3>1 DEF Scheduled, Shaped
      <3> QED BY <3>2 DEF CutAt
    <2>5. Clocks'
      BY <1>1, <2>1 DEF Scheduled, Clocks
    <2>6. (CutAt(work))' <=> CutAt(work')
      BY <1>1, <2>1 DEF CutAt, RawFloor
    <2> QED BY <1>1, <2>1, <2>3, <2>4, <2>5, <2>6
            DEF Scheduled, Shaped, CutAt, RawFloor
  <1>4. CASE Commit
    <2>1. /\ db' = work /\ work' = work /\ pc = "apply"
          /\ \/ pc' = "purge5m" /\ purgeAt' = now /\ asked' = FALSE
             \/ pc' = "idle" /\ UNCHANGED <<purgeAt, asked>>
      BY <1>4 DEF Commit
    <2>2. purgeAt' \in Nat /\ purgeAt' <= now /\ asked' \in BOOLEAN
      <3>1. asked \in BOOLEAN
        BY DEF Scheduled, Clocks
      <3>2. asked' \in BOOLEAN
        BY <2>1, <3>1, Zenon
      <3> QED BY <1>1, <2>1, <3>2
    <2>3. Clocks'
      BY <1>1, <2>2 DEF Scheduled, Clocks
    <2> QED BY <1>1, <2>1, <2>3 DEF Scheduled, Shaped, CutAt, RawFloor
  <1>5. CASE Rollback
    <2>1. /\ db' = db /\ work' = db /\ pc = "apply" /\ pc' = "idle"
          /\ UNCHANGED <<purgeAt, asked>>
      BY <1>5 DEF Rollback, purgeVars
    <2>2. Clocks'
      BY <1>1, <2>1 DEF Scheduled, Clocks
    <2> QED BY <1>1, <2>1, <2>2 DEF Scheduled, Shaped, CutAt, RawFloor
  <1> QED BY <1>2, <1>3, <1>4, <1>5

\* The DELETEs of either purge.
LEMMA ScheduledDeletes ==
    ASSUME Scheduled,
           \/ AskRetention \/ Purge5m \/ Purge1h \/ Purge1d \/ PurgeFails
           \/ Wipe5m \/ Wipe1h \/ Wipe1d \/ WipeFails
    PROVE  Scheduled'
  <1>1. /\ now \in Nat /\ raw \in Nat /\ purgeAt \in Nat /\ purgeAt <= now
        /\ asked \in BOOLEAN /\ UNCHANGED <<now, raw>>
        /\ SlotsPerHour \in Nat \ {0}
    BY CalendarAssumption
       DEF Scheduled, Clocks, AskRetention, Purge5m, Purge1h, Purge1d, PurgeFails, Wipe5m,
           Wipe1h, Wipe1d, WipeFails, clockVars
  <1>2. CASE AskRetention
    <2>1. /\ UNCHANGED <<db, work, nextDue, purgeErr>> /\ pc' = "purge5m"
          /\ purgeAt' = now /\ asked' = TRUE
      BY <1>2 DEF AskRetention
    <2>2. Clocks'
      BY <1>1, <2>1 DEF Scheduled, Clocks
    <2> QED BY <1>1, <2>1, <2>2 DEF Scheduled, Shaped
  <1>3. CASE Purge5m
    <2>1. PICK fives : /\ fives = [k \in Keys |-> [w \in Windows |->
                             IF Expired(w) THEN NoRow ELSE db.five[k][w]]]
                       /\ db' = [db EXCEPT !.five = fives] /\ work' = db'
                       /\ UNCHANGED <<purgeAt, asked, nextDue, purgeErr>>
                       /\ pc' = "purge1h"
      BY <1>3 DEF Purge5m, Install, purgeVars
    <2>2. /\ db' = [five |-> fives, hour |-> db.hour, day |-> db.day, ledger |-> db.ledger]
      BY <2>1 DEF Scheduled, Shaped
    <2>3. db'.five = fives
      BY <2>2
    <2>4. \A k \in Keys, w \in Windows :
             fives[k][w] = IF Expired(w) THEN NoRow ELSE db.five[k][w]
      BY <2>1
    <2>5. fives = [k \in Keys |-> [w \in Windows |-> fives[k][w]]]
      BY <2>1, <2>4, Zenon
    <2>6. (Shaped(db) /\ Shaped(work))'
      BY <2>1, <2>2, <2>5 DEF Shaped
    <2>7. (CutAt(db))'
      BY <1>1, <2>1, <2>3, <2>4 DEF CutAt, Expired, RawFloor
    <2>8. Clocks'
      BY <1>1, <2>1 DEF Scheduled, Clocks
    <2> QED BY <2>1, <2>6, <2>7, <2>8 DEF Scheduled
  <1>4. CASE Purge1h
    <2>1. /\ db'.five = db.five /\ work' = db' /\ pc = "purge1h" /\ pc' = "purge1d"
          /\ UNCHANGED <<purgeAt, asked, nextDue, purgeErr>>
          /\ db' = [five |-> db'.five, hour |-> db'.hour, day |-> db'.day,
                    ledger |-> db'.ledger]
      BY <1>4 DEF Purge1h, Install, purgeVars, Scheduled, Shaped
    <2>2. Clocks'
      BY <1>1, <2>1 DEF Scheduled, Clocks
    <2> QED BY <1>1, <2>1, <2>2 DEF Scheduled, Shaped, CutAt, RawFloor
  <1>5. CASE Purge1d
    <2>1. /\ db'.five = db.five /\ work' = db' /\ pc = "purge1d" /\ pc' = "idle"
          /\ UNCHANGED <<purgeAt, asked>>
          /\ db' = [five |-> db'.five, hour |-> db'.hour, day |-> db'.day,
                    ledger |-> db'.ledger]
      BY <1>5 DEF Purge1d, Install, Scheduled, Shaped
    <2>2. Clocks'
      <3>1. PICK at \in {now, purgeAt} : at = IF asked THEN now ELSE purgeAt
        BY Zenon
      <3>2. nextDue' = at + SlotsPerHour /\ purgeErr' = FALSE
        BY <1>5, <3>1 DEF Purge1d, RecordPurge
      <3>3. nextDue' \in Nat
        BY <1>1, <3>1, <3>2
      <3> QED BY <1>1, <2>1, <3>2, <3>3 DEF Clocks
    <2> QED BY <1>1, <2>1, <2>2 DEF Scheduled, Shaped, CutAt, RawFloor
  <1>6. CASE PurgeFails
    <2>1. /\ UNCHANGED <<db, work, purgeAt, asked>> /\ pc' = "idle" /\ purgeErr' = TRUE
      BY <1>6 DEF PurgeFails, RecordPurge
    <2>2. Clocks'
      <3>1. PICK at \in {now, purgeAt} : at = IF asked THEN now ELSE purgeAt
        BY Zenon
      <3>2. nextDue' = at + 1
        BY <1>6, <3>1 DEF PurgeFails, RecordPurge
      <3>3. nextDue' \in Nat
        BY <1>1, <3>1, <3>2
      <3> QED BY <1>1, <2>1, <3>3 DEF Clocks
    <2> QED BY <2>1, <2>2 DEF Scheduled, Shaped
  <1>7. CASE Wipe5m
    <2>1. /\ db'.five = Empty.five /\ work' = db' /\ pc' = "wipe1h"
          /\ UNCHANGED <<purgeAt, asked, nextDue, purgeErr>>
          /\ db' = [five |-> db'.five, hour |-> db'.hour, day |-> db'.day,
                    ledger |-> db'.ledger]
      BY <1>7 DEF Wipe5m, Install, purgeVars, Scheduled, Shaped
    <2>2. Clocks'
      BY <1>1, <2>1 DEF Scheduled, Clocks
    <2>3. /\ Empty.five = [k \in Keys |-> [w \in Windows |-> Empty.five[k][w]]]
          /\ \A k \in Keys, w \in Windows : Empty.five[k][w] = NoRow
      BY DEF Empty
    <2>4. (Shaped(db) /\ Shaped(work))'
      BY <2>1, <2>3 DEF Shaped
    <2>5. (CutAt(db) /\ CutAt(work))'
      BY <2>1, <2>3 DEF CutAt
    <2> QED BY <2>1, <2>2, <2>4, <2>5 DEF Scheduled
  <1>8. CASE Wipe1h \/ Wipe1d
    <2>1. /\ db'.five = db.five /\ work' = db' /\ pc \in {"wipe1h", "wipe1d"}
          /\ pc' \in {"wipe1d", "idle"}
          /\ UNCHANGED <<purgeAt, asked, nextDue, purgeErr>>
          /\ db' = [five |-> db'.five, hour |-> db'.hour, day |-> db'.day,
                    ledger |-> db'.ledger]
      BY <1>8 DEF Wipe1h, Wipe1d, Install, purgeVars, Scheduled, Shaped
    <2>2. Clocks'
      BY <1>1, <2>1 DEF Scheduled, Clocks
    <2> QED BY <1>1, <2>1, <2>2 DEF Scheduled, Shaped, CutAt, RawFloor
  <1>9. CASE WipeFails
    <2>1. /\ UNCHANGED <<db, work, purgeAt, asked, nextDue, purgeErr>>
          /\ pc \in {"wipe1h", "wipe1d"} /\ pc' = "idle"
      BY <1>9 DEF WipeFails, purgeVars
    <2>2. Clocks'
      BY <1>1, <2>1 DEF Scheduled, Clocks
    <2> QED BY <1>1, <2>1, <2>2 DEF Scheduled, Shaped, CutAt, RawFloor
  <1> QED BY <1>2, <1>3, <1>4, <1>5, <1>6, <1>7, <1>8, <1>9

\* A new process knows of no purge.
LEMMA ScheduledRestart ==
    ASSUME Scheduled, NEW r \in RawSettings, Restart(r)
    PROVE  Scheduled'
  <1>1. /\ raw' = r /\ work' = db /\ db' = db /\ now' = now /\ pc' = "idle"
        /\ purgeAt' = 0 /\ asked' = FALSE /\ nextDue' = 0 /\ purgeErr' = FALSE
    BY DEF Restart
  <1>2. r \in Nat /\ SlotsPerHour \in Nat /\ now \in Nat
    BY RetentionAssumption, CalendarAssumption DEF Scheduled, Clocks
  <1>3. Clocks'
    <2>1. purgeErr' \in BOOLEAN /\ asked' \in BOOLEAN
      BY <1>1, Zenon
    <2>2. /\ now' \in Nat /\ raw' \in Nat /\ purgeAt' \in Nat /\ purgeAt' <= now'
          /\ nextDue' \in Nat
      BY <1>1, <1>2
    <2> QED BY <2>1, <2>2, Zenon DEF Clocks
  <1> QED BY <1>1, <1>3 DEF Scheduled, Shaped

LEMMA ScheduledNext == Scheduled /\ [Next]_vars => Scheduled'
  <1> SUFFICES ASSUME Scheduled, [Next]_vars PROVE Scheduled'
    OBVIOUS
  <1>1. CASE Step
    BY <1>1, ScheduledQuiet, ScheduledBatch, ScheduledDeletes DEF Step
  <1>2. ASSUME NEW r \in RawSettings, Restart(r) PROVE Scheduled'
    BY <1>2, ScheduledRestart
  <1>3. CASE UNCHANGED vars
    BY <1>3, ScheduledQuiet
  <1> QED BY <1>1, <1>2, <1>3 DEF Next

THEOREM ScheduleHolds == Spec => []Scheduled
  BY ScheduledInit, ScheduledNext, PTL DEF Spec

\* ingest.rs, purge_if_due: while the last purge succeeded the 5m tier holds
\* nothing older than its floor, whatever retention each restart sets.
THEOREM PurgeStaysCut == Spec => []PurgedAsScheduled
  <1>1. Scheduled => PurgedAsScheduled
    BY DEF Scheduled, CutAt, PurgedAsScheduled
  <1> QED BY <1>1, ScheduleHolds, PTL
=============================================================================
