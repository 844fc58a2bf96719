---------------------------- MODULE RollupHistory ----------------------------
(***************************************************************************)
(* RollupStore implements UsageHistory: the mapping adds up the samples of *)
(* the 5m rows a coarse row stands for, and takes the request of the       *)
(* newest of them, as compact_into does.                                   *)
(***************************************************************************)
EXTENDS RollupStore, FiniteSetsExt

Held(row) == {w \in DOMAIN row : row[w] # NoRow}

TotalOf(row) ==
    IF row = NoRow THEN NoRow
    ELSE [samples |-> MapThenSumSet(LAMBDA w : row[w].samples, Held(row)),
          newest  |-> Max(Held(row)),
          request |-> row[Max(Held(row))].request]

HourTotals == [k \in Keys |-> [h \in Hours |-> TotalOf(db.hour[k][h])]]
DayTotals  == [k \in Keys |-> [d \in Days |-> TotalOf(db.day[k][d])]]

History == INSTANCE UsageHistory WITH
    hours <- HourTotals, days <- DayTotals, wiping <- torn

\* The absence of a row is neither a row nor a total.
ASSUME AbsenceAssumption ==
    /\ NoRow \notin [samples : Nat, newest : Windows, request : Requests]
    /\ \A h \in Hours : NoRow \notin [WindowsIn(h) -> Slot]
    /\ \A d \in Days : NoRow \notin [WindowsOn(d) -> Slot]

\* Whatever order batches land in, a coarse row is what adding every batch
\* once to it would give, with the newest window's request, and only
\* retention and an "all" purge take anything away (compact_into, purge).
ImplementsUsageHistory == History!Spec
=============================================================================
