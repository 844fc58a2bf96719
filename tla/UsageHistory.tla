---------------------------- MODULE UsageHistory ----------------------------
(***************************************************************************)
(* What Rightsizing relies on when it reads the 1h and 1d tiers: a batch   *)
(* is added, once and as a whole, to the hour and the day of its window,   *)
(* and nothing else changes a total except retention, which removes whole  *)
(* rows older than TMJLENS_RETENTION_ROLLUP, and an administrator's "all". *)
(* RollupStore rebuilds the same rows from finer ones instead of adding.   *)
(***************************************************************************)
EXTENDS Calendar

CONSTANTS Keys, Requests, NoRow, RollHours, MaxRows

VARIABLES now,    \* the wall clock
          hours,  \* hours[k][h], days[k][d]: a total, or NoRow
          days,
          wiping  \* an "all" purge has begun and not come to its end

vars == <<now, hours, days, wiping>>

\* Samples counted, and the request of the newest window counted.
Total == [samples : Nat, newest : Windows, request : Requests]

\* What one batch carries for a key: some samples, one request.
Part == [samples : 1 .. MaxRows, request : Requests]

Init ==
    /\ now = 0
    /\ hours = [k \in Keys |-> [h \in Hours |-> NoRow]]
    /\ days = [k \in Keys |-> [d \in Days |-> NoRow]]
    /\ wiping = FALSE

Added(total, w, part) ==
    IF total = NoRow
      THEN [samples |-> part.samples, newest |-> w, request |-> part.request]
      ELSE [samples |-> total.samples + part.samples,
            newest  |-> IF w > total.newest THEN w ELSE total.newest,
            request |-> IF w >= total.newest THEN part.request
                        ELSE total.request]

Land(w) ==
    \E K \in SUBSET Keys : \E batch \in [K -> Part] :
        /\ hours' = [k \in Keys |-> [h \in Hours |->
                       IF k \in K /\ h = HourOf(w)
                         THEN Added(hours[k][h], w, batch[k])
                         ELSE hours[k][h]]]
        /\ days' = [k \in Keys |-> [d \in Days |->
                       IF k \in K /\ d = DayOf(HourOf(w))
                         THEN Added(days[k][d], w, batch[k])
                         ELSE days[k][d]]]
        /\ UNCHANGED <<now, wiping>>

ForgetHours(cut) ==
    /\ cut <= HourOf(now) - RollHours
    /\ hours' = [k \in Keys |-> [h \in Hours |->
                   IF h < cut THEN NoRow ELSE hours[k][h]]]
    /\ UNCHANGED <<now, days, wiping>>

ForgetDays(cut) ==
    /\ cut <= DayOf(HourOf(now) - RollHours)
    /\ days' = [k \in Keys |-> [d \in Days |->
                   IF d < cut THEN NoRow ELSE days[k][d]]]
    /\ UNCHANGED <<now, hours, wiping>>

\* Nothing is promised of the totals until an "all" purge comes to its end,
\* and then they are empty.
Wipe ==
    /\ wiping \/ wiping'
    /\ UNCHANGED now
    /\ (wiping /\ ~wiping') =>
         /\ hours' = [k \in Keys |-> [h \in Hours |-> NoRow]]
         /\ days' = [k \in Keys |-> [d \in Days |-> NoRow]]

TimePasses ==
    /\ now' >= now
    /\ UNCHANGED <<hours, days, wiping>>

Next ==
    \/ TimePasses
    \/ Wipe
    \/ \E cut \in 0 .. HourOf(now) : ForgetHours(cut)
    \/ \E cut \in 0 .. DayOf(HourOf(now)) : ForgetDays(cut)
    \/ \E w \in Windows : Land(w)

Spec == Init /\ [][Next]_vars
=============================================================================
