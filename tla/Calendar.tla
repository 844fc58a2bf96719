------------------------------ MODULE Calendar ------------------------------
(***************************************************************************)
(* The three resolutions of the usage history (ingest.rs): windows of five *)
(* minutes, hours and days.  The unit of time is one window, so a point in *)
(* time is the number of its window; the stamps the code compares as       *)
(* strings are fixed-width UTC, whose string order is this numeric order.  *)
(* SlotsPerHour is 12 and HoursPerDay 24 in the program.                   *)
(***************************************************************************)
EXTENDS Integers

CONSTANTS SlotsPerHour, HoursPerDay, \* the calendar
          CalendarDays               \* bound: days a model distinguishes

ASSUME CalendarAssumption ==
    /\ SlotsPerHour \in Nat \ {0}
    /\ HoursPerDay \in Nat \ {0}
    /\ CalendarDays \in Nat \ {0}

Windows == 0 .. (CalendarDays * HoursPerDay * SlotsPerHour) - 1
Hours   == 0 .. (CalendarDays * HoursPerDay) - 1
Days    == 0 .. CalendarDays - 1

\* floor_hour of a stamp; with_hour(0) of an hour.
HourOf(w) == w \div SlotsPerHour
DayOf(h)  == h \div HoursPerDay

\* The ranges compact_into selects: window_start >= a AND window_start < b.
WindowsIn(h)   == {w \in Windows : HourOf(w) = h}
HoursIn(d)     == {h \in Hours : DayOf(h) = d}
WindowsOn(d)   == {w \in Windows : DayOf(HourOf(w)) = d}
=============================================================================
