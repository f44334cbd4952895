-------------------------------- MODULE DueDates --------------------------------
(***************************************************************************)
(* Which work dates may be processed.  A date is an integer, date 0 being  *)
(* the UTC day that starts at instant 0; an instant is an integer of units *)
(* of which a day has Day.  A zone is ahead of UTC by Offset(z, d), which   *)
(* daylight saving may change from date to date.                           *)
(***************************************************************************)
EXTENDS Integers, FiniteSets

CONSTANTS
    Day,            \* units in a day
    Zones,          \* of the company, its active branches and schedules
    Offset(_, _),   \* of a zone on a date, in units
    Windows,        \* [start, end] of the active shifts and schedules
    Lag,            \* ATTENDANCE_PROCESSING_LAG_MINUTES
    Lookback,       \* ATTENDANCE_PROCESSING_LOOKBACK_DAYS
    FirstDate, LastDate

\* The lag is at most a day (config/env.ts), and no zone is more than half a day
\* behind UTC.
ASSUME DueDatesAssumption ==
    /\ Day \in Nat \ {0} /\ Zones # {}
    /\ Lag \in 0..Day /\ Lookback \in Nat \ {0}
    /\ FirstDate \in Int /\ LastDate \in Int
    /\ \A w \in Windows : w.start \in 0..(Day - 1) /\ w.end \in 0..(Day - 1)
    /\ \A z \in Zones, d \in FirstDate..(LastDate + 1) :
          Offset(z, d) \in Int /\ -Day <= 2 * Offset(z, d) /\ Offset(z, d) <= Day + Day
-----------------------------------------------------------------------------
SpansMidnight(w) == w.end <= w.start

\* zonedWallTimeToUtc
Utc(d, time, z) == d * Day + time - Offset(z, d)

WindowEnd(w, d, z) == Utc(IF SpansMidnight(w) THEN d + 1 ELSE d, w.end, z)

\* workDateDueAt is the latest of these instants; the lag is added to it.
Due(d, now) ==
    \A z \in Zones :
        /\ Utc(d + 1, 0, z) + Lag <= now
        /\ \A w \in Windows : WindowEnd(w, d, z) + Lag <= now

\* now.toISOString().slice(0, 10)
UtcDate(now) == now \div Day

\* Plausible bug: the scan starts a day too late.
ScannedShort(now) == {UtcDate(now) - offset : offset \in -1..(Lookback + 2)}

Scanned(now) == {UtcDate(now) - offset : offset \in -1..(Lookback + 3)}

Newest(dates, n) == {d \in dates : Cardinality({x \in dates : x > d}) < n}

ComputeDueWorkDates(now) == Newest({d \in Scanned(now) : Due(d, now)}, Lookback)
=============================================================================
