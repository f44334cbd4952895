-------------------------- MODULE MCAttendanceLedger --------------------------
(* Instances of AttendanceLedger for TLC.  The calendars give the clock ticks   *)
(* their local dates, the dates their months and the shifts their ends.         *)
EXTENDS AttendanceLedger, TLC

\* Two work dates in two months; the first one's shift runs past midnight.
TwoMonthsDateOf == [t \in Times |-> IF t = 1 THEN 1 ELSE 2]
TwoMonthsMonthOf == [d \in Dates |-> d]
NightShift == [d \in Dates |-> IF d = 1 THEN 3 ELSE 0]

\* Two work dates of one month without schedules.
OneMonthMonthOf == [d \in Dates |-> 1]
NoShift == [d \in Dates |-> 0]

Symmetry ==
    Permutations(Requests) \cup Permutations(SessionIds) \cup Permutations(CorrectionIds)
=============================================================================
