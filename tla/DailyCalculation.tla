---------------------------- MODULE DailyCalculation ----------------------------
(***************************************************************************)
(* The calculation of one employee's day: pure operators over the day's    *)
(* sessions, the approved corrections, what workforce says of the date and *)
(* the company's policy.  A time is a number, the minutes of the code; a   *)
(* missing one is None.                                                    *)
(*                                                                         *)
(* A session is [id, in, out, start, end, grace, breaks]: its punches, the *)
(* expectation captured at its check-in, and its breaks [start, end].      *)
(***************************************************************************)
EXTENDS Integers, FiniteSets, Sequences, SequencesExt

CONSTANT None

Later(a, b) == IF a >= b THEN a ELSE b
Earlier(a, b) == IF a <= b THEN a ELSE b

Sum(f(_), seq) == FoldLeft(LAMBDA total, x : total + f(x), 0, seq)
-----------------------------------------------------------------------------
(* Expectation periods                                                     *)

BeforeOf(a, b) == a.in < b.in \/ (a.in = b.in /\ a.id < b.id)

\* The sessions in the order of their check-ins.
ByCheckIn(sessions) ==
    CHOOSE seq \in [1..Cardinality(sessions) -> sessions] :
        \A m, n \in DOMAIN seq : m < n => BeforeOf(seq[m], seq[n])

SameExpectation(s, t) == s.start = t.start /\ s.end = t.end

\* The first session of each run of sessions with the same expectation.
Distinct(ordered) ==
    FoldLeft(LAMBDA firsts, s :
                IF s.start = None \/ (firsts # <<>> /\ SameExpectation(Last(firsts), s))
                THEN firsts ELSE Append(firsts, s),
             <<>>, ordered)

\* Plausible bug: the next capture does not cut the period.
Uncut(distinct, n) == distinct[n].end

\* A period is cut where the next expectation was first captured.
OperativeEnd(distinct, n) ==
    IF n = Len(distinct) THEN distinct[n].end
    ELSE Later(distinct[n].start, Earlier(distinct[n].end, distinct[n + 1].in))

NormalizeExpectationPeriods(ordered) ==
    LET distinct == Distinct(ordered) IN
    [n \in DOMAIN distinct |->
        [start |-> distinct[n].start, end |-> distinct[n].end, grace |-> distinct[n].grace,
         operativeEnd |-> OperativeEnd(distinct, n), in |-> distinct[n].in]]
-----------------------------------------------------------------------------
(* Corrections                                                             *)

\* An approved correction is [field, target, value]: the id of the session it was
\* resolved to, or 0 for the check-in of a day without sessions, which makes up a
\* session from what workforce says now.  A session has one break at most here.
Synthetic(c, info) ==
    [id |-> 0, in |-> c.value, out |-> None,
     start |-> IF info.window = None THEN None ELSE info.window.start,
     end |-> IF info.window = None THEN None ELSE info.window.end,
     grace |-> info.grace, breaks |-> <<>>]

Applied(c, s) ==
    IF c.field = "CHECK_IN" THEN [s EXCEPT !.in = c.value]
    ELSE IF c.field = "CHECK_OUT" THEN [s EXCEPT !.out = c.value]
    ELSE IF s.breaks = <<>> THEN s
    ELSE IF c.field = "BREAK_START" THEN [s EXCEPT !.breaks[1].start = c.value]
    ELSE [s EXCEPT !.breaks[1].end = c.value]

\* applyCorrectionsToSessions: at most one correction has a given field and target.
ApplyCorrectionsToSessions(sessions, corrections, info) ==
    LET all == sessions \cup {Synthetic(c, info) : c \in {x \in corrections : x.target = 0}}
        of(s) == SetToSeq({c \in corrections : c.target # 0 /\ c.target = s.id})
    IN {FoldLeft(LAMBDA x, c : Applied(c, x), s, of(s)) : s \in all}
-----------------------------------------------------------------------------
(* The day                                                                 *)

ClosedBreakMinutes(s) ==
    Sum(LAMBDA b : IF b.end = None THEN 0 ELSE b.end - b.start, s.breaks)

Worked(s) == s.out - s.in - ClosedBreakMinutes(s)

BreakMinutes(ordered) == Sum(ClosedBreakMinutes, ordered)

\* A session that is still open leaves no number.
WorkedMinutes(sessions, ordered) ==
    IF \E s \in sessions : s.out = None THEN None ELSE Sum(Worked, ordered)

PeriodMinutes(periods) == Sum(LAMBDA p : p.operativeEnd - p.start, periods)

\* What was missed and what was worked beyond it; no period, no such number.
DetermineStatus(info, ordered, periods, late, worked, scheduled, minimum) ==
    IF info.isHoliday THEN IF ordered # <<>> THEN "HOLIDAY_WORKED" ELSE "HOLIDAY"
    ELSE IF info.isWeeklyOff THEN IF ordered # <<>> THEN "WEEKLY_OFF_WORKED" ELSE "WEEKLY_OFF"
    ELSE IF ordered = <<>>
         THEN IF info.isWorkingDay /\ info.window # None THEN "ABSENT" ELSE "NO_SCHEDULE"
    ELSE IF periods = <<>> THEN "NO_SCHEDULE"
    ELSE IF worked = None THEN "INCOMPLETE"
    ELSE IF late > 0 THEN "LATE"
    ELSE IF minimum # None /\ worked < Earlier(minimum, scheduled) THEN "UNDER_HOURS"
    ELSE "PRESENT"

\* Plausible bug: a day with a schedule is measured against it as it is now.
ScheduledNow(ordered, periods, info) ==
    IF info.window # None THEN info.window.end - info.window.start
    ELSE PeriodMinutes(periods)

\* Only a day without sessions is measured against what workforce says now.
ScheduledMinutes(ordered, periods, info) ==
    IF ordered = <<>> /\ info.isWorkingDay /\ info.window # None
    THEN info.window.end - info.window.start
    ELSE PeriodMinutes(periods)

\* policy is [grace, early, threshold, minimum].
CalculateDailyAttendance(sessions, info, policy) ==
    LET ordered == ByCheckIn(sessions)
        periods == NormalizeExpectationPeriods(ordered)
        scheduled == ScheduledMinutes(ordered, periods, info)
        worked == WorkedMinutes(sessions, ordered)
        lastOut == IF ordered = <<>> THEN None ELSE ordered[Len(ordered)].out
        late == IF periods = <<>> THEN None
                ELSE Later(0, ordered[1].in - periods[1].start - periods[1].grace)
        early == IF periods = <<>> \/ lastOut = None THEN None
                 ELSE Later(0, periods[Len(periods)].operativeEnd - lastOut - policy.early)
        threshold == IF periods = <<>> THEN 0 ELSE policy.threshold
    IN [status |-> DetermineStatus(info, ordered, periods, late, worked, scheduled, policy.minimum),
        scheduled |-> scheduled, worked |-> worked, late |-> late, early |-> early,
        breaks |-> BreakMinutes(ordered),
        overtime |-> IF worked = None THEN None ELSE Later(0, worked - scheduled - threshold),
        firstIn |-> IF ordered = <<>> THEN None ELSE ordered[1].in, lastOut |-> lastOut]
=============================================================================
