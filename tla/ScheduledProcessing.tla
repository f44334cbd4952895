---------------------------- MODULE ScheduledProcessing ----------------------------
(***************************************************************************)
(* The scheduled job of one company: its invocations overlap, crash, run   *)
(* out of time and meet periods that close, and create the daily records   *)
(* that are missing.                                                       *)
(*                                                                         *)
(* An invocation takes one database statement per step, except that an     *)
(* employee's transaction, materializeMissingDailyRecord, is one step: how *)
(* it locks out punches is module AttendanceLedger's subject, and who is   *)
(* eligible for a date is module Employees'.  The time budget is a number  *)
(* of employees an invocation gets through.                                *)
(***************************************************************************)
EXTENDS DueDates

CONSTANTS
    Employees,
    EligibleOn(_),  \* listEligibleEmployeeIdsAsOf the end of a date
    Failing,        \* [employee, date] whose day cannot be calculated
    Months, MonthOf(_),
    Invocations,
    StartTime, LastTime,
    Budget,         \* employees per invocation
    Interferences,  \* which of "crash", "fault", "period", "record" may happen
    MaxInterference,\* and how often in all
    None

Dates == FirstDate..LastDate
Instants == StartTime..LastTime
Day1 == [employee : Employees, date : Dates]

ASSUME ProcessingAssumption ==
    /\ \A d \in Dates : EligibleOn(d) \subseteq Employees /\ MonthOf(d) \in Months
    /\ Failing \subseteq Day1
    /\ StartTime \in Int /\ LastTime \in Int /\ StartTime <= LastTime
    /\ None \notin Invocations \cup Dates
    /\ Budget \in Nat \ {0}
    /\ MaxInterference \in Nat

\* The instance has every date that can be due while it runs.
ASSUME DatesAssumption ==
    \A t \in Instants :
        /\ \A d \in Scanned(t) : Due(d, t) => d \in Dates
        /\ UtcDate(t) - 4 \in Dates

VARIABLES
    now,        \* the server's clock
    closed,     \* attendance_periods: the closed months
    record,     \* attendance_daily_records
    running,    \* attendance_processing_runs: each date's RUNNING row, by who inserted it
    invocation, \* what each invocation of the job is doing
    used        \* how often the rest of the world has interfered

vars == <<now, closed, record, running, invocation, used>>
-----------------------------------------------------------------------------
Pcs == {"idle", "inputs", "date", "lock", "eligible", "abandon", "insert", "loop", "release"}

\* dates: those left.  failed and skipped stand for the run's counts, status for
\* what its row was finished with; nothing reads a row that is not RUNNING.
Invocation ==
    [pc: Pcs, dates: SUBSET Dates, date: Dates \cup {None}, missing: SUBSET Employees,
     failed: SUBSET Employees, skipped: SUBSET Employees, budget: 0..Budget,
     status: {"RUNNING", "COMPLETED", "FAILED"}]

Idle ==
    [pc |-> "idle", dates |-> {}, date |-> None, missing |-> {}, failed |-> {}, skipped |-> {},
     budget |-> 0, status |-> "RUNNING"]

Init ==
    /\ now = StartTime /\ closed = {} /\ record = {}
    /\ running = [d \in Dates |-> None]
    /\ invocation = [i \in Invocations |-> Idle]
    /\ used = 0

Holding == {"eligible", "abandon", "insert", "loop", "release"}

Held(d) == \E i \in Invocations : invocation[i].pc \in Holding /\ invocation[i].date = d

Recorded(d) == {e \in Employees : [employee |-> e, date |-> d] \in record}

Oldest(dates) == CHOOSE d \in dates : \A x \in dates : d <= x

Become(i, q) == invocation' = [invocation EXCEPT ![i] = q]

Interfere(kind) == kind \in Interferences /\ used < MaxInterference /\ used' = used + 1

\* After a date: the next one, if the budget allows.  The lock goes with the
\* transaction that held it.
NextDate(q) ==
    [Idle EXCEPT !.pc = "date", !.dates = q.dates \ {q.date}, !.budget = q.budget]
-----------------------------------------------------------------------------
(* runScheduledAttendanceProcessing                                        *)

Invoke(i) ==
    /\ invocation[i].pc = "idle"
    /\ Become(i, [Idle EXCEPT !.pc = "inputs", !.budget = Budget])
    /\ UNCHANGED <<now, closed, record, running, used>>

\* The reading of zones and windows; the clock was read when the job started, here
\* at most one tick earlier.
SelectDates(i) ==
    /\ invocation[i].pc = "inputs"
    /\ Become(i, [invocation[i] EXCEPT !.pc = "date", !.dates = ComputeDueWorkDates(now)])
    /\ UNCHANGED <<now, closed, record, running, used>>

Stop(i) ==
    LET q == invocation[i] IN
    /\ q.pc = "date" /\ (q.dates = {} \/ q.budget = 0)
    /\ Become(i, Idle)
    /\ UNCHANGED <<now, closed, record, running, used>>

\* isAttendancePeriodClosed, before the lock is taken.
CheckPeriod(i) ==
    LET q == invocation[i]  d == Oldest(q.dates) IN
    /\ q.pc = "date" /\ q.dates # {} /\ q.budget > 0
    /\ Become(i, IF MonthOf(d) \in closed THEN NextDate([q EXCEPT !.date = d])
                 ELSE [q EXCEPT !.pc = "lock", !.date = d])
    /\ UNCHANGED <<now, closed, record, running, used>>
-----------------------------------------------------------------------------
(* processCompanyWorkDate                                                  *)

\* Plausible bug: the lock excludes nobody.
LockAnyway(i) ==
    LET q == invocation[i] IN
    /\ q.pc = "lock"
    /\ Become(i, [q EXCEPT !.pc = "eligible"])
    /\ UNCHANGED <<now, closed, record, running, used>>

\* withProcessingLock: pg_try_advisory_xact_lock never waits.
TryLock(i) ==
    LET q == invocation[i] IN
    /\ q.pc = "lock"
    /\ Become(i, IF Held(q.date) THEN NextDate(q) ELSE [q EXCEPT !.pc = "eligible"])
    /\ UNCHANGED <<now, closed, record, running, used>>

ReadMissing(i) ==
    LET q == invocation[i]  missing == EligibleOn(q.date) \ Recorded(q.date) IN
    /\ q.pc = "eligible"
    /\ Become(i, IF missing = {} THEN NextDate(q)
                 ELSE [q EXCEPT !.pc = "abandon", !.missing = missing])
    /\ UNCHANGED <<now, closed, record, running, used>>

AbandonStaleRunning(i) ==
    LET q == invocation[i] IN
    /\ q.pc = "abandon"
    /\ running' = [running EXCEPT ![q.date] = None]
    /\ Become(i, [q EXCEPT !.pc = "insert"])
    /\ UNCHANGED <<now, closed, record, used>>

\* The unique index of running rows; a refused insert ends the company's dates.
InsertRunning(i) ==
    LET q == invocation[i] IN
    /\ q.pc = "insert"
    /\ \/ /\ running[q.date] # None
          /\ Become(i, Idle) /\ UNCHANGED running
       \/ /\ running[q.date] = None
          /\ running' = [running EXCEPT ![q.date] = i]
          /\ Become(i, [q EXCEPT !.pc = "loop"])
    /\ UNCHANGED <<now, closed, record, used>>

\* Plausible bug: the check before the lock is taken to be enough.
PeriodLockedIgnored(d) == FALSE

\* assertAttendancePeriodOpen, under the period's lock.
PeriodLocked(d) == MonthOf(d) \in closed

\* materializeMissingDailyRecord of some employee: the queries have no order.
Materialize(i) ==
    LET q == invocation[i] IN
    /\ q.pc = "loop" /\ q.budget > 0
    /\ \E e \in q.missing :
          LET next == [q EXCEPT !.missing = @ \ {e}, !.budget = @ - 1]
              day == [employee |-> e, date |-> q.date]
          IN \/ /\ PeriodLocked(q.date) \/ day \in record
                /\ Become(i, [next EXCEPT !.skipped = @ \cup {e}]) /\ UNCHANGED record
             \/ /\ ~PeriodLocked(q.date) /\ day \notin record /\ day \in Failing
                /\ Become(i, [next EXCEPT !.failed = @ \cup {e}]) /\ UNCHANGED record
             \/ /\ ~PeriodLocked(q.date) /\ day \notin record \cup Failing
                /\ Become(i, next) /\ record' = record \cup {day}
    /\ UNCHANGED <<now, closed, running, used>>

\* Plausible bug: a run that ran out of time is reported as complete.
OutcomeIgnoringBudget(q) == "COMPLETED"

\* Plausible bug: the outcome reported for the date is stored as the run's status.
OutcomeAsReported(q) == IF q.missing = {} THEN "COMPLETED" ELSE "INCOMPLETE"

Outcome(q) == IF q.missing = {} THEN "COMPLETED" ELSE "FAILED"

\* The row this invocation inserted, if it is still RUNNING.
Finished(i) ==
    LET d == invocation[i].date IN
    running' = IF running[d] = i THEN [running EXCEPT ![d] = None] ELSE running

Finish(i) ==
    LET q == invocation[i] IN
    /\ q.pc = "loop" /\ (q.missing = {} \/ q.budget = 0)
    /\ Finished(i)
    /\ Become(i, [q EXCEPT !.pc = "release", !.status = Outcome(q)])
    /\ UNCHANGED <<now, closed, record, used>>

Incomplete(q) == q.status = "FAILED" /\ q.missing # {}

\* Plausible bug: a run that stops early returns without giving up its lock.
ReleaseUnlessIncomplete(i) ==
    LET q == invocation[i] IN
    /\ q.pc = "release" /\ ~Incomplete(q)
    /\ Become(i, NextDate(q))
    /\ UNCHANGED <<now, closed, record, running, used>>

\* The lock's transaction commits; an INCOMPLETE date ends the company's dates.
Release(i) ==
    LET q == invocation[i] IN
    /\ q.pc = "release"
    /\ Become(i, IF Incomplete(q) THEN Idle ELSE NextDate(q))
    /\ UNCHANGED <<now, closed, record, running, used>>
-----------------------------------------------------------------------------
(* Failures                                                                *)

\* A statement outside the loop fails, a connection not being available in time
\* included: the lock's transaction rolls back, the company's dates end.
FailStatement(i) ==
    /\ Interfere("fault")
    /\ invocation[i].pc \in Pcs \ {"idle", "loop", "release"}
    /\ Become(i, Idle)
    /\ UNCHANGED <<now, closed, record, running>>

\* One employee's transaction fails.
FailMaterialize(i) ==
    LET q == invocation[i] IN
    /\ Interfere("fault")
    /\ q.pc = "loop" /\ q.budget > 0
    /\ \E e \in q.missing :
          Become(i, [q EXCEPT !.missing = @ \ {e}, !.budget = @ - 1, !.failed = @ \cup {e}])
    /\ UNCHANGED <<now, closed, record, running>>

\* finish fails: the outcome is FAILED, not INCOMPLETE, even if the handler's second
\* finish fails too.
FailFinish(i) ==
    LET q == invocation[i] IN
    /\ Interfere("fault")
    /\ q.pc = "loop" /\ (q.missing = {} \/ q.budget = 0)
    /\ Finished(i) \/ UNCHANGED running
    /\ Become(i, [q EXCEPT !.pc = "release", !.status = "FAILED", !.missing = {}])
    /\ UNCHANGED <<now, closed, record>>

\* The process dies or the platform kills it: its transaction and lock go with it.
Crash(i) ==
    /\ Interfere("crash")
    /\ invocation[i].pc # "idle"
    /\ Become(i, Idle)
    /\ UNCHANGED <<now, closed, record, running>>
-----------------------------------------------------------------------------
(* The rest of the system                                                  *)

\* closeAttendancePeriod, reopenAttendancePeriod
TogglePeriod(m) ==
    /\ Interfere("period")
    /\ closed' = IF m \in closed THEN closed \ {m} ELSE closed \cup {m}
    /\ UNCHANGED <<now, record, running, invocation>>

\* A check-out, an approved correction or HR creates the record.
RecordOtherwise(e, d) ==
    /\ Interfere("record")
    /\ MonthOf(d) \notin closed /\ e \in EligibleOn(d)
    /\ record' = record \cup {[employee |-> e, date |-> d]}
    /\ UNCHANGED <<now, closed, running, invocation>>

Tick ==
    /\ now < LastTime /\ now' = now + 1
    /\ UNCHANGED <<closed, record, running, invocation, used>>

Step(i) ==
    \/ SelectDates(i) \/ Stop(i) \/ CheckPeriod(i) \/ TryLock(i) \/ ReadMissing(i)
    \/ AbandonStaleRunning(i) \/ InsertRunning(i) \/ Materialize(i) \/ Finish(i) \/ Release(i)

Next ==
    \/ \E i \in Invocations : Invoke(i) \/ Step(i)
    \/ \E i \in Invocations : FailStatement(i) \/ FailMaterialize(i) \/ FailFinish(i) \/ Crash(i)
    \/ \E m \in Months : TogglePeriod(m)
    \/ \E e \in Employees, d \in Dates : RecordOtherwise(e, d)
    \/ Tick

Spec == Init /\ [][Next]_vars

\* The scheduler keeps invoking the job, a live invocation goes on, time passes.
FairSpec ==
    /\ Spec /\ WF_vars(Tick)
    /\ \A i \in Invocations : WF_vars(Invoke(i)) /\ WF_vars(Step(i))
-----------------------------------------------------------------------------
(* Properties                                                              *)

\* The clock, the periods, the records, the run rows and the invocations are well
\* formed.
TypeOK ==
    /\ now \in Instants
    /\ closed \subseteq Months
    /\ record \subseteq Day1
    /\ running \in [Dates -> Invocations \cup {None}]
    /\ invocation \in [Invocations -> Invocation]
    /\ used \in 0..MaxInterference

\* computeDueWorkDates: its short scan misses none of the latest due dates, however
\* far behind UTC the company's zones are and however late its shifts end.
NothingDueIsMissed ==
    LET due == {d \in Dates : Due(d, now)} IN
    ComputeDueWorkDates(now) = Newest(due, Lookback)

\* "One PostgreSQL advisory lock per (company, work date) serializes runs": the row
\* of a run still alive is changed by that run only, although the next run marks
\* rows it takes for stale, and no run fails on the unique index of running rows.
RunsDoNotDisturbEachOther ==
    [][\A i \in Invocations :
         /\ invocation[i].pc = "loop" /\ invocation'[i] = invocation[i] =>
               running'[invocation[i].date] = i
         /\ InsertRunning(i) => invocation'[i].pc = "loop"]_vars

ByTheJob(i) == invocation'[i] # invocation[i]

\* "Closed periods are never written to", "it can only delay processing, never
\* advance it": whatever closes, crashes or overlaps between the checks and the
\* write, the job creates a record in an open period only, for an eligible employee
\* without one, and after the date and every window that starts on it ended in every
\* zone.
JobWritesOnlyWhereItMay ==
    [][\A i \in Invocations, x \in record' \ record :
         ByTheJob(i) =>
            /\ MonthOf(x.date) \notin closed
            /\ x.employee \in EligibleOn(x.date)
            /\ \A z \in Zones, w \in Windows :
                  LET nights == IF w.start < w.end THEN 0 ELSE 1 IN
                  now >= x.date * Day + Lag + (IF nights = 0 THEN 0 ELSE Day) + w.end
                           - Offset(z, x.date + nights)]_vars

\* "never reports an interrupted run as complete": when a run is marked COMPLETED,
\* everybody eligible has a record, or is counted as failed, or as skipped.
CompletedMeansReached ==
    [][\A i \in Invocations :
         LET q == invocation[i] IN
         q.status = "RUNNING" /\ invocation'[i].status = "COMPLETED" =>
            EligibleOn(q.date) \subseteq Recorded(q.date) \cup q.failed \cup q.skipped]_vars

Settled(d) ==
    \/ MonthOf(d) \in closed
    \/ \A e \in EligibleOn(d) :
          LET day == [employee |-> e, date |-> d] IN day \in record \cup Failing

\* "the next invocation resumes": although every invocation begins with the oldest
\* date and its failing employees, and stops when its time is spent, all due dates
\* are processed in the end, after crashes and overlapping runs too.
CaughtUp == <>[](now = LastTime /\ \A d \in ComputeDueWorkDates(now) : Settled(d))

=============================================================================
