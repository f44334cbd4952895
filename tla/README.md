# Attendance ERP in TLA+

A TLA+ model of the Attendance & Workforce ERP in `src/`: the database
transactions behind punches, corrections and the monthly close, the daily
calculation, the scheduled job, sign-in, employees, workforce planning, the
pages that read all of it, and the forms, panels and listings through which
people use it. TLC checks small instances; TLAPS proves, for every instance, the
safety properties that the runs check, and that the ledger implements its
abstract specification. Paths below are relative to `src/src/` unless they begin
with `src/`; `service.ts` alone is `domains/attendance/service.ts`.

1. [The system](#1-the-system)
2. [Modules](#2-modules)
3. [The models](#3-the-models)
4. [Runs](#4-runs)
5. [Refinement](#5-refinement)
6. [Proofs](#6-proofs)
7. [Findings](#7-findings)
8. [Not modelled](#8-not-modelled)
9. [Plan](#9-plan)

## 1. The system

A Next.js/TypeScript modular monolith over one PostgreSQL database. Every HTTP
route builds a request context, calls one service operation of a domain and maps
its errors. The services hold no state in memory: all shared state is rows, and
all coordination is PostgreSQL's (READ COMMITTED transactions, row locks,
advisory transaction locks, unique indexes). Several server processes, and
several requests in each, run at the same time. Pages are rendered on the server
from their address; client components keep the state of forms and dialogs, send
requests with `fetch` and ask for a new rendering with `router.refresh()`.

| Component | State | Operations | Hard behaviour | Correct when | Module |
|---|---|---|---|---|---|
| Attendance ledger (`service.ts`, `repository.ts`, `periods/`) | sessions, events, daily records, periods | check-in/out, breaks, recalculate, materialize, repair, close, reopen | unlocked reads used under locks later, two-day locks, the close racing everything, retries | no open session in a closed month and nothing changes in one, records fresh, one open session, keys take effect once, no deadlock | `AttendanceLedger`, `AttendanceBook` |
| Corrections (`service.ts`) | corrections | request, approve, reject | duplicate and double review, targets resolved anew in each calculation | one live correction per target, reviewed once | `AttendanceLedger`, `WorkDay` |
| Calculation (`calculation.ts`) | none | a pure function | interval edges, captured expectations, precedence of statuses | no minute counted twice, history keeps its numbers | `DailyCalculation`, `WorkDay` |
| Scheduled processing (`processing/`) | processing runs | scheduled and manual run per company and date | lock by try, crash leaves RUNNING, time budget, due dates of many zones | nothing due is missed, runs keep apart, everything is reached in the end | `DueDates`, `ScheduledProcessing` |
| Exceptions, calendar, reports, dashboard, directory | dismissals | queries, dismiss, export | separate queries of one page, ties at page edges, check then write | every row once, figures agree, only what HR saw is hidden | `Overview` |
| Login, sessions, password, rate limiter (`domains/auth`, `lib/auth`) | accounts, memberships, sessions, counters | login, renewal, logout, change, reset, (de)activate | login racing a reset, renewal racing a revocation, counted after the attempt | deleted stays deleted, bounded failures | `Access`, `Roles` |
| Employees, onboarding, organization (`domains/employee`, `domains/organization`) | employees, history, checklists, units | create, update, assign, archive, status, onboarding, move | checks on stale reads, writes without a transaction | no cycles, unique numbers, status as of a day | `Employees` |
| Workforce (`domains/workforce`) | templates, assignments, weekly offs, holidays | assign, shorten, archive, replace, resolve a day | check then insert on ranges | one assignment per day, one company default | `Workforce`, `WorkDay` |
| Forms | form state per tab | open, type, save, archive | stale rows, two tabs, lost answers | an edit changes what was typed | `Forms` |
| Panels | what was rendered, dialogs | commands, loads | stale buttons, buttons that ask for less than the service, late answers | refusals are explained, pressed twice counts once | `Panels` |
| Listings | the address, filter fields | apply, links, selects, export | filters that travel, midnight, rows that come and go | what is shown is what was asked | `Listings` |
| Policy | one row | read, update | - | - | `WorkDay`, `Panels` |
| Connection pool, audit log, routes, layout, scripts | ten connections; a log | - | nested borrowing; lost when the process dies | - | see 8 |

`PROJECT.json` lists the components with their status, and under `hazards` each
place where one of these behaviours bites, with the property that covers it or
why none does.

## 2. Modules

| Module | What it is | Extends |
|---|---|---|
| `AttendanceLedger` | the writers of attendance data as transactions, one action per database step | - |
| `AttendanceBook` | what they promise: each operation at once, records always right | - |
| `MCAttendanceLedger` | calendars, shifts, symmetry for TLC | `AttendanceLedger` |
| `AttendanceLedger_proofs`, `AttendanceLedgerDays_proofs` | proofs: types and closed periods; locks, sessions, records, what happens at most once, the refinement of the book | the second the first, the first `AttendanceLedger` |
| `DailyCalculation` | the calculation as operators | - |
| `Workforce` | what applies on a date, and the calls that change it | - |
| `WorkDay`, `MCWorkDay` | one employee's day: punches and corrections over `Workforce`, calculated by an instance of `DailyCalculation` | `Workforce` |
| `WorkDay_proofs` | proofs: the rows of workforce and of a day, and the day's numbers | `WorkDay` |
| `DueDates` | which dates are due | - |
| `ScheduledProcessing`, `MC...`, `..._proofs` | the job of one company; that the bounded scan of due dates is enough, and that the job is right | `DueDates` |
| `Roles` | permissions, ranks, approvers | - |
| `Access`, `MCAccess`, `Access_proofs` | who is signed in | `Roles` |
| `Employees`, `Employees_proofs` | employees, history, onboarding, units | - |
| `Overview`, `MCEmployees`, `Overview_proofs` | the pages that read, while employees and records change | `Employees` |
| `Forms` | the forms in the browser, with their routes | - |
| `Panels` | the other panels | `Forms` |
| `Listings`, `MCBrowser` | the listings; composes the three into one browser specification | `Panels` |
| `Browser_proofs` | proofs: panels, forms and listings, each as a part of the browser specification | `Listings` |

Definitions commented "A plausible bug" or "Mutant" are wrong versions of the
definition below them (a missing lock, a forgotten filter). `PROJECT.json`
"mutants" substitutes them to see that a property notices; nothing uses them
otherwise.

Two ways of composing appear. `WorkDay` and `Overview` run with the component
they extend: their steps and its steps interleave on shared state (`WorkDay`
resolves schedules from the rows that `Workforce`'s calls change; `Overview`
reads the employees that `Employees`' calls change). The three browser modules
share the tabs and the requests' shape but never a page, so one behaviour plays
one scene of one of them (`BrowserSpec`). What is detailed in one module is one
step in another: a punch is many steps of `AttendanceLedger`, one of `WorkDay`,
and in `Panels` one step of the server that answers a request.

## 3. The models

Common conventions. Variables hold committed rows: READ COMMITTED shows a
statement everything committed before it starts, so a statement's reads are reads
of the variables in the step it happens in, and a transaction's writes reach them
in its commit step. A call is a record with a control point (`pc`) and the local
variables its handler keeps across statements; those are what may be stale. A
call may die wherever it waits. Requests that are refused before they read
anything (permission, format, unknown id) change nothing and are left out. Fields
commented as history (`outdated`, `disturbed`, `noticed`, ...) are read by
properties only.

### AttendanceLedger

| Variable | Code |
|---|---|
| `now` | the server clock, `new Date()` |
| `session` | `attendance_open_sessions` with its events folded in: number of break events, the latest event time, whether that event is a BREAK_START, whether a CHECK_OUT event exists |
| `period` | `attendance_periods.status`; rows are taken to exist (`ensure` creates them in the same transaction) |
| `record` | `attendance_daily_records`; a record is represented by its inputs, the day's sessions and its approved corrections, so two records are equal exactly if they were computed from the same data |
| `correction` | `attendance_corrections` |
| `keyed` | the type of the event stored under an employee's idempotency key |
| `req` | calls in flight |
| `locks` | the locks held by each call's transaction |

| Stage (`pc`) | Action | Code |
|---|---|---|
| - | `Arrive...` | input validation, `occurredAt = new Date()`, replay lookup before the transaction (`service.ts:253-259`) |
| `resolve` | `Resolve` | `resolveCheckInContext`: the work date, from the most recent session's expected end |
| `peek` | `PeekCheckIn`, `PeekOpen`, `PeekNothing` | the unlocked look for an open session (`service.ts:265`, `406`) |
| `correction` | `LockCorrection` | `findByIdLocked` and the PENDING check |
| `period` | `LockPeriodShare`, `LockPeriodExclusive` | `findForShare` in `assertAttendancePeriodOpen`, `findForUpdate` in close/reopen |
| `day` | `LockDay` | the advisory locks, smaller work date first |
| `row` | `ReplayUnderLock`, `LockOpenSession` | the second replay lookup, `SELECT ... FOR UPDATE` on the open session |
| `rowWait` | `RowReleased` | the wait for that row, and PostgreSQL's re-evaluation of the WHERE clause on it |
| `body` | `Body`, `RefuseBody`, `RecalculationFailed` | re-validation under the locks, everything read for the calculation, its result; or an error |
| `commit` | `Commit...`, `DuplicateRefused` | the writes become visible and the locks go; or a unique index refuses them |
| any | `Abort` | client gone, statement error or timeout, process killed: rollback |

Body and commit are separate steps: between them other transactions run and see
none of the call's writes. It is there that a missing lock shows.

Abstractions. The expected end of a session is a function of its work date
(`ExpectedEnd`); in the code it is captured at check-in, which is `WorkDay`'s
subject. Corrections supply a missing punch; those of existing punches are in
`WorkDay`. A correction's value is kept for CHECK_OUT only, where it decides which
session is meant. Two break events of one tick of the clock are taken in commit
order. An insert that would wait on a unique index is decided at the commit: the
code gets the same two outcomes. Advisory lock names never collide; `hashtext`
collisions would add waiting that `NoDeadlock` does not consider.

### DailyCalculation, Workforce and WorkDay

`Workforce` has the calls that change what applies on a date: assigning a
schedule with the automatic closing of the open one, shortening, archiving and
restoring templates, replacing the company's default weekly off, overrides of one
employee, holidays. Each call is split where the code reads outside the
transaction that writes (`workforce/service.ts:260-349`); a date's answer
(`DayInfos`) is `resolveWorkforceDayInfo`, and where two rows apply and the query
has no order, either may be the answer. `Always` and `Forever` stand for null
range ends.

`DailyCalculation` is `calculation.ts`: `NormalizeExpectationPeriods`, the
corrections applied to sessions, worked, break, late, early and overtime minutes,
and the status. Times are small numbers; minutes are their differences.

`WorkDay` puts one employee's day on top: punches capture schedule, shift and
grace of their moment, corrections (of existing and of missing punches, with
`assertCorrectionTimestampOrdering` and the targets that are resolved anew at
approval and in each calculation) are requested, approved, rejected, and the
properties look at the result of the calculation in every state. A step whose
recalculation throws is rolled back (`Resolves'`).

### DueDates and ScheduledProcessing

`DueDates` is `due-dates.ts`: a date is due when it, and every schedule window
that starts on it, has ended in every zone of the company, plus a lag; `Scanned`
is the bounded scan, `ComputeDueWorkDates` the latest `Lookback` due dates.
`ScheduledProcessing` is one company's job: `SelectDates`, `CheckPeriod`,
`TryLock` (`pg_try_advisory_xact_lock`), `ReadMissing`, `AbandonStaleRunning`,
`InsertRunning`, `Materialize` for one employee after another, `Finish`,
`Release`; with `FailStatement`, `FailMaterialize`, `FailFinish` and `Crash` as the
faults, and periods and records that change meanwhile. The RUNNING row of a
crashed run stays, its lock does not.

### Roles and Access

`Roles` is the permission table and the rank rules of `rbac.ts` and
`user-management.service.ts`. `Access` has logins (`CheckLimit`, `Verify`,
`RecordFailure`, `InsertSession`, `Reread`, `Discard`, `Clear`), requests with the
renewal of their session, logout, password change, and the four operations on an
account, whose transactions hold row locks from their first statement to their
commit and delete the sessions their DELETE saw. Passwords are known only by
whether they are current; counters and sessions have ages.

### Employees and Overview

`Employees` has assignment of managers and units, creation with the number from
the company's counter, status changes, archival, onboarding (three writes without
a transaction), moving departments, archiving and restoring units. Each update
reads and walks first and opens its transaction then; `BeginUpdate` is the moment
its history row is dated with. `EndOfDay` remembers who was active when the work
date ended, to compare with what `StatusAsOfDayEnd` reconstructs from the history.

`Overview` has the pages: a viewer opens one, its queries (`ReadPage`, `ReadTotal`,
`ReadCounts`, `ReadLists`, `ReadCells`) run in any order with anything in between,
and the next page follows. Ties in an ORDER BY are broken anew in each query
(`Before` says what is fixed). A view is narrowed (`narrow`) to a status of the
day, or to a department, designation or branch: rows enter and leave such a listing
when a record is recalculated or somebody is moved, without any insertion. Filters by
what does not change (one employee, a search) choose among the people and are the
model's choice of `People`. The exception queue is narrowed by type as well (`types`).
Exports count, then fetch; dismissals look, then write. Records appear and change as
they please.

### Forms, Panels and Listings

`Forms`: `tab[t]` is a panel's React state (form, which row is edited, errors, what
is being submitted), `call` its requests. `Open...`, `Type...`, `Save...`,
`Set...Active` are the user; `Create...`, `Update...`, `Serve...Active` are routes
with their validation, service and table; `Answer` and `Lose` settle the fetch, and
a request whose answer was lost may be served later; `Refresh` is
`router.refresh()` coming back. A row maps columns to numbers, a payload maps the
keys that are sent; what the conversions drop or keep is what
`EditChangesOnlyWhatWasTyped` is about.

`Panels`: for each of fourteen panels, the dialogs its buttons open (`...Dialogs`),
the commands that its enabled buttons send (`...Offers`, from what was rendered)
and what serving one does (`...Served`, from the rows as they are). `db` has the rows,
or the part of them that the panel shows or changes or its commands depend on: for the
punches of a day also the approved missing punches, each of which must keep its one
target or the recalculation throws (`Resolves`), the reasons for which the employee may
not punch, and which months are closed; for a review, who filed the correction, whose
attendance it is, the ranks, and whether its day can be recalculated. The buttons ask
for a part of that only. `OthersMeanwhile` is everybody else (`Acts`): approvals of
missing punches, closings and reopenings of months, other employees' punches, a changed
role of a requester, recalculations, a storage that fails, the company's midnight.
`Press` is a handler up to its await, `AnswerCommand` and its relatives the rest of it;
`SettleLoad` and `SettlePreview` end the loads that fetch what a panel shows, with
their cancellation.

`Listings`: one tab with a page of eight kinds. An address maps parameters to
values; the page it yields has the shown filters, or a refusal, the filter bar,
and the addresses of its links (`DashboardPage`, `ReportPage`, `ExceptionsTab`,
...). The user turns pages, picks dates, changes tabs and statuses, types, applies,
resets, exports; `Midnight` moves today; a row comes and goes. Soft navigation
keeps what was typed, a GET form does not. `asked` is what the control used last
promises.

## 4. Runs

| Run | Question | Bounds |
|---|---|---|
| `ledger_periods` | can anything slip into a month behind its closing, across a month boundary and a night shift? | 1 employee, 2 calls in flight, 2 sessions, 3 ticks, 2 dates in 2 months |
| `ledger_corrections` | do requests, reviews and punches of one day keep records and corrections consistent, and implement the book? | 1 employee, 2 calls, 2 sessions, 2 corrections, 2 ticks, 2 dates in 1 month |
| `ledger_checkins` | three overlapping check-ins and the close: one open session, no deadlock? | 1 employee, 3 calls, 4 sessions, 2 ticks, 2 dates |
| `ledger_retries` | does a key take effect once, and is every call answered? | 1 employee, 2 calls, 1 key, fairness, no symmetry |
| `ledger_break_end` | (violated) can an open break always be ended? | sequential: 1 call at a time |
| `access` | can a session survive what should have ended it? | 3 users, 2 companies, 2 calls, 2 tokens, limit 1, life 2 ticks |
| `employees` | do overlapping changes keep numbers, history, hierarchy and checklists; do the pages show what is there? | 3 employees and 2 forms, all reporting structures, 2 calls, 1 viewer, 2 dismissers, 2 written records, pages of 2 rows, exports of 1 row, narrowed to nothing, to a status or to a department |
| `employees_archive_race` | (violated) can a report be assigned to a manager who is being archived? | 1 archival and 1 assignment |
| `workday` | do overlapping planning calls spare the rows; are the day's numbers right in every state? | 1 employee, 1 schedule, 1 shift, 3 dates, 2 calls, 2 sessions, 1 correction, times 0..4 |
| `workday_negative` | (violated) is worked time never negative? | 1 session with a break, 1 correction, one call at a time |
| `processing` | is everything due processed once it is due, in time and by one run, after crashes too? | 2 employees, 2 invocations with time for 2 employees each, 4 dates, 2 zones, 2 interferences |
| `browser` | do forms, panels and listings do what they show? | each by itself: 2 to 4 requests, 1 or 2 tabs, 3 row ids; each panel with the acts of others one kind at a time and with all states that refuse; listings: 2 rows, 4 days, 1 midnight, pages of 1 row |

Why these bounds are enough to be interesting.

* Ledger: all tables but `period` are keyed by employee, calls of different
  employees share only the period row, and sharing it for two calls of one employee
  exercises the same lock. Two calls give every pairwise race; deadlock among more
  is what `ledger_checkins` adds, with two calls that lock the same two days. Two
  dates in two months are the smallest calendar in which a check-in abandons a
  session of another month. Closings meet punches and calculations in
  `ledger_periods`, not the corrections of `ledger_corrections`; there the theorems
  `ClosedMonthIsFrozen` and `LedgerImplementsBook` stand. Ids and ticks that run out
  only stop arrivals: calls in flight always have a fresh id.
* Access: every guard concerns one account and one counter; a second company
  shows what must not be touched there. Two calls give each pair of a login, a
  request and an administrator's operation; two tokens a session beside the one
  that is revoked.
* Employees: three employees are the smallest chain whose walk has more than one
  step, and all structures, loops included, are starting states. `agenda` says which
  operations a behaviour uses, so that pairs are explored without every third one.
  Two people share a name, and pages of two rows split three. An export may have one
  row, so that a second row which comes into it between count and fetch is cut off.
* WorkDay: three dates have a yesterday, a today and a tomorrow for ranges to end
  and begin at; times 0..4 have two windows that differ at both ends, so that an
  expectation can start or end in the middle of another.
* Processing: a day has four units; a zone half a day behind UTC, a window that
  ends on the next date and a lag of a day make dates due as late as they can be,
  which is the case the bounded scan is tight for. Two invocations that begin anew
  for ever overlap in every way; one employee always fails, so that catching up must
  get past one.
* Browser: what goes wrong needs a view, a request whose answer is late and a
  second action; three or four requests allow a third actor. A day's punches start
  without a session, with each reason to be refused in turn, and meet approvals and
  closings in screens of their own; both together multiply the states and refuse for no
  other reason. Two rows on pages of one are the smallest listing with two pages.

Symmetry is used where only invariants and step properties are checked, over calls
and ids that the specification never orders. Deadlock is checked in the ledger and
processing runs, where a call can always end or the job begin anew; the other
instances stop when ids, requests or time are used up (`CHECK_DEADLOCK FALSE`).
Waiting in a circle is `NoDeadlock`, stated on the locks themselves.

### Properties

| Property | What could break it |
|---|---|
| `ClosedPeriodHasNoOpenSession`, `ClosedPeriodFrozen` | a writer that passed the period check before the close |
| `RecordFresh` | a day not recalculated, or calculated from what is no longer there |
| `OneOpenSession`, `KeyTakesEffectOnce`, `OneLiveCorrection`, `ReviewedOnce`, `SessionHistory` | duplicates and retries |
| `NoDeadlock`, `Completes` | locks taken in different orders, or kept |
| `ImplementsBook` | any step that is not an operation as of its commit (section 5) |
| `OnlyAnUncommittedResetIsMissed` | a login that verified the old password and inserts its session after a reset; it names the one order that the re-read cannot see |
| `DeletedStaysDeleted` | a renewal that writes back a revoked session |
| `FailuresBounded` | attempts that all pass the check before one is counted |
| `NumbersUniqueAndGapless` | two creations, one refused or dead |
| `StatusAsOfDayEndIsRight` | overlapping changes whose history rows carry what was read earlier |
| `NoCycleFromAFreshWalk`, `FreshChecksKeepManagersActive` | a walk or check that misses a case; both except what another call overtook, which the code does not prevent |
| `TaskUpdateSettles` | status and checklist apart, after calls that died half way |
| `PagesAreRight` | rows repeated or lost at a page's edge, figures counted over other rows, somebody outside a manager's line |
| `HiddenOnlyIfSeen` | a dismissal that hides another exception of the day |
| `ExportMissesOnlyForWhatCame` | a file that is cut off although its rows were counted, for any filter: it may miss as many rows as have come into the filtered ones since the count, and no more |
| `MinutesCountedOnceUnlessLate`, `HistoryKeepsItsNumbers` | expectations captured at different moments of a day |
| `OverlapsSpareTheRows` | two assignments, shortenings or replacements at a time |
| `NothingDueIsMissed`, `RunsDoNotDisturbEachOther`, `JobWritesOnlyWhereItMay`, `CompletedMeansReached`, `CaughtUp` | time zones, crashes, overlapping runs, the budget |
| `EditChangesOnlyWhatWasTyped`, `HistoryTellsEveryChange` | conversions between row, form and payload; a row read too early |
| `RefusedOnlyForTheUnasked` | a button that forgets a condition of its service, a view that is stale; the conditions that no button asks for are named one by one (`Unasked`), and section 7 says which of them look unintended |
| `LostAnswersDoubleNothing`, `BusyEnds` | a lost answer, then another press; except commands that are meant to count twice, and a row whose unique name or email an edit has changed in between |
| `LatestLoadIsShown`, `ClosedOnItsPreview` | answers out of order |
| `ListingsShowWhatIsAsked` | a link, field or default that forgets a filter, a count that disagrees with the rows |

### Fairness

* Ledger, `FairSpec`: weak fairness of each call's steps, strong fairness of its
  lock acquisitions. A Node process runs its continuations, and PostgreSQL grants
  queued locks in order, so a lock that becomes free again and again is not withheld
  for ever. Nothing makes clients send, time pass or calls fail. `Completes` is
  claimed for calls that share the period lock only: a close waits for the exclusive
  lock, and the model's shared acquisitions do not queue behind it as PostgreSQL's
  do, so the model says nothing about it.
* Processing, `FairSpec`: time passes, the platform invokes the job again and again,
  an invocation goes on unless it crashes. Crashes and faults are not fair and are
  bounded. `CaughtUp` needs the budget to exceed the number of employees whose day
  cannot be calculated: the oldest dates come first, and failing employees are tried
  again each time.
* Browser, `BrowserFairness`: a fetch settles, by an answer or by rejecting; effects'
  loads and `router.refresh()` return. The user and the server need do nothing.

## 5. Refinement

`AttendanceBook` is the ledger as its users think of it: no calls in flight, no
locks, no earlier reads; each operation happens at once on the rows as they are,
and a daily record is `"none"` or `"right"`, never `"wrong"`. `AttendanceLedger`
implements it (`ImplementsBook`, checked by `ledger_corrections`) under the mapping
`Book`: sessions lose the fields that only locking needs (`ShownSession`), and a
record is right when it equals what would be calculated now (`ShownRecord`). So
every commit, whatever was read before the locks, is one operation of the book on
the state of that moment, and every other step shows nothing. In a sense this
contains `RecordFresh` and half of `SessionHistory`; those are kept because they
say it without the book.

## 6. Proofs

The proof modules use the named assumptions of the modules they extend and nothing
else. TLC evaluates each of them on the instance of a run.

| Module | Assumptions | What they say of the code |
|---|---|---|
| `AttendanceLedger` | `BoundsAssumption`, `CalendarAssumption`, `OpsAssumption`, `NoneAssumption`, `RecordAssumption` | bounds are numbers, every date has a month and an expected end, `None` is no id and no daily record |
| `DueDates`, `ScheduledProcessing` | `DueDatesAssumption`, `ProcessingAssumption`, `DatesAssumption` | zones from half a day behind UTC to a day ahead, windows that end on the next date at the latest; the instance has every date that can be due while it runs |
| `Access` | `MembershipAssumption`, `NoneAssumption`, `TimeAssumption`, `CallsAssumption` | memberships are of users in companies, life and windows are numbers, finitely many calls are in flight |
| `Employees` | `PeopleAssumption` | finitely many people and units; the rows of the start refer to each other as foreign keys demand; what is created is a person |
| `Workforce`, `WorkDay` | `WorkforceAssumption`, `StartsAssumption`, `WorkDayAssumption` | windows start before they end; the rows of the start have ranges in order and obey the unique indexes of weekly-off rules (`schema/workforce.ts:141-146`); grace is a number |
| `Overview` | `OverviewAssumption` | ids tell people apart; daily records of the start are of employees who are there (their foreign key) |
| `Forms`, `Panels` | `ScenesAssumption`, `ScreensAssumption` | the rows of the start have their table's columns and what is typed has the field's type; the rows a panel starts with are of its kind, with finitely many documents; `None` is no row, call, load or command |
| `Listings` | `ListingsAssumption` | a range may span a week at least (`MaxRange`) and dates count from 1, so that a default range has its days; the issues page is opened by somebody whose role has one of its tabs; what is typed into a date or a checkbox is one |

The inductive invariants were model-checked on the runs' instances before they were
proved.

### Ledger

`LedgerInv`, used by the refinement, is the conjunction of what follows; each part is
inductive relative to the parts before it.

* **`TypeCorrect`: `Spec => []TypeOK`.** The inductive invariant is
  `TypeInv == TypeOK /\ Rows /\ Calls`. `TypeOK` alone is not inductive: a step
  applies `MonthOf` to a call's date or reads `session[q.seen]`, so one needs that
  a row that exists has an owner and a date (`Rows`), and that a call past a stage
  has the operation, employee, date and session that stage requires (`Calls`).
* **`NoOpenSessionInClosedPeriod`: `Spec => []ClosedPeriodHasNoOpenSession`.** The
  inductive invariant, relative to `TypeInv`, is `PeriodInv`:
  every call past the period stage holds the period lock of its date's month, in
  the mode its operation needs (`HoldsPeriod`), and a period check it passed still
  holds; the exclusive lock of a month excludes every other lock on it
  (`PeriodExclusion`); and the property. Closing has the month exclusively from its
  count of the open sessions to its commit, a check-in or any other writer shares it
  from its period check to its commit, so no session opens between count and close
  and the status a writer checked is the one at its commit.
* **`KeyOnce`: `Spec => KeyTakesEffectOnce`.** A call whose key is already stored
  cannot commit, because the unique index on event keys refuses it, and nothing but
  a commit stores anything (`OnlyCommitStores`). The two replay lookups are a
  convenience (a better answer, earlier), not what correctness rests on.
* **`AtMostOneOpenSession`: `Spec => []OneOpenSession`.** Inductive invariant
  `UniqueOpen`, relative to `Intents` (only check-ins insert sessions). What is open
  after a commit was open before and is not the session a check-in abandons, or is
  the one it inserts (`OpenOrInserted`); the index refuses the insert if any other
  is open.
* **`ReviewedAtMostOnce`: `Spec => ReviewedOnce`.** Inductive invariant `ReviewInv`: a
  review past its row lock holds that row, and the correction is still PENDING; rows
  are held by one call; a request that is about to commit has an id no other call has.
* **`NeverDeadlocked`: `Spec => []NoDeadlock`.** Inductive invariant `LockInv`: days
  and session rows are held by one call (`Exclusion`), and a call at a stage holds
  only locks that come before the one it wants (`Held`), in the order correction,
  period, days from the smaller to the larger, session row. So of a set of waiting
  calls the one with the highest `Rank` is held up by nobody in the set.
* **`SessionsKeepTheirHistory`: `Spec => SessionHistory`**, and
  **`ClosedMonthIsFrozen`: `Spec => ClosedPeriodFrozen`.** Inductive invariant
  `SessionInv`: unused rows are empty, no two calls are about to insert one session,
  and what a call has peeked at keeps its owner and date, what it has locked is still
  open, what it has validated still holds, and the records it is about to write are
  of the days it acts on. With the period lock of `PeriodInv` each commit stays in
  months that are open.
* **`RecordsStayFresh`: `Spec => []RecordFresh`**, and
  **`LiveCorrectionsAreUnique`: `Spec => []OneLiveCorrection`.** Inductive invariant
  `RecordInv`: a call at its commit carries, for every day whose sessions or
  corrections it changes and that has a record, exactly what the calculation gives
  for the rows as they will be (`Prepared`), and a request no live rival
  (`Unrivalled`). Both survive the commits of others because those would need the
  day's lock. Freshness itself is not inductive: what is about to be written was
  calculated a step earlier.
* **`LedgerImplementsBook`: `Spec => ImplementsBook`.** The simulation, with
  `BookInv` for what the book's guards ask at a commit: a call's time and date are
  those of its arrival or session, the session that a check-out or a correction
  resolves to is still the one the rows name, and a check-in that saw no open session
  knows that there is none. One lemma per commit shows an operation of the book, one
  for all other steps a stutter.

### Scheduled processing

* **`ScanSuffices`.** The scan of `computeDueWorkDates` starts
  `Lookback + 3` days back and returns the latest due dates of all dates there are,
  for zones from half a day behind UTC to a day ahead, windows that end on the next
  date and a lag of up to a day. A date four days old is always due
  (`FourDaysOldIsDue`), one in the future never (`DueByTomorrow`); so the scanned
  interval holds at least `Lookback` due dates, all later than any it leaves out.
  One day less would not do, which the run's instance shows.
* `TypeCorrect`, `NothingMissed`
  (`[]NothingDueIsMissed`, from `ScanSuffices`), `RunsKeepApart`
  (`RunsDoNotDisturbEachOther`), `WritesOnlyWhereItMay` (`JobWritesOnlyWhereItMay`) and
  `CompletedReached` (`CompletedMeansReached`) rest on
  `IInv == TypeOK /\ AllSound /\ Exclusive`: no two invocations hold one date's lock
  (`Exclusive`), and what an invocation believes at its control point is so (`Sound`):
  its dates were due when they were selected and stay due as time passes
  (`DueStays`), its run row is its own, whoever is neither recorded, failed nor skipped
  is still on its list. `InvocationsSound` proves it invariant, with one lemma per
  action.

### Access

* **`TypeCorrect`: `Spec => []TypeOK`**, from `TypeInv == TypeOK /\ Rows /\ Stages`: a
  row that was ever inserted names its user and company, and a call that goes on with
  a token's row was given one.
* **`GoneForGood`: `Spec => DeletedStaysDeleted`.** Whatever writes to a session row
  writes to a live one; a renewal's UPDATE finds nothing when the row has gone.
* **`NoStaleSessionButInTheGap`: `Spec => []OnlyAnUncommittedResetIsMissed`.** Inductive
  invariant `GuardInv`: a transaction that replaces a password has, at its commit,
  doomed every live session of the user but those inserted since its DELETE
  (`Dooms`), and a login past its re-read has found the password it verified to be the
  current one (`HandsOut`). The property alone says nothing about the login between
  its insert and its re-read, which is where the race is.
* **`LimitsHoldUpToTheCallsInFlight`: `Spec => []FailuresBounded`.** Inductive invariant
  `CountInv`: what a counter has plus what the attempts past its check may still add
  stays below the limit plus the number of calls.

### Employees

`EmployeesTyped` proves `TypeInv == TypeOK /\ Stages`; each of the following is
inductive relative to it.

* **`NumbersAreUniqueAndGapless`: `Spec => []NumbersUniqueAndGapless`**, with
  `NumberInv`: one creation at a time has a number that is not yet anybody's.
* **`StatusOfTheDayIsFound`: `Spec => []StatusAsOfDayEndIsRight`.** `RowInv` (a history
  row that is not visible yet is the one row of a transaction in flight), `LateInv` (no
  row is late before the day's end, and afterwards whoever did not straddle it writes
  late rows) and `DayInv`: whatever has read another status than the one at the day's
  end has read it after a later change became visible, and is recorded after that
  change. So the first later row has the status to reconstruct, although rows become
  visible in another order than they were dated.
* **`ManagersStayActive`: `Spec => FreshChecksKeepManagersActive`** and
  **`TaskUpdatesSettle`: `Spec => TaskUpdateSettles`**, from `CheckInv`: what the checks
  of a call have found still holds, unless somebody else has written since.
* **`FreshWalksCloseNoCycle`: `Spec => NoCycleFromAFreshWalk`**, from `WalkInv`: the part
  of the line above that a call has walked holds its new superior, not its subject,
  and once the walk is over leads nowhere else. Whoever is on a cycle is still above
  somebody after as many levels as there are people and units (`Cyclic`), a recursive
  function whose values the proof unrolls; that what has walked off a closed chain
  never comes back to the subject is by the smallest counterexample
  (`LeastNumber`).

### Overview

`OverviewTyped` proves `[]OverviewTypeOK` and `OverviewImplementsEmployees`
`OverviewSpec => Spec`, so that everything proved of `Employees` holds while its rows
are read. The step invariants are relative to `ViewInv`.

* **`NothingIsHiddenUnseen`: `OverviewSpec => []HiddenOnlyIfSeen`.** `NoticeInv`: a
  dismissal is of what was seen, and so is what is about to be dismissed.
* **`ExportsMissOnlyWhatCame`: `OverviewSpec => ExportMissesOnlyForWhatCame`.** `ExportInv`:
  an export that goes on to fetch has counted no more rows than it may have. So if the
  first page leaves rows out, it is full, and of the rows that match then as many are
  new as it leaves out, at least (`MissedAreNew`): whatever made them match, and whatever
  has gone meanwhile.
* **`PagesShowWhatThereIs`: `OverviewSpec => []PagesAreRight`.** `LineInv` for whom a
  manager is shown. `PagesInv` for a view under which nothing has changed: the figures
  that have been read are those of the rows (`FiguresRight`), and the rows shown so
  far are the first ones of the order, as many as the pages hold (`RowsRight`); a page
  of a total order continues them (`NextPage`), because two sets of equally many
  first rows are the same (`SameSegment`). The order is total in the report, the calendar
  and the queue (`RowsSorted`), and elsewhere where `Ordered` says so of the rows. That the
  figures add up is `SumOfParts`: if each thing has one of finitely many labels, the
  numbers of what has each label add up to the number of all, whatever `FoldFunction`
  adds first. It is claimed of the exception queue only while no types are selected.

### Workforce and work day

`RowsInv` is inductive for the rows, `DayRows` for the day relative to it; together
they give `DayTypeCorrect` (`[]TypeOK`).

* **`OverlapsSpareRows`: `Spec => OverlapsSpareTheRows`.** `RowsInv` has the order of
  each range (`Ordered`), what the unique indexes say of the rules (`UniqueRules`), what
  a call names (`Stage`), and what its checks have found (`Known`): the open assignment
  is still open, the overlapping rows are those it will close, the range it shortens
  is not shorter yet. `Known` is claimed of calls that nobody has overtaken; every write
  marks whom it overtakes (`WriteMarks`), which is the only way it can cease to hold.
* **`HistoryKept`: `Spec => HistoryKeepsItsNumbers`.** Without approved corrections the
  day is calculated from its sessions as they are (`NothingApplied`). They have
  different numbers, so they can be sorted (`SortedExists`) and a day with sessions
  has a first one; then `ScheduledMinutes` is that of the captured periods, and only
  the status depends on what workforce says now.
* **`MinutesCountedOnce`: `Spec => []MinutesCountedOnceUnlessLate`.** A correction leaves
  a session its number and its expectation, whatever it moves (`CorrectedIsLike`), and
  a session that a correction makes up has number 0; so the corrected sessions can be
  sorted too (`AppliedSorts`), and their distinct expectations are in the order of
  their check-ins (`DistinctOrdered`). A period ends where the next expectation was
  captured at the latest, which is before any later one starts (`CountedOnce`). The folds
  over sequences exist (`FoldExists`) and are reasoned about prefix by prefix (`Climb`).

### Panels

A step of the browser is one of the panels, of the forms or of the listings, and
leaves the variables of the other two alone. So each part has an invariant of its own,
which holds whatever is done in the browser: `PanelsAreRight`, `FormsAreRight` and
`ListingsAreRight` are stated of `BrowserSpec`. `PanelInv` is that of the panels: the
rows are of the panel's kind, whatever others do to them (`OthersKeep`), an open dialog is
one that its buttons open (`ViewOk`), and a request carries a command that the rows it was
pressed on would have accepted, if they meet what the buttons do not ask for
(`RequestOk`).

* **`LatestLoadWins`: `BrowserSpec => []LatestLoadIsShown`.** Loads are numbered. A load
  that is out and has the last number is for the chosen range, and what is shown is for
  the chosen range too, unless a load is out or failed (`LoadsFit`). Only the answer with
  the last number counts, however many are out and in whatever order they come.
* **`ClosesOnItsPreview`: `BrowserSpec => ClosedOnItsPreview`.** Openings of the dialog are
  numbered as well; one that is for closing and waits for nothing has the preview of
  its own opening, unless that is marked unsure: the preview failed, or one of an earlier
  opening came in its place (`PreviewFits`).
* **`RefusalsAreExplained`: `BrowserSpec => RefusedOnlyForTheUnasked`.** For each panel, what
  it offers on a view is what its service accepts on the same rows, but for the
  conditions of `Unasked` (`OffersAre`); `RequestOk` carries that from the button, through
  the dialog, to the moment the request is served.
* **`SecondPressChangesNothing`: `BrowserSpec => PressedTwiceCountsOnce`.** What changed the
  rows last would not change them if it were served again (`EffectOk`): each command
  that does not count twice is shown to be refused the second time, or to find its work
  done.

### Forms

`FormsInv == Stored /\ TabsOk /\ CallsOk /\ KeysOk`. A field of an open form that was not
typed into is that of the row it was opened for (`FormFits`), and a payload has, for
every column, what was typed or what was shown (`PayloadFits`), whatever the tab has done
since.

* **`EditsChangeOnlyWhatWasTyped`: `BrowserSpec => EditChangesOnlyWhatWasTyped`.** The way
  from row to form to payload and back is the identity on what was not typed, blanks
  and defaults included, for each of the four forms.
* **`HistoryIsComplete`: `BrowserSpec => HistoryTellsEveryChange`.** What is logged is
  computed from the row that was found; if that is still the row when it is updated,
  the tracked columns in the log are those that the update changes.
* **`LostAnswers`: `BrowserSpec => LostAnswersDoubleNothing`.** `OneRowPerPayload` is not
  inductive. `KeysOk` adds that the key of every row that was created is still some
  row's, unless an edit freed it (`KeptOrFreed`), so that a second request with that
  payload meets the unique index. The other half is `SecondPressChangesNothing`.

### Listings

* **`ListingsAreRight`: `BrowserSpec => []ListingsShowWhatIsAsked`**, from `ListingInv`:
  once a page has been loaded, its filters are what its address stands for (`UrlShows`),
  except for dates, which may be those of the day it was rendered; its links and its
  filter bar are the ones that go with these filters (`Offering`); and the filters are
  those asked for (`SheetOk`). `PageShows` proves of each kind of listing that a page
  rendered for an address is like that. An address stands for one set of filters on one
  day (`OneMeaning`), so a control keeps the invariant if its address stands for the
  filters it promises (`GoKeeps`), which is shown control by control, one lemma per
  action. `Midnight` is why the dates need their exception, and rows that come and go are
  why the text under them is compared with what was listed when the page was rendered.

### What stays with TLC

`Completes`, `CaughtUp` and `BusyEnds`, because they are liveness under fairness, and with
them `ENABLED`, which the provers cannot reason about. So do the three violations,
which are counterexamples that a run shows. All other properties of the passing
runs are proved.

The library's induction theorems take operators as parameters, which the provers
cannot instantiate; where a recursive function is reasoned about (`Cyclic`, `SumOf`,
the folds of a day), its definition is unrolled once and the induction is the absence
of a smallest counterexample.

## 7. Findings

Checked by a run that finds the violation:

* `ledger_break_end`. Start a break, forget it, request a correction for the missing
  break end, have it approved, then end the break: refused. The approved correction
  has no event to point at and is resolved again in each calculation of the day, as
  "the session with an open break" (`service.ts:668-690`, `768-773`); ending the break
  takes that target away and the calculation throws. The check-out is refused too,
  for the break is still open, until a later check-in abandons the session.
* `workday_negative`. A corrected check-in or check-out is compared with the other end
  of its session, never with its breaks; once approved, the worked time can be
  negative, which the comment at `service.ts:1068-1073` says is prevented.
* `employees_archive_race`. The count of direct reports inside the archival's
  transaction does not close the window that `domains/employee/service.ts:449-451`
  says it closes.

Read off the models, or met while writing them; no run is about these, and the
properties above are stated so as to hold in spite of them.

* Punches are stamped before they wait for locks (`service.ts:259`, `404`) and
  nothing compares the stamps, so a check-out may precede its session's last break
  event.
* `calculation.ts:49-51` says that expectation periods "cannot overlap". They are cut
  at the next period's first capture; when somebody is late for an expectation that
  changed during the day, scheduled minutes are counted twice.
  `MinutesCountedOnceUnlessLate` has the exact proviso.
* `processCompanyWorkDate` returns UP_TO_DATE when nobody is missing, before
  `abandonStaleRunning`; closed and old dates return earlier still. A run that died
  after its last employee stays RUNNING for ever, where `src/README.md:111` and
  `db/schema/attendance.ts:362-363` say it is abandoned.
* `due-dates.ts` calls the oldest due date "never older than (today - 3)"; at the
  extreme of zones, windows and lag it is four days old. The scan is long enough.
* A login whose session is inserted between the DELETE and the COMMIT of an
  administrator's reset keeps it; the comment at `domains/auth/service.ts:53-57`
  claims the guard for every order.
* Two overlapping moves of employees, or departments, can close a cycle. Two
  overlapping edits of one employee can change a tracked field without a history
  event. Un-completing a task does not clear `completed_at`.
* `assertReferencedEntitiesBelongToCompany` and schedule assignments do not look at
  `isActive`; archiving a shift counts open-ended assignments only. The company's
  default weekly off ignores its range. Daily records are not recalculated when
  schedules or holidays change, and a day whose only check-in is an approved
  correction is measured anew each time.
* `updateWorkScheduleSchema` compares only the ends that are sent
  (`validations/workforce.ts:22-23`, `53`), and the form omits a blank one: a new start
  can pass the stored end. Blank optional fields of shifts, schedules and holidays
  can never be cleared, and the forms would drop seconds that the API accepted.
* `listAttendanceExceptions` passes the selected types on to the summary, which shows
  0 for the others, against the comments at
  `exceptions/attendance-exception.service.ts:36-38` and
  `attendance-exception.repository.ts:171-173`.
* The report's export is cut off silently, "a clear, explicit rejection beats a silent
  truncation" (`reports/attendance-report.service.ts:23-25`, `137-138`) notwithstanding,
  when rows come into the filtered ones between the count and the fetch: by an
  insertion, a recalculation that changes a status, a move to another department. What
  is missing is never more than what came (`ExportMissesOnlyForWhatCame`).
* The dashboard's late and incomplete lists are not restricted to active employees,
  its counts are. Dashboard and directory are ordered by name without a unique last
  key, although a comment in the calendar's repository says the directory's order has
  one: rows may repeat or be lost at a page's edge (`PagesAreRight` claims nothing
  there).
* The services clamp a page number from below only. When the rows of the last page
  go (the last exception is dismissed), the table is empty while `pagination.tsx:23-25`
  says "Page 1 of 1" with both links disabled.
* Filter bars: after a refused range the exceptions bar shows all types, and Apply
  then asks for them; unticking all types asks for all; native minimum and maximum
  keep a range from moving to a disjoint one in one Apply; clearing From with an old
  To yields an inverted default range, which is refused; a tab's link to itself
  changes the filters while the select keeps its old option.
* Buttons that ask for less than their service (`Unasked`). `canReview` "the same
  self-approval + approval-hierarchy policy `reviewCorrection` enforces"
  (`service.ts:1245-1247`), lacks the check that the correction is not of the reviewer's
  own attendance (`1259-1268` against `1325-1329`), so the queue offers what is refused;
  it also offers to approve what cannot be recalculated (`1349-1357`). An approved missing
  check-in or break-end makes the next punch that takes away its one target fail. The
  attendance page passes `canControl` whatever the role (`attendance/page.tsx:41`), though
  a MANAGER has neither `attendance.check_in` nor `check_out` (`rbac.ts:220-238`), and
  whatever the employee's status (`service.ts:244-249`); it looks at the month of today in
  UTC (`27`, `32`), the service at the month of the work date. Process Day is offered for
  today in UTC, which may be the company's tomorrow (`dashboard/page.tsx:61-62`,
  `processing/attendance-processing.service.ts:124`). The password of an account with other
  companies can be asked to be reset (`user-management.service.ts:96-125`). A default weekly
  off whose end is before its start, and a file of a kind that is not allowed, are sent.
* Two calls at a time that assign bounded, overlapping ranges to one employee both insert,
  though neither may overlap; a start of onboarding that dies after its first write
  leaves a checklist without tasks, and two overlapping task updates a status that is not
  that of the tasks; a form sends every column, so saving it puts back those that
  somebody else has changed since it was opened.
* Panels: a password reset whose answer was lost may be served after its retry, so
  that the shown password is already dead; a late preview of the close dialog's
  earlier opening, or a failed one, leaves Confirm enabled; a failed upload leaves a
  document row without a file; "Remove" ignores its result; the onboarding checklist
  and the employee form stay disabled after a lost answer; a late answer of an
  abandoned form closes, or puts its error into, the one opened meanwhile; of two rows
  being archived the first to finish re-enables the other's button.
* `service.ts:171-173` claims that no second pooled connection is taken inside a
  transaction, but `buildCorrectionOverride` resolves the workforce through the global
  pool; `changeEmployeeStatus`, the failure path of `createEmployee`,
  `setCompanyDefaultWeeklyOff` and the processing lock do the like.

Behaviour that looks wrong but is right under the model: the duplicate check of
correction requests is a plain SELECT, yet two requests for one day exclude each
other by the day lock taken before it (`OneLiveCorrection`); sessions are protected
twice, by the day lock and by the row lock; two creations cannot get one number,
because the counter's row stays locked to the commit (`NumbersUniqueAndGapless`);
the scheduled run that is overtaken by a manual one neither fails nor disturbs it.

## 8. Not modelled

* **Connection pool.** A connection that does not come in time is a statement that
  fails, which the models have as `Abort`, `Crash` and `FailStatement`. How many nested
  borrowings exhaust ten connections is a question of the pool's size alone.
* **Audit log**, **logging**, **storage**: append-only or bytes, written after the
  commit and read by nothing the models contain.
* **Investigation page**, the list of who works now, sums of minutes, the CSV's text,
  the organization chart, navigation, tables: they render what is read elsewhere.
* **Sort order and page size** of listings are set by hand-written addresses only, and
  Apply drops them; month parameters that are no month are replaced by the current
  one; the browser's Back is left out, as is the redirect of employees from pages
  their role does not have.
* **Creation** of users, memberships, departments, branches, designations and company
  settings, and changing a role or linking an employee to a user: single row writes
  behind a permission and a unique index.
* **Corrections' reviewers** in the ledger: refusals by who asks (self-approval, rank)
  change nothing there; `Roles` has the ranks, `Panels` the refusals.
* **Requests that panels send and no row decides**: an expired sign-in, the rate limit,
  and a note longer than its bound are refused for any command and left out.
* **Time-zone conversion** is the Intl library's; `DueDates` takes offsets as data.
* **Several companies**: rows of different companies never meet, except in the time
  budget of the job's loop over companies.
* **Rate limits lifting** (a block ends by itself) is a liveness statement about a clock
  that only counts up; the counters' ages are in `Access`, the statement is not.
* **Start-up scripts** (migration, seeds) run before the system does; the repair
  script's transaction is one of `AttendanceLedger`'s operations.

## 9. Plan

Every safety property of the passing runs is proved; section 8 lists what no module
covers. When the code changes, the order of work is: bring the definitions that
`PROJECT.json` maps to the changed lines up to date, run TLC on the component's
configuration, then `tlapm` on its proof module, where the lemma of the action that
changed fails first. No module that carries theorems uses RECURSIVE operators.
