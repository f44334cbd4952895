-------------------------- MODULE AttendanceLedger --------------------------
(***************************************************************************)
(* The writers of one company's attendance data, at the granularity of     *)
(* their database steps: punches (check-in, check-out, breaks), daily      *)
(* record calculation (HR recalculation, the scheduled job, the repair     *)
(* script), corrections and their review, closing and reopening a month.   *)
(*                                                                         *)
(* PostgreSQL runs every transaction at READ COMMITTED: the variables hold *)
(* COMMITTED rows, a transaction reads them whenever one of its statements *)
(* runs, and its own writes appear in them in one step, its commit, which  *)
(* also drops its locks.  A service call is a slot r of `req`:             *)
(*                                                                         *)
(*   idle -> resolve -> peek -> correction -> period -> day -> row         *)
(*        -> (rowWait) -> body -> commit -> idle                           *)
(*                                                                         *)
(* each call skipping the stages its handler has not.  Everything up to    *)
(* `peek` is read outside the transaction and may be stale when used.      *)
(***************************************************************************)
EXTENDS Naturals, FiniteSets

CONSTANTS
    Employees,          \* the company's employees
    Requests,           \* slots for calls in flight at the same time
    SessionIds,         \* ids of the attendance sessions ever created
    CorrectionIds,      \* ids of the corrections ever requested
    Keys,               \* idempotency keys that clients send
    Ops,                \* the operations this instance exercises
    Fields,             \* the missing punches that corrections supply
    LastTime,           \* bound: the clock stops here
    LastDate,           \* bound: the last work date
    MaxBreakEvents,     \* bound: break events per session
    DateOf,             \* the local calendar date of an instant
    MonthOf,            \* the period a work date belongs to
    ExpectedEnd,        \* the expected end of a work date's shift, 0 if none
    None                \* SQL NULL / no row

Times == 1..LastTime
Dates == 1..LastDate
Months == {MonthOf[d] : d \in Dates}

Punches   == {"CHECK_IN", "CHECK_OUT", "BREAK_START", "BREAK_END"}
DayOps    == {"RECALCULATE", "MATERIALIZE", "REPAIR"}
PeriodOps == {"CLOSE", "REOPEN"}
Reviews   == {"APPROVE", "REJECT"}
AllOps    == Punches \cup DayOps \cup PeriodOps \cup Reviews \cup {"REQUEST"}
AllFields == {"CHECK_IN", "CHECK_OUT", "BREAK_END"}

ASSUME BoundsAssumption ==
    LastTime \in Nat \ {0} /\ LastDate \in Nat \ {0} /\ MaxBreakEvents \in Nat
ASSUME CalendarAssumption ==
    /\ DateOf \in [Times -> Dates]
    /\ MonthOf \in [Dates -> Nat]
    /\ ExpectedEnd \in [Dates -> Nat]
ASSUME OpsAssumption == Ops \subseteq AllOps /\ Fields \subseteq AllFields
ASSUME NoneAssumption ==
    None \notin Employees \cup SessionIds \cup CorrectionIds \cup Keys

VARIABLES
    now,            \* the server's clock
    session,        \* attendance_open_sessions, by id
    period,         \* attendance_periods.status, by month
    record,         \* attendance_daily_records, by employee and work date
    correction,     \* attendance_corrections, by id
    keyed,          \* the event type stored under an idempotency key
    req,            \* the calls in flight
    locks           \* the locks each call's transaction holds

vars == <<now, session, period, record, correction, keyed, req, locks>>
stored == <<session, period, record, correction, keyed>>
-----------------------------------------------------------------------------
(* Rows                                                                    *)

Session ==
    [status: {"NONE", "OPEN", "CLOSED", "ABANDONED"},
     emp: Employees \cup {None}, date: 0..LastDate,
     checkIn: 0..LastTime, checkOut: 0..LastTime,    \* 0: null
     breaks: Nat,               \* how many BREAK_START/BREAK_END events exist
     lastBreak: 0..LastTime,    \* the latest occurredAt among them
     onBreak: BOOLEAN,          \* the event with that occurredAt is a BREAK_START
     punchedOut: BOOLEAN]       \* a CHECK_OUT event exists

NoSession ==
    [status |-> "NONE", emp |-> None, date |-> 0, checkIn |-> 0, checkOut |-> 0,
     breaks |-> 0, lastBreak |-> 0, onBreak |-> FALSE, punchedOut |-> FALSE]

Correction ==
    [status: {"NONE", "PENDING", "APPROVED", "REJECTED"},
     emp: Employees \cup {None}, date: 0..LastDate,
     field: AllFields \cup {"NONE"}, value: 0..LastTime]

NoCorrection ==
    [status |-> "NONE", emp |-> None, date |-> 0, field |-> "NONE", value |-> 0]

\* A stored daily record is represented by what it was calculated from: two
\* records differ exactly when the calculation was given different inputs.
DayRecord ==
    [sessions: SUBSET (SessionIds \X Session), approved: SUBSET CorrectionIds]

ASSUME RecordAssumption == None \notin DayRecord

Call ==
    [pc: {"idle", "resolve", "peek", "correction", "period", "day", "row",
          "rowWait", "body", "commit"},
     op: AllOps \cup {"NONE"}, emp: Employees \cup {None}, key: Keys \cup {None},
     at: 0..LastTime,                    \* occurredAt
     date: 0..LastDate,                  \* the work date acted on
     prev: 0..LastDate,                  \* previousWorkDate, 0 if null
     peek: SessionIds \cup {None},       \* the unlocked peek's session
     seen: SessionIds \cup {None},       \* the open session locked or awaited
     new: SessionIds \cup {None},        \* the session being inserted
     corr: CorrectionIds \cup {None},
     field: AllFields \cup {"NONE"}, value: 0..LastTime,
     calc: [Dates -> DayRecord \cup {None}]]    \* records to be written

Idle ==
    [pc |-> "idle", op |-> "NONE", emp |-> None, key |-> None, at |-> 0,
     date |-> 0, prev |-> 0, peek |-> None, seen |-> None, new |-> None,
     corr |-> None, field |-> "NONE", value |-> 0, calc |-> [d \in Dates |-> None]]

PeriodShare(m)     == <<"share", m>>
PeriodExclusive(m) == <<"exclusive", m>>
DayLock(e, d)      == <<"day", e, d>>
SessionRow(s)      == <<"session", s>>
CorrectionRow(c)   == <<"correction", c>>

Lock ==
    {PeriodShare(m) : m \in Months} \cup {PeriodExclusive(m) : m \in Months}
    \cup {DayLock(e, d) : e \in Employees, d \in Dates}
    \cup {SessionRow(s) : s \in SessionIds}
    \cup {CorrectionRow(c) : c \in CorrectionIds}

Init ==
    /\ now = 1
    /\ session = [s \in SessionIds |-> NoSession]
    /\ period = [m \in Months |-> "OPEN"]
    /\ record = [e \in Employees |-> [d \in Dates |-> None]]
    /\ correction = [c \in CorrectionIds |-> NoCorrection]
    /\ keyed = [e \in Employees |-> [k \in Keys |-> "NONE"]]
    /\ req = [r \in Requests |-> Idle]
    /\ locks = [r \in Requests |-> {}]
-----------------------------------------------------------------------------
(* Queries                                                                 *)

SessionsOf(e) == {s \in SessionIds : session[s].status # "NONE" /\ session[s].emp = e}

OpenSessions(e) == {s \in SessionsOf(e) : session[s].status = "OPEN"}

\* A plausible bug: the filter on status OPEN is forgotten.
FindAnyForEmployee(e) == IF SessionsOf(e) = {} THEN {None} ELSE SessionsOf(e)

FindOpenForEmployee(e) == IF OpenSessions(e) = {} THEN {None} ELSE OpenSessions(e)

FindMostRecentForEmployee(e) ==
    IF SessionsOf(e) = {} THEN {None}
    ELSE {s \in SessionsOf(e) :
            \A t \in SessionsOf(e) : session[t].checkIn <= session[s].checkIn}

\* findOpenBreak reads the events in the order of occurredAt, the time stamped
\* when the call arrived, which need not be the order they were committed in.
\* (Events of the same tick of the model's clock: in the order of their commits.)
OpenBreak(x) == x.onBreak

BreakEvent(x, at, start) ==
    [x EXCEPT !.breaks = @ + 1,
              !.lastBreak = IF at < @ THEN @ ELSE at,
              !.onBreak = IF at < x.lastBreak THEN @ ELSE start]

\* The operators below take the tables as arguments: a transaction evaluates
\* them over its own uncommitted writes as well as over the stored rows.
DaySessions(ses, e, d) ==
    {s \in SessionIds : ses[s].status # "NONE" /\ ses[s].emp = e /\ ses[s].date = d}

Approved(cor, e, d) ==
    {c \in CorrectionIds :
        cor[c].status = "APPROVED" /\ cor[c].emp = e /\ cor[c].date = d}

DayInputs(ses, cor, e, d) ==
    [sessions |-> {<<s, ses[s]>> : s \in DaySessions(ses, e, d)},
     approved |-> Approved(cor, e, d)]

\* The sessions a correction with no event may supply its punch to.
MissingPunchSessions(ses, e, d, f) ==
    IF f = "CHECK_OUT"
    THEN {s \in DaySessions(ses, e, d) : ses[s].checkOut = 0}
    ELSE {s \in DaySessions(ses, e, d) : OpenBreak(ses[s])}

ResolveMissingPunchSession(ses, e, d, f) ==
    IF f = "CHECK_IN"
    THEN DaySessions(ses, e, d) = {}
    ELSE \E s \in SessionIds : MissingPunchSessions(ses, e, d, f) = {s}

SessionClosedByCorrection(ses, c) ==
    \E s \in DaySessions(ses, c.emp, c.date) :
        ses[s].status = "CLOSED" /\ ses[s].checkOut = c.value /\ ~ses[s].punchedOut

\* Whether buildCorrectionOverride finds the session an approved correction
\* applies to; if not it throws and the calculation with it.
OverrideResolves(ses, c) ==
    \/ c.field = "CHECK_IN"
    \/ c.field = "CHECK_OUT" /\ SessionClosedByCorrection(ses, c)
    \/ c.field # "CHECK_IN" /\ ResolveMissingPunchSession(ses, c.emp, c.date, c.field)

Computable(ses, cor, e, d) ==
    \A c \in Approved(cor, e, d) : OverrideResolves(ses, cor[c])
-----------------------------------------------------------------------------
(* Locks                                                                   *)

\* The days a call locks, the smallest first.
DaysOf(q) == IF q.prev = 0 THEN {q.date} ELSE {q.date, q.prev}

DaysToLock(r) == {d \in DaysOf(req[r]) : DayLock(req[r].emp, d) \notin locks[r]}

\* A plausible bug: the days are locked in the order they are named, unsorted.
WorkDateFirst(r) ==
    IF req[r].date \in DaysToLock(r) THEN req[r].date ELSE req[r].prev

NextDayToLock(r) == CHOOSE d \in DaysToLock(r) : \A x \in DaysToLock(r) : d <= x

\* The locks that keep a call waiting at its present stage while another call
\* holds one of them.
Wanted(r) ==
    LET q == req[r]
        m == MonthOf[q.date]
    IN CASE q.pc = "correction" -> {CorrectionRow(q.corr)}
         [] q.pc = "period" /\ q.op \in PeriodOps -> {PeriodShare(m), PeriodExclusive(m)}
         [] q.pc = "period" /\ q.op \notin PeriodOps -> {PeriodExclusive(m)}
         [] q.pc = "day" -> {DayLock(q.emp, NextDayToLock(r))}
         [] q.pc = "rowWait" -> {SessionRow(q.seen)}
         [] OTHER -> {}

HeldByOther(r, l) == \E p \in Requests \ {r} : l \in locks[p]

Blockers(r) == {p \in Requests \ {r} : Wanted(r) \cap locks[p] # {}}

Goto(r, q) == req' = [req EXCEPT ![r] = q]

Take(r, l) == locks' = [locks EXCEPT ![r] = @ \cup {l}]

\* A plausible bug: the lock that keeps a month to itself outlives the call, as a
\* session-level one would.
FinishKeepingMonth(r) ==
    /\ Goto(r, Idle)
    /\ locks' = [locks EXCEPT ![r] = {l \in @ : l[1] = "exclusive"}]

\* The end of a call: committed, refused or rolled back, every lock is dropped.
Finish(r) ==
    /\ Goto(r, Idle)
    /\ locks' = [locks EXCEPT ![r] = {}]
-----------------------------------------------------------------------------
(* Arrival of a call.  Calls that permission, tenant, eligibility or input *)
(* checks refuse change nothing and are left out.                          *)

Start(r, q) == req[r] = Idle /\ Goto(r, q)

InFlight(ops) == {r \in Requests : req[r].op \in ops}

RoomForSession ==
    Cardinality({s \in SessionIds : session[s].status = "NONE"})
        > Cardinality(InFlight({"CHECK_IN"}))

RoomForBreak(e) ==
    \A s \in OpenSessions(e) :
        session[s].breaks + Cardinality(InFlight({"BREAK_START", "BREAK_END"}))
            < MaxBreakEvents

RoomForCorrection ==
    Cardinality({c \in CorrectionIds : correction[c].status = "NONE"})
        > Cardinality(InFlight({"REQUEST"}))

\* The replay lookup before the transaction: a key that is known already is
\* answered (or refused) without doing anything.
NotReplayed(e, k) == k # None => keyed[e][k] = "NONE"

ArriveCheckIn(r, e, k) ==
    /\ "CHECK_IN" \in Ops /\ RoomForSession /\ NotReplayed(e, k)
    /\ Start(r, [Idle EXCEPT !.pc = "resolve", !.op = "CHECK_IN", !.emp = e,
                             !.key = k, !.at = now])
    /\ UNCHANGED <<now, stored, locks>>

ArrivePunch(r, op, e, k) ==
    /\ op \in Ops /\ NotReplayed(e, k)
    /\ op # "CHECK_OUT" => RoomForBreak(e)
    /\ Start(r, [Idle EXCEPT !.pc = "peek", !.op = op, !.emp = e,
                             !.key = k, !.at = now])
    /\ UNCHANGED <<now, stored, locks>>

\* HR recalculates any day up to today, the repair script any recorded day, the
\* scheduled job only days that are over.
ArriveDay(r, op, e, d) ==
    /\ op \in Ops
    /\ d <= DateOf[now] /\ (op = "MATERIALIZE" => d < DateOf[now])
    /\ Start(r, [Idle EXCEPT !.pc = "period", !.op = op, !.emp = e, !.date = d])
    /\ UNCHANGED <<now, stored, locks>>

\* A month is named by its first work date.
ArrivePeriod(r, op, d) ==
    /\ op \in Ops
    /\ \A x \in Dates : MonthOf[x] = MonthOf[d] => d <= x
    /\ Start(r, [Idle EXCEPT !.pc = "period", !.op = op, !.date = d])
    /\ UNCHANGED <<now, stored, locks>>

\* The corrected time lies in the past, on the work date or the day after it.
\* Only a missing check-out's time decides what happens; the others carry none.
ArriveRequest(r, e, d, f, v) ==
    /\ "REQUEST" \in Ops /\ RoomForCorrection
    /\ d <= DateOf[now]
    /\ IF f = "CHECK_OUT" THEN v \in 1..now /\ DateOf[v] \in {d, d + 1} ELSE v = 0
    /\ Start(r, [Idle EXCEPT !.pc = "period", !.op = "REQUEST", !.emp = e,
                             !.date = d, !.field = f, !.value = v])
    /\ UNCHANGED <<now, stored, locks>>

ArriveReview(r, op, c) ==
    /\ op \in Ops /\ correction[c].status # "NONE"
    /\ Start(r, [Idle EXCEPT !.pc = "correction", !.op = op, !.corr = c])
    /\ UNCHANGED <<now, stored, locks>>
-----------------------------------------------------------------------------
(* Reads before the transaction                                            *)

\* resolveCheckInContext: a check-in before the expected end of the employee's
\* most recent session belongs to that session's work date, any other to the
\* local date of its instant.
\* A plausible bug: the time zone's date is taken one day late.
WorkDateOneDayLate(at, prior) ==
    IF prior # None /\ at < ExpectedEnd[session[prior].date]
    THEN session[prior].date ELSE DateOf[at] + 1

WorkDate(at, prior) ==
    IF prior # None /\ at < ExpectedEnd[session[prior].date]
    THEN session[prior].date ELSE DateOf[at]

Resolve(r) ==
    /\ req[r].pc = "resolve"
    /\ \E prior \in FindMostRecentForEmployee(req[r].emp) :
          Goto(r, [req[r] EXCEPT !.pc = "peek", !.date = WorkDate(req[r].at, prior)])
    /\ UNCHANGED <<now, stored, locks>>

PeekCheckIn(r) ==
    /\ req[r].pc = "peek" /\ req[r].op = "CHECK_IN"
    /\ \E s \in FindOpenForEmployee(req[r].emp) :
          Goto(r, [req[r] EXCEPT !.pc = "period",
                     !.prev = IF s # None /\ session[s].date # req[r].date
                              THEN session[s].date ELSE 0])
    /\ UNCHANGED <<now, stored, locks>>

PeekOpen(r) ==
    /\ req[r].pc = "peek" /\ req[r].op # "CHECK_IN"
    /\ \E s \in OpenSessions(req[r].emp) :
          Goto(r, [req[r] EXCEPT !.pc = "period", !.peek = s, !.date = session[s].date])
    /\ UNCHANGED <<now, stored, locks>>

PeekNothing(r) ==
    /\ req[r].pc = "peek" /\ req[r].op # "CHECK_IN"
    /\ OpenSessions(req[r].emp) = {}
    /\ Finish(r)
    /\ UNCHANGED <<now, stored>>
-----------------------------------------------------------------------------
(* Locks of the transaction, in the order correction row -> period -> day  *)
(* -> session row                                                          *)

\* A plausible bug: the correction is read without FOR UPDATE.
ReadCorrection(r) ==
    /\ req[r].pc = "correction"
    /\ LET c == correction[req[r].corr] IN
       IF c.status # "PENDING"
       THEN Finish(r)
       ELSE /\ Goto(r, [req[r] EXCEPT !.pc = "period", !.emp = c.emp, !.date = c.date,
                                     !.field = c.field, !.value = c.value])
            /\ UNCHANGED locks
    /\ UNCHANGED <<now, stored>>

\* findByIdLocked and the once-only check of a review.
LockCorrection(r) ==
    /\ req[r].pc = "correction" /\ Blockers(r) = {}
    /\ LET c == correction[req[r].corr] IN
       IF c.status # "PENDING"
       THEN Finish(r)
       ELSE /\ Take(r, CorrectionRow(req[r].corr))
            /\ Goto(r, [req[r] EXCEPT !.pc = "period", !.emp = c.emp, !.date = c.date,
                                     !.field = c.field, !.value = c.value])
    /\ UNCHANGED <<now, stored>>

\* A plausible bug: a correction request skips the day lock, as before F-09.
AfterPeriodNoDayLock(q) == IF q.op \in {"REJECT", "REQUEST"} THEN "body" ELSE "day"

AfterPeriod(q) == IF q.op = "REJECT" THEN "body" ELSE "day"

\* A plausible bug: the period's status is read without FOR SHARE.
ReadPeriod(r) ==
    /\ req[r].pc = "period" /\ req[r].op \notin PeriodOps
    /\ IF period[MonthOf[req[r].date]] = "CLOSED"
       THEN Finish(r)
       ELSE /\ Goto(r, [req[r] EXCEPT !.pc = AfterPeriod(req[r])])
            /\ UNCHANGED locks
    /\ UNCHANGED <<now, stored>>

\* assertAttendancePeriodOpen: the SHARE lock first, then the status it guards.
LockPeriodShare(r) ==
    /\ req[r].pc = "period" /\ req[r].op \notin PeriodOps /\ Blockers(r) = {}
    /\ IF period[MonthOf[req[r].date]] = "CLOSED"
       THEN Finish(r)
       ELSE /\ Take(r, PeriodShare(MonthOf[req[r].date]))
            /\ Goto(r, [req[r] EXCEPT !.pc = AfterPeriod(req[r])])
    /\ UNCHANGED <<now, stored>>

LockPeriodExclusive(r) ==
    /\ req[r].pc = "period" /\ req[r].op \in PeriodOps /\ Blockers(r) = {}
    /\ Take(r, PeriodExclusive(MonthOf[req[r].date]))
    /\ Goto(r, [req[r] EXCEPT !.pc = "body"])
    /\ UNCHANGED <<now, stored>>

LocksRow(q) == q.op \in Punches \/ (q.op = "APPROVE" /\ q.field = "CHECK_OUT")

LockDay(r) ==
    /\ req[r].pc = "day" /\ Blockers(r) = {}
    /\ Take(r, DayLock(req[r].emp, NextDayToLock(r)))
    /\ Goto(r, [req[r] EXCEPT !.pc =
                  IF DaysToLock(r) # {NextDayToLock(r)} THEN "day"
                  ELSE IF LocksRow(req[r]) THEN "row" ELSE "body"])
    /\ UNCHANGED <<now, stored>>

\* The replay lookup under the day lock: the first request with this key has
\* committed since, so this one is answered (or refused) without doing anything.
ReplayUnderLock(r) ==
    /\ req[r].pc = "row" /\ ~NotReplayed(req[r].emp, req[r].key)
    /\ Finish(r)
    /\ UNCHANGED <<now, stored>>

\* findOpenForEmployeeLocked: SELECT ... WHERE status = 'OPEN' FOR UPDATE.
LockOpenSession(r) ==
    /\ req[r].pc = "row" /\ NotReplayed(req[r].emp, req[r].key)
    /\ \E s \in FindOpenForEmployee(req[r].emp) :
          IF s # None /\ HeldByOther(r, SessionRow(s))
          THEN /\ Goto(r, [req[r] EXCEPT !.pc = "rowWait", !.seen = s])
               /\ UNCHANGED locks
          ELSE /\ Goto(r, [req[r] EXCEPT !.pc = "body", !.seen = s])
               /\ IF s = None THEN UNCHANGED locks ELSE Take(r, SessionRow(s))
    /\ UNCHANGED <<now, stored>>

\* The awaited row is free.  PostgreSQL re-evaluates the WHERE clause on that
\* row alone: if it is no longer OPEN the statement returns no row, even when
\* the other transaction opened another session.
RowReleased(r) ==
    /\ req[r].pc = "rowWait" /\ Blockers(r) = {}
    /\ IF session[req[r].seen].status = "OPEN"
       THEN /\ Goto(r, [req[r] EXCEPT !.pc = "body"])
            /\ Take(r, SessionRow(req[r].seen))
       ELSE /\ Goto(r, [req[r] EXCEPT !.pc = "body", !.seen = None])
            /\ UNCHANGED locks
    /\ UNCHANGED <<now, stored>>
-----------------------------------------------------------------------------
(* The body of the transaction                                             *)

\* A plausible bug: the month is closed without counting its open sessions.
PeriodAllowsUncounted(q) ==
    IF q.op = "REOPEN" THEN period[MonthOf[q.date]] = "CLOSED"
    ELSE period[MonthOf[q.date]] = "OPEN"

PeriodAllows(q) ==
    LET m == MonthOf[q.date]
    IN IF q.op = "REOPEN"
       THEN period[m] = "CLOSED"
       ELSE /\ period[m] = "OPEN"
            /\ \A s \in SessionIds :
                  ~(session[s].status = "OPEN" /\ MonthOf[session[s].date] = m)

\* A correction may be requested when its target is unique, its time comes
\* after the check-in, and no live correction has the same target.
RequestAllows(q) ==
    /\ ResolveMissingPunchSession(session, q.emp, q.date, q.field)
    /\ q.field = "CHECK_OUT" =>
          \A s \in MissingPunchSessions(session, q.emp, q.date, q.field) :
             session[s].checkIn < q.value
    /\ \A c \in CorrectionIds :
          ~ /\ correction[c].status \in {"PENDING", "APPROVED"}
            /\ correction[c].emp = q.emp /\ correction[c].date = q.date
            /\ correction[c].field = q.field

\* A check-in may find no open session or the one of the earlier day it locked.
CheckInAllows(q) == q.seen # None => session[q.seen].date = q.prev

\* The other punches must find the session they peeked at; a break in progress
\* must be ended before anything else.
PunchAllows(q) ==
    /\ q.seen # None /\ q.seen = q.peek
    /\ OpenBreak(session[q.seen]) <=> q.op = "BREAK_END"

MaterializeAllows(q) == record[q.emp][q.date] = None

RepairAllows(q) == record[q.emp][q.date] # None

\* The error exits between the locks and the first write.
BodyAllows(q) ==
    CASE q.op = "CHECK_IN" -> CheckInAllows(q)
      [] q.op \in Punches \ {"CHECK_IN"} -> PunchAllows(q)
      [] q.op = "MATERIALIZE" -> MaterializeAllows(q)
      [] q.op = "REPAIR" -> RepairAllows(q)
      [] q.op \in PeriodOps -> PeriodAllows(q)
      [] q.op = "REQUEST" -> RequestAllows(q)
      [] OTHER -> TRUE

\* What the call writes to the session it has locked.
Written(q, x) ==
    CASE q.op = "CHECK_IN" -> [x EXCEPT !.status = "ABANDONED"]
      [] q.op = "CHECK_OUT" ->
             [x EXCEPT !.status = "CLOSED", !.checkOut = q.at, !.punchedOut = TRUE]
      [] q.op \in {"BREAK_START", "BREAK_END"} ->
             BreakEvent(x, q.at, q.op = "BREAK_START")
      [] q.op = "APPROVE" /\ x.date = q.date ->
             [x EXCEPT !.status = "CLOSED", !.checkOut = q.value]
      [] OTHER -> x

Inserted(q) ==
    [NoSession EXCEPT !.status = "OPEN", !.emp = q.emp, !.date = q.date, !.checkIn = q.at]

\* The tables as the transaction sees them, its own writes included.
SessionAfter(q) ==
    [s \in SessionIds |-> IF s = q.new THEN Inserted(q)
                          ELSE IF s = q.seen THEN Written(q, session[s])
                          ELSE session[s]]

CorrectionAfter(q) ==
    CASE q.op = "REQUEST" ->
           [correction EXCEPT ![q.corr] =
              [status |-> "PENDING", emp |-> q.emp, date |-> q.date,
               field |-> q.field, value |-> q.value]]
      [] q.op = "APPROVE" -> [correction EXCEPT ![q.corr].status = "APPROVED"]
      [] q.op = "REJECT" -> [correction EXCEPT ![q.corr].status = "REJECTED"]
      [] OTHER -> correction

\* A plausible bug: the abandoned session's day is not refreshed, nor is a day
\* on which a break starts or ends.
CalculatedForTarget(q) ==
    CASE q.op = "CHECK_IN" -> {d \in {q.date} : record[q.emp][d] # None}
      [] q.op \in {"CHECK_OUT", "APPROVE"} \cup DayOps -> {q.date}
      [] OTHER -> {}

\* The days whose record the call calculates: a check-in and a break refresh
\* the records that exist, the abandoned session's day only while its period is
\* not closed; check-out, recalculation and approval write one in any case.
CalculatedDates(q) ==
    CASE q.op = "CHECK_IN" ->
           {d \in Dates : /\ record[q.emp][d] # None
                          /\ \/ d = q.date
                             \/ /\ q.seen # None /\ d = session[q.seen].date
                                /\ period[MonthOf[d]] # "CLOSED"}
      [] q.op \in {"BREAK_START", "BREAK_END"} ->
           {d \in {q.date} : record[q.emp][d] # None}
      [] q.op \in {"CHECK_OUT", "APPROVE"} \cup DayOps -> {q.date}
      [] OTHER -> {}

FreshSessions ==
    {s \in SessionIds : session[s].status = "NONE" /\ \A p \in Requests : req[p].new # s}

FreshCorrections ==
    {c \in CorrectionIds : correction[c].status = "NONE" /\ \A p \in Requests : req[p].corr # c}

NewSession(q) == IF q.op = "CHECK_IN" THEN FreshSessions ELSE {None}

NewCorrection(q) == IF q.op = "REQUEST" THEN FreshCorrections ELSE {q.corr}

\* One calculation throws: the transaction is rolled back.
CalculationFails(q) ==
    \E d \in CalculatedDates(q) :
        ~Computable(SessionAfter(q), CorrectionAfter(q), q.emp, d)

Calculated(q) ==
    [d \in Dates |-> IF d \in CalculatedDates(q)
                     THEN DayInputs(SessionAfter(q), CorrectionAfter(q), q.emp, d)
                     ELSE None]

\* The body reads what the calculation needs and settles what will be written;
\* nobody else sees it before the commit.
Body(r) ==
    /\ req[r].pc = "body" /\ BodyAllows(req[r])
    /\ \E n \in NewSession(req[r]), c \in NewCorrection(req[r]) :
          LET q == [req[r] EXCEPT !.new = n, !.corr = c] IN
          /\ ~CalculationFails(q)
          /\ Goto(r, [q EXCEPT !.pc = "commit", !.calc = Calculated(q)])
    /\ UNCHANGED <<now, stored, locks>>

RefuseBody(r) ==
    /\ req[r].pc = "body" /\ ~BodyAllows(req[r])
    /\ Finish(r)
    /\ UNCHANGED <<now, stored>>

RecalculationFailed(r) ==
    /\ req[r].pc = "body" /\ BodyAllows(req[r])
    /\ \E n \in NewSession(req[r]), c \in NewCorrection(req[r]) :
          CalculationFails([req[r] EXCEPT !.new = n, !.corr = c])
    /\ Finish(r)
    /\ UNCHANGED <<now, stored>>
-----------------------------------------------------------------------------
(* The commit                                                              *)

\* Plausible bugs: either unique index is missing.
NoOpenSessionIndex(q) == ~NotReplayed(q.emp, q.key)
NoEventKeyIndex(q) == q.op = "CHECK_IN" /\ OpenSessions(q.emp) \ {q.seen} # {}

\* The unique indexes: one OPEN session per employee, one event per key.
UniqueViolation(q) ==
    \/ q.op = "CHECK_IN" /\ OpenSessions(q.emp) \ {q.seen} # {}
    \/ ~NotReplayed(q.emp, q.key)

DuplicateRefused(r) ==
    /\ req[r].pc = "commit" /\ req[r].op \in Punches /\ UniqueViolation(req[r])
    /\ Finish(r)
    /\ UNCHANGED <<now, stored>>

Commits(r, ops) ==
    /\ req[r].pc = "commit" /\ req[r].op \in ops
    /\ req[r].op \in Punches => ~UniqueViolation(req[r])
    /\ Finish(r)
    /\ UNCHANGED now

\* upsert; the scheduled job's insert leaves an existing record alone.
RecordsAfter(q) ==
    [record EXCEPT ![q.emp] =
        [d \in Dates |-> IF \/ q.calc[d] = None
                            \/ q.op = "MATERIALIZE" /\ record[q.emp][d] # None
                         THEN record[q.emp][d] ELSE q.calc[d]]]

KeysAfter(q) ==
    IF q.key = None THEN keyed ELSE [keyed EXCEPT ![q.emp][q.key] = q.op]

CommitPunch(r) ==
    /\ Commits(r, Punches)
    /\ session' = SessionAfter(req[r])
    /\ record' = RecordsAfter(req[r])
    /\ keyed' = KeysAfter(req[r])
    /\ UNCHANGED <<period, correction>>

CommitDay(r) ==
    /\ Commits(r, DayOps)
    /\ record' = RecordsAfter(req[r])
    /\ UNCHANGED <<session, period, correction, keyed>>

CommitPeriod(r) ==
    /\ Commits(r, PeriodOps)
    /\ period' = [period EXCEPT ![MonthOf[req[r].date]] =
                    IF req[r].op = "CLOSE" THEN "CLOSED" ELSE "OPEN"]
    /\ UNCHANGED <<session, record, correction, keyed>>

CommitRequest(r) ==
    /\ Commits(r, {"REQUEST"})
    /\ correction' = CorrectionAfter(req[r])
    /\ UNCHANGED <<session, period, record, keyed>>

CommitReview(r) ==
    /\ Commits(r, Reviews)
    /\ session' = SessionAfter(req[r])
    /\ record' = RecordsAfter(req[r])
    /\ correction' = CorrectionAfter(req[r])
    /\ UNCHANGED <<period, keyed>>

\* A call may fail at any point: the client goes away, a statement errs or
\* times out, the process dies.  Its transaction is rolled back.
Abort(r) ==
    /\ req[r].pc # "idle"
    /\ Finish(r)
    /\ UNCHANGED <<now, stored>>

Tick ==
    /\ now < LastTime
    /\ now' = now + 1
    /\ UNCHANGED <<stored, req, locks>>
-----------------------------------------------------------------------------
(* Specification                                                           *)

Arrive(r) ==
    \/ \E e \in Employees, k \in Keys \cup {None} : ArriveCheckIn(r, e, k)
    \/ \E op \in Punches \ {"CHECK_IN"}, e \in Employees, k \in Keys \cup {None} :
          ArrivePunch(r, op, e, k)
    \/ \E op \in DayOps, e \in Employees, d \in Dates : ArriveDay(r, op, e, d)
    \/ \E op \in PeriodOps, d \in Dates : ArrivePeriod(r, op, d)
    \/ \E e \in Employees, d \in Dates, f \in Fields, v \in 0..LastTime :
          ArriveRequest(r, e, d, f, v)
    \/ \E op \in Reviews, c \in CorrectionIds : ArriveReview(r, op, c)

Acquire(r) ==
    \/ LockCorrection(r) \/ LockPeriodShare(r) \/ LockPeriodExclusive(r)
    \/ LockDay(r) \/ LockOpenSession(r) \/ RowReleased(r)

Commit(r) ==
    \/ CommitPunch(r) \/ CommitDay(r) \/ CommitPeriod(r)
    \/ CommitRequest(r) \/ CommitReview(r)

Step(r) ==
    \/ Resolve(r) \/ PeekCheckIn(r) \/ PeekOpen(r) \/ PeekNothing(r)
    \/ Acquire(r) \/ ReplayUnderLock(r)
    \/ Body(r) \/ RefuseBody(r) \/ RecalculationFailed(r)
    \/ DuplicateRefused(r) \/ Commit(r)

Next == Tick \/ \E r \in Requests : Arrive(r) \/ Step(r) \/ Abort(r)

Spec == Init /\ [][Next]_vars

\* Every call that is not waiting for a lock goes on, and a lock that keeps
\* becoming free is not withheld for ever: PostgreSQL queues lock waiters in
\* order.  Neither arrivals, the clock nor failures are fair.
FairSpec ==
    /\ Spec
    /\ \A r \in Requests : WF_vars(Step(r)) /\ SF_vars(Acquire(r))
-----------------------------------------------------------------------------
(* Properties                                                              *)

\* Every variable holds rows, calls and locks of the shapes defined above.
TypeOK ==
    /\ now \in Times
    /\ session \in [SessionIds -> Session]
    /\ period \in [Months -> {"OPEN", "CLOSED"}]
    /\ record \in [Employees -> [Dates -> DayRecord \cup {None}]]
    /\ correction \in [CorrectionIds -> Correction]
    /\ keyed \in [Employees -> [Keys -> Punches \cup {"NONE"}]]
    /\ req \in [Requests -> Call]
    /\ locks \in [Requests -> SUBSET Lock]

\* A closed month never contains an open session: closeAttendancePeriod counts
\* the open sessions of the month under a lock no check-in can pass, and nothing
\* opens one in a closed month afterwards.
ClosedPeriodHasNoOpenSession ==
    \A s \in SessionIds :
        session[s].status = "OPEN" => period[MonthOf[session[s].date]] = "OPEN"

\* Everything stored about the work dates of a month.
MonthLedger(m) ==
    LET days == {d \in Dates : MonthOf[d] = m} IN
    [sessions |-> {<<s, session[s]>> : s \in {x \in SessionIds : session[x].date \in days}},
     records |-> [e \in Employees |-> [d \in days |-> record[e][d]]],
     corrections |-> {<<c, correction[c]>> :
                        c \in {x \in CorrectionIds : correction[x].date \in days}}]

\* While a month is closed nothing about it changes, whatever was already under
\* way when it was closed: no punch, record or correction slips in behind the
\* assertAttendancePeriodOpen check made before.
ClosedPeriodFrozen ==
    [][\A m \in Months : period[m] = "CLOSED" /\ period'[m] = "CLOSED"
                            => MonthLedger(m)' = MonthLedger(m)]_vars

\* A stored daily record is always the one the calculation would give now: every
\* change of the day's sessions, breaks or approved corrections recalculates it
\* in the same transaction, under the day lock (the F-01 invariant).
RecordFresh ==
    \A e \in Employees, d \in Dates :
        record[e][d] # None => record[e][d] = DayInputs(session, correction, e, d)

\* Two calls never conspire to rewrite a session: what is closed or abandoned
\* stays exactly as it is, an open session keeps its owner, date and check-in
\* and never loses a break event, and only an unused id becomes a session.
SessionHistory ==
    [][\A s \in SessionIds :
         LET x == session[s]  y == session'[s] IN
         /\ x.status \in {"CLOSED", "ABANDONED"} => y = x
         /\ x.status = "OPEN" =>
               /\ y.status # "NONE" /\ y.breaks >= x.breaks
               /\ y.emp = x.emp /\ y.date = x.date /\ y.checkIn = x.checkIn
         /\ x.status = "NONE" => y.status \in {"NONE", "OPEN"}]_vars

\* An employee never has two open sessions, although check-ins for different
\* work dates share no day lock and their row lock finds nothing to lock.
OneOpenSession == \A e \in Employees : Cardinality(OpenSessions(e)) <= 1

\* Once a key is recorded no call carrying it changes anything again: a retry
\* is answered or refused, also when it overlaps the first call.
KeyTakesEffectOnce ==
    [][\A r \in Requests :
         /\ req[r].key # None /\ req'[r] # req[r]
         /\ keyed[req[r].emp][req[r].key] # "NONE"
         => stored' = stored]_vars

\* No set of calls waits for itself: every nonempty set has a member that none
\* of the set keeps waiting.  This is what the fixed lock order is for.
NoDeadlock ==
    \A W \in (SUBSET Requests) \ {{}} : \E r \in W : Blockers(r) \cap W = {}

\* No two corrections that are pending or approved have the same target,
\* although the check for one is a plain SELECT.
OneLiveCorrection ==
    \A c, d \in CorrectionIds :
        /\ c # d
        /\ {correction[c].status, correction[d].status} \subseteq {"PENDING", "APPROVED"}
        => \/ correction[c].emp # correction[d].emp
           \/ correction[c].date # correction[d].date
           \/ correction[c].field # correction[d].field

\* A correction is reviewed at most once and an approval is never lost: two
\* reviewers cannot both pass the PENDING check.
ReviewedOnce ==
    [][\A c \in CorrectionIds :
         correction[c].status \in {"APPROVED", "REJECTED"} =>
             correction'[c] = correction[c]]_vars

\* Ending a break is never refused because the day can no longer be calculated.
\* The code does not keep this: an approved missing BREAK_END is resolved anew on
\* every calculation and loses its target when the employee ends the break.
EveryOpenBreakCanEnd ==
    \A r \in Requests :
        req[r].pc = "body" /\ req[r].op = "BREAK_END" /\ BodyAllows(req[r])
        => ~CalculationFails(req[r])

\* A call that only shares the month's lock is answered, however many other
\* calls it waits behind.  (Closing and reopening may wait for ever: holders of
\* the shared lock may overlap without end.)
Completes ==
    \A r \in Requests :
        (req[r].pc # "idle" /\ req[r].op \notin PeriodOps) ~> (req[r].pc = "idle")
-----------------------------------------------------------------------------
(* Refinement                                                              *)

ShownSession(x) ==
    [status |-> x.status, emp |-> x.emp, date |-> x.date, checkIn |-> x.checkIn,
     checkOut |-> x.checkOut, onBreak |-> OpenBreak(x)]

ShownRecord(e, d) ==
    IF record[e][d] = None THEN "none"
    ELSE IF record[e][d] = DayInputs(session, correction, e, d) THEN "right" ELSE "wrong"

Book == INSTANCE AttendanceBook WITH
    session <- [s \in SessionIds |-> ShownSession(session[s])],
    daily <- [e \in Employees |-> [d \in Dates |-> ShownRecord(e, d)]]

\* The calls, with their stale reads, locks and re-validations, implement the book:
\* each commit is one operation of AttendanceBook on the rows as they are at that
\* moment, and nothing else any call does shows.
ImplementsBook == Book!Spec
=============================================================================
