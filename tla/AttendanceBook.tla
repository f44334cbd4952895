------------------------------ MODULE AttendanceBook ------------------------------
(***************************************************************************)
(* What the attendance service promises about the rows it keeps: every     *)
(* operation that succeeds happens at once, on the rows as they are at     *)
(* that moment, and leaves every daily record right.  There are no calls   *)
(* in flight, no locks and no earlier reads here; AttendanceLedger has     *)
(* them and implements this module (ImplementsBook).                       *)
(***************************************************************************)
EXTENDS Naturals

CONSTANTS
    Employees, SessionIds, CorrectionIds, Keys,
    Times, Dates, Fields,
    DateOf, MonthOf, ExpectedEnd,   \* of an instant; of a work date; of its shift
    None

VARIABLES session, period, daily, correction, keyed

vars == <<session, period, daily, correction, keyed>>
-----------------------------------------------------------------------------
Session ==
    [status: {"NONE", "OPEN", "CLOSED", "ABANDONED"}, emp: Employees \cup {None},
     date: Dates \cup {0}, checkIn: Times \cup {0}, checkOut: Times \cup {0}, onBreak: BOOLEAN]

NoSession ==
    [status |-> "NONE", emp |-> None, date |-> 0, checkIn |-> 0, checkOut |-> 0,
     onBreak |-> FALSE]

NoCorrection ==
    [status |-> "NONE", emp |-> None, date |-> 0, field |-> "NONE", value |-> 0]

\* daily: there is no record of the day, or one that agrees with its sessions and
\* approved corrections.  Nothing ever makes one wrong.
Init ==
    /\ session = [s \in SessionIds |-> NoSession]
    /\ period = [m \in {MonthOf[d] : d \in Dates} |-> "OPEN"]
    /\ daily = [e \in Employees |-> [d \in Dates |-> "none"]]
    /\ correction = [c \in CorrectionIds |-> NoCorrection]
    /\ keyed = [e \in Employees |-> [k \in Keys |-> "NONE"]]

OpenSessions(e) == {s \in SessionIds : session[s].status = "OPEN" /\ session[s].emp = e}

DaySessions(e, d) ==
    {s \in SessionIds : session[s].status # "NONE" /\ session[s].emp = e /\ session[s].date = d}

Writable(d) == period[MonthOf[d]] = "OPEN"

\* A key answers for one punch, whoever retries it.
UseKey(e, k, op) ==
    IF k = None THEN UNCHANGED keyed
    ELSE keyed[e][k] = "NONE" /\ keyed' = [keyed EXCEPT ![e][k] = op]

Right(e, d) == daily' = [daily EXCEPT ![e][d] = "right"]
-----------------------------------------------------------------------------
\* The work date is the local date of the punch, or that of an earlier session
\* whose shift has not ended.
WorkDateOf(e, t, d) ==
    d = DateOf[t] \/ (t < ExpectedEnd[d] /\ DaySessions(e, d) # {})

CheckIn(e, s, d, t, k) ==
    /\ session[s].status = "NONE" /\ WorkDateOf(e, t, d) /\ Writable(d)
    /\ session' = [x \in SessionIds |->
         IF x = s THEN [NoSession EXCEPT !.status = "OPEN", !.emp = e, !.date = d, !.checkIn = t]
         ELSE IF x \in OpenSessions(e) THEN [session[x] EXCEPT !.status = "ABANDONED"]
         ELSE session[x]]
    /\ UseKey(e, k, "CHECK_IN")
    /\ UNCHANGED <<period, daily, correction>>

CheckOut(e, s, t, k) ==
    /\ OpenSessions(e) = {s} /\ ~session[s].onBreak /\ Writable(session[s].date)
    /\ session' = [session EXCEPT ![s].status = "CLOSED", ![s].checkOut = t]
    /\ Right(e, session[s].date)
    /\ UseKey(e, k, "CHECK_OUT")
    /\ UNCHANGED <<period, correction>>

\* A break event stamped before the last one does not change which is the last.
BreakPunch(e, s, starts, k) ==
    /\ OpenSessions(e) = {s} /\ session[s].onBreak # starts /\ Writable(session[s].date)
    /\ session' \in {session, [session EXCEPT ![s].onBreak = starts]}
    /\ UseKey(e, k, IF starts THEN "BREAK_START" ELSE "BREAK_END")
    /\ UNCHANGED <<period, daily, correction>>

Calculate(e, d) ==
    /\ Writable(d) /\ Right(e, d)
    /\ UNCHANGED <<session, period, correction, keyed>>

ClosePeriod(m) ==
    /\ period[m] = "OPEN"
    /\ \A s \in SessionIds : session[s].status = "OPEN" => MonthOf[session[s].date] # m
    /\ period' = [period EXCEPT ![m] = "CLOSED"]
    /\ UNCHANGED <<session, daily, correction, keyed>>

ReopenPeriod(m) ==
    /\ period[m] = "CLOSED" /\ period' = [period EXCEPT ![m] = "OPEN"]
    /\ UNCHANGED <<session, daily, correction, keyed>>
-----------------------------------------------------------------------------
\* The session a punch is missing from; a missing check-in has none.
Lacking(e, d, f) ==
    CASE f = "CHECK_IN" -> {}
      [] f = "CHECK_OUT" -> {s \in DaySessions(e, d) : session[s].checkOut = 0}
      [] f = "BREAK_END" -> {s \in DaySessions(e, d) : session[s].onBreak}

\* There is one target, the time comes after its check-in, and no other live
\* correction supplies the same punch.
Requestable(e, d, f, v) ==
    /\ IF f = "CHECK_IN" THEN DaySessions(e, d) = {} ELSE \E s \in SessionIds : Lacking(e, d, f) = {s}
    /\ f = "CHECK_OUT" => \A s \in Lacking(e, d, f) : session[s].checkIn < v
    /\ \A c \in CorrectionIds :
          correction[c].emp = e /\ correction[c].date = d /\ correction[c].field = f
             => correction[c].status = "REJECTED"

RequestCorrection(c, e, d, f, v) ==
    /\ correction[c].status = "NONE" /\ Writable(d) /\ Requestable(e, d, f, v)
    /\ correction' = [correction EXCEPT ![c] =
         [status |-> "PENDING", emp |-> e, date |-> d, field |-> f, value |-> v]]
    /\ UNCHANGED <<session, period, daily, keyed>>

\* A missing check-out closes the session if it is still open.
ApproveCorrection(c) ==
    LET x == correction[c] IN
    /\ x.status = "PENDING" /\ Writable(x.date)
    /\ correction' = [correction EXCEPT ![c].status = "APPROVED"]
    /\ session' = [s \in SessionIds |->
         IF x.field = "CHECK_OUT" /\ s \in OpenSessions(x.emp) /\ session[s].date = x.date
         THEN [session[s] EXCEPT !.status = "CLOSED", !.checkOut = x.value] ELSE session[s]]
    /\ Right(x.emp, x.date)
    /\ UNCHANGED <<period, keyed>>

RejectCorrection(c) ==
    /\ correction[c].status = "PENDING" /\ Writable(correction[c].date)
    /\ correction' = [correction EXCEPT ![c].status = "REJECTED"]
    /\ UNCHANGED <<session, period, daily, keyed>>
-----------------------------------------------------------------------------
Punch(e, s, k) ==
    \/ \E t \in Times : CheckOut(e, s, t, k) \/ \E d \in Dates : CheckIn(e, s, d, t, k)
    \/ \E starts \in BOOLEAN : BreakPunch(e, s, starts, k)

Next ==
    \/ \E e \in Employees, s \in SessionIds, k \in Keys \cup {None} : Punch(e, s, k)
    \/ \E e \in Employees, d \in Dates : Calculate(e, d)
    \/ \E m \in DOMAIN period : ClosePeriod(m) \/ ReopenPeriod(m)
    \/ \E c \in CorrectionIds :
          \/ ApproveCorrection(c) \/ RejectCorrection(c)
          \/ \E e \in Employees, d \in Dates, f \in Fields, v \in Times \cup {0} :
                RequestCorrection(c, e, d, f, v)

Spec == Init /\ [][Next]_vars
=============================================================================
