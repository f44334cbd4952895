--------------------------------- MODULE WorkDay ---------------------------------
(***************************************************************************)
(* One employee's day: the sessions capture what workforce says at their   *)
(* check-in, corrections of them are requested and approved, and the day   *)
(* is calculated from both, while schedules, shifts, weekly offs and       *)
(* holidays change.  How punches and reviews lock each other out is module *)
(* AttendanceLedger's subject: here each is one step.                      *)
(***************************************************************************)
EXTENDS Workforce, SequencesExt

CONSTANTS
    Worker,         \* the employee whose day it is
    LastTime,       \* bound of the clock
    Policies,       \* attendance_policies: [grace, early, threshold, minimum]
    MaxSessions, MaxCorrections

DC == INSTANCE DailyCalculation

Times == 0..LastTime
Fields == {"CHECK_IN", "CHECK_OUT", "BREAK_START", "BREAK_END"}

ASSUME WorkDayAssumption ==
    /\ Worker \in Employees /\ LastTime \in Nat
    /\ MaxSessions \in Nat /\ MaxCorrections \in Nat
    /\ \A p \in Policies : p.grace \in Nat

VARIABLES now, session, correction, policy

dayVars == <<now, session, correction, policy>>
vars == <<workforceVars, dayVars>>
-----------------------------------------------------------------------------
Break == [start: Times, end: Times \cup {None}]

\* punchedOut: the session has a CHECK_OUT event of its own.
Session ==
    [id: 1..MaxSessions, in: Times, out: Times \cup {None}, punchedOut: BOOLEAN,
     start: Nat \cup {None}, end: Nat \cup {None}, grace: Nat, breaks: Seq(Break)]

\* punched: the correction names the event it corrects.  A correction without one
\* finds its target when it is approved.
Correction ==
    [field: Fields, target: 0..MaxSessions, punched: BOOLEAN, value: Times,
     status: {"PENDING", "APPROVED", "REJECTED"}]

Init ==
    /\ WorkforceInit
    /\ now = 0 /\ session = <<>> /\ correction = <<>> /\ policy \in Policies

Live(status) == {k \in DOMAIN correction : correction[k].status \in status}

Open == {i \in DOMAIN session : session[i].out = None}

OpenBreak(s) == s.breaks # <<>> /\ Last(s.breaks).end = None

WithOpenBreak == {i \in DOMAIN session : OpenBreak(session[i])}
-----------------------------------------------------------------------------
(* Punches                                                                 *)

\* A shift's grace comes before the policy's.
Grace(info) == IF info.grace = None THEN policy.grace ELSE info.grace

\* resolveCheckInContext: the expectation is captured as workforce has it now.
Captured(info) ==
    [id |-> Len(session) + 1, in |-> now, out |-> None, punchedOut |-> FALSE,
     start |-> IF info.window = None THEN None ELSE info.window.start,
     end |-> IF info.window = None THEN None ELSE info.window.end,
     grace |-> Grace(info), breaks |-> <<>>]

CheckIn ==
    /\ "PUNCH" \in agenda /\ Open = {} /\ Len(session) < MaxSessions
    /\ \E info \in DayInfos(Worker, Today) : session' = Append(session, Captured(info))
    /\ UNCHANGED <<now, correction, policy>>

CheckOut ==
    /\ "PUNCH" \in agenda
    /\ \E i \in Open : /\ ~OpenBreak(session[i])
                       /\ session' = [session EXCEPT ![i].out = now, ![i].punchedOut = TRUE]
    /\ UNCHANGED <<now, correction, policy>>

StartBreak ==
    /\ "BREAK" \in agenda
    /\ \E i \in Open : /\ session[i].breaks = <<>>
                       /\ session' = [session EXCEPT ![i].breaks = <<[start |-> now, end |-> None]>>]
    /\ UNCHANGED <<now, correction, policy>>

EndBreak ==
    /\ "BREAK" \in agenda
    /\ \E i \in Open : /\ OpenBreak(session[i])
                       /\ session' = [session EXCEPT ![i].breaks[1].end = now]
    /\ UNCHANGED <<now, correction, policy>>
-----------------------------------------------------------------------------
(* Corrections                                                             *)

\* resolveCorrectionEventTarget, resolveMissingPunchSessionId: the session the
\* correction is about; 0 is the one that a missing check-in will make up.
Targets(field, punched) ==
    IF punched
    THEN {i \in DOMAIN session :
            CASE field = "CHECK_IN" -> TRUE
              [] field = "CHECK_OUT" -> session[i].punchedOut
              [] field = "BREAK_START" -> session[i].breaks # <<>>
              [] field = "BREAK_END" -> session[i].breaks # <<>> /\ ~OpenBreak(session[i])}
    ELSE CASE field = "CHECK_IN" -> IF session = <<>> THEN {0} ELSE {}
           [] field = "CHECK_OUT" -> IF Cardinality(Open) = 1 THEN Open ELSE {}
           [] field = "BREAK_END" -> IF Cardinality(WithOpenBreak) = 1 THEN WithOpenBreak ELSE {}
           [] OTHER -> {}

\* assertCorrectionTimestampOrdering: the value is compared with the punches of its
\* session as they were made.
InOrder(field, i, value) ==
    i # 0 =>
        LET s == session[i] IN
        /\ field = "CHECK_IN" /\ s.out # None => value < s.out
        /\ field = "CHECK_OUT" => value > s.in
        /\ field = "BREAK_START" =>
              value > s.in /\ (s.breaks[1].end # None => value < s.breaks[1].end)
        /\ field = "BREAK_END" =>
              value > s.breaks[1].start /\ (s.out # None => value < s.out)

Conflicting(field, punched, i) ==
    {k \in Live({"PENDING", "APPROVED"}) :
        /\ correction[k].field = field /\ correction[k].punched = punched
        /\ punched => correction[k].target = i}

RequestCorrection ==
    /\ "CORRECT" \in agenda /\ Len(correction) < MaxCorrections
    /\ \E field \in Fields, punched \in BOOLEAN, value \in 0..now :
          \E i \in Targets(field, punched) :
             /\ InOrder(field, i, value) /\ Conflicting(field, punched, i) = {}
             /\ correction' = Append(correction,
                   [field |-> field, target |-> i, punched |-> punched, value |-> value,
                    status |-> "PENDING"])
    /\ UNCHANGED <<now, session, policy>>

Approve(k, i) ==
    /\ correction' = [correction EXCEPT ![k].status = "APPROVED", ![k].target = i]

\* A missing check-out is found its session anew, and closes it; a missing break
\* end is found its session anew; without one the approval is rolled back.
ApproveCorrection ==
    /\ \E k \in Live({"PENDING"}) :
          LET c == correction[k] IN
          \/ /\ c.punched \/ c.field = "CHECK_IN"
             /\ Approve(k, c.target) /\ UNCHANGED session
          \/ /\ ~c.punched /\ c.field = "CHECK_OUT"
             /\ \E i \in Open : /\ Approve(k, i)
                                /\ session' = [session EXCEPT ![i].out = c.value]
          \/ /\ ~c.punched /\ c.field = "BREAK_END"
             /\ \E i \in Targets("BREAK_END", FALSE) : Approve(k, i) /\ UNCHANGED session
    /\ UNCHANGED <<now, policy>>

RejectCorrection ==
    /\ \E k \in Live({"PENDING"}) :
          correction' = [correction EXCEPT ![k].status = "REJECTED"]
    /\ UNCHANGED <<now, session, policy>>

Tick ==
    /\ now < LastTime /\ now' = now + 1
    /\ UNCHANGED <<session, correction, policy>>

\* buildCorrectionOverride finds an approved missing break end its session anew.
Resolves ==
    \A k \in Live({"APPROVED"}) :
        correction[k].field = "BREAK_END" /\ ~correction[k].punched => Cardinality(WithOpenBreak) = 1

\* A punch or review whose recalculation of the day fails is rolled back.
DayStep ==
    /\ \/ CheckIn \/ CheckOut \/ StartBreak \/ EndBreak
       \/ RequestCorrection \/ ApproveCorrection \/ RejectCorrection
       \/ Tick
    /\ Resolves'

Next ==
    \/ DayStep /\ UNCHANGED workforceVars
    \/ \E c \in Calls : WorkforceStep(c) /\ UNCHANGED dayVars

Spec == Init /\ [][Next]_vars
-----------------------------------------------------------------------------
(* The calculation of the day, for an answer workforce may give now        *)

Applied(info) ==
    DC!ApplyCorrectionsToSessions(
        Range(session), {correction[k] : k \in Live({"APPROVED"})},
        [info EXCEPT !.grace = Grace(info)])

Result(info) == DC!CalculateDailyAttendance(Applied(info), info, policy)
-----------------------------------------------------------------------------
(* Properties                                                              *)

\* The rows of workforce, the day's sessions and its corrections are well formed.
TypeOK ==
    /\ WorkforceTypeOK
    /\ now \in Times
    /\ session \in Seq(Session)
    /\ correction \in Seq(Correction)
    /\ policy \in Policies

Periods(info) == DC!NormalizeExpectationPeriods(DC!ByCheckIn(Applied(info)))

\* normalizeExpectationPeriods: no scheduled minute is counted twice, provided
\* nobody is late for an expectation that changed during the day.  (Without the
\* proviso the code counts some twice, see the README.)
MinutesCountedOnceUnlessLate ==
    \A info \in DayInfos(Worker, Today) :
        LET p == Periods(info) IN
        (\A n \in 2..Len(p) : p[n].in <= p[n].start) =>
            \A m, n \in DOMAIN p : m < n =>
                {t \in p[m].start..p[n].end : p[m].start <= t /\ t < p[m].operativeEnd}
                \cap {t \in p[n].start..p[n].end : t < p[n].operativeEnd} = {}

Numbers(info) == [Result(info) EXCEPT !.status = "any"]

\* Captured expectations protect history: once somebody has checked in, no later
\* change of schedules, shifts, assignments, weekly offs or holidays changes the
\* day's numbers.  (A day whose check-in is a correction is measured anew.)
HistoryKeepsItsNumbers ==
    [][session # <<>> /\ dayVars' = dayVars /\ Live({"APPROVED"}) = {} =>
         \A i \in DayInfos(Worker, Today), j \in DayInfos(Worker, Today)' :
            Numbers(j) = Numbers(i)]_vars

\* "an out-of-order value ... would ... silently produce a negative
\* `workedMinutes`" is what assertCorrectionTimestampOrdering is there to prevent.
\* It compares a corrected check-out with the check-in only, not with the breaks.
WorkedIsNotNegative ==
    \A info \in DayInfos(Worker, Today) :
        Result(info).worked # None => Result(info).worked >= 0
=============================================================================
