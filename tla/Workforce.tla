------------------------------- MODULE Workforce -------------------------------
(***************************************************************************)
(* What applies to an employee on a date: schedules and shifts, their      *)
(* assignments over date ranges, weekly offs and holidays.                 *)
(*                                                                         *)
(* The variables hold committed rows; a server call c of `call` takes one  *)
(* database statement, or the writes of one transaction, per step.  An     *)
(* assignment row and a weekly-off rule never disappear, so each table is  *)
(* the sequence of its rows.  A date is a number; Always and Forever stand *)
(* for an effectiveFrom and an effectiveTo of null.  Requests refused      *)
(* before they read anything are left out.                                 *)
(***************************************************************************)
EXTENDS Naturals, FiniteSets, Sequences

CONSTANTS
    Employees, Branches,
    BranchOf,       \* employees.location_id, None without one
    Schedules, Shifts,
    Windows,        \* [start, end] of a schedule or shift, as times of its day
    Graces,         \* shifts.grace_period_minutes
    LastDate,       \* dates are 1..LastDate
    Today,
    Calls,
    OffSets,        \* what offDays may say of the dates
    Starts,         \* starting rows, each with the operations then exercised
    None

Dates == 1..LastDate
Always == 0
Forever == LastDate + 1
Templates == Schedules \cup Shifts
Places == Branches \cup {None}
WorkforceOps == {"ASSIGN", "SHORTEN", "TEMPLATE", "SWITCH", "DEFAULT", "OVERRIDE", "HOLIDAY"}

ASSUME WorkforceAssumption ==
    /\ LastDate \in Nat \ {0} /\ Today \in Dates
    /\ IsFiniteSet(Employees) /\ IsFiniteSet(Calls)
    /\ None \notin Employees \cup Branches \cup Templates \cup Calls /\ None \notin Nat
    /\ Schedules \cap Shifts = {}
    /\ BranchOf \in [Employees -> Places]
    /\ \A w \in Windows : w.start \in Nat /\ w.end \in Nat /\ w.start < w.end
    /\ Graces \subseteq Nat /\ OffSets \subseteq SUBSET Dates
    /\ \A s \in Starts : s.ops \subseteq STRING

VARIABLES
    template,   \* work_schedules and shifts
    assignment, \* employee_schedule_assignments, in the order of insertion
    rule,       \* weekly_off_rules, in the order of insertion
    holiday,    \* holidays: at most one row per place and date
    call,       \* the requests in flight
    agenda      \* the operations this behaviour uses

workforceVars == <<template, assignment, rule, holiday, call, agenda>>
-----------------------------------------------------------------------------
Template == [active: BOOLEAN, window: Windows, grace: Graces]

Assignment ==
    [employee: Employees, schedule: Schedules, shift: Shifts \cup {None},
     from: Dates, to: Dates \cup {Always, Forever}]

\* off: the dates whose weekday is one of offDays; employee None is the company's
\* default.
Rule ==
    [employee: Employees \cup {None}, off: SUBSET Dates, active: BOOLEAN,
     from: Dates \cup {Always}, to: Dates \cup {Always, Forever}]

Pcs == {"new", "open", "overlap", "read", "count", "write", "over"}

\* seen: the row the first read found, its position or 0.  outdated is history:
\* another call has since written what this one's checks looked at.
Call ==
    [pc: Pcs, op: WorkforceOps \cup {"NONE"}, subject: Employees \cup Templates \cup {None},
     schedule: Schedules \cup {None}, shift: Shifts \cup {None},
     from: Dates \cup {Always}, to: Dates \cup {Always, Forever}, off: SUBSET Dates,
     flag: BOOLEAN, seen: Nat, outdated: BOOLEAN]

Fresh ==
    [pc |-> "new", op |-> "NONE", subject |-> None, schedule |-> None, shift |-> None,
     from |-> Always, to |-> Forever, off |-> {}, flag |-> FALSE, seen |-> 0, outdated |-> FALSE]

\* Starting rows are ones the tables hold: a validated range of an assignment, and
\* no more rows than the unique indexes of weekly_off_rules allow.
ASSUME StartsAssumption ==
    \A s \in Starts :
        /\ s.template \in [Templates -> Template]
        /\ s.assignment \in Seq(Assignment) /\ s.rule \in Seq(Rule)
        /\ \A i \in DOMAIN s.assignment : s.assignment[i].from <= s.assignment[i].to
        /\ \A i, j \in DOMAIN s.rule :
              /\ s.rule[i].employee = s.rule[j].employee
              /\ \/ s.rule[i].employee = None /\ s.rule[i].active /\ s.rule[j].active
                 \/ s.rule[i].employee # None /\ s.rule[i].to = Forever /\ s.rule[j].to = Forever
              => i = j

WorkforceInit ==
    /\ \E s \in Starts :
          /\ template = s.template /\ assignment = s.assignment /\ rule = s.rule
          /\ agenda = s.ops
    /\ holiday = [x \in Places \X Dates |-> "NONE"]
    /\ call = [c \in Calls |-> Fresh]
-----------------------------------------------------------------------------
(* Queries                                                                 *)

Covers(row, d) == row.from <= d /\ d <= row.to

\* findCoveringDate: the latest start wins; rows with the same start tie.
Covering(e, d) ==
    LET rows == {i \in DOMAIN assignment : assignment[i].employee = e /\ Covers(assignment[i], d)}
    IN {i \in rows : \A j \in rows : assignment[j].from <= assignment[i].from}

OpenAssignments(e) ==
    {i \in DOMAIN assignment : assignment[i].employee = e /\ assignment[i].to = Forever}

\* Plausible bug: two ranges that share just one date are not seen to overlap.
OverlappingButForTheEdges(e, from, to) ==
    {i \in DOMAIN assignment :
        assignment[i].employee = e /\ assignment[i].from < to /\ assignment[i].to > from}

FindOverlapping(e, from, to) ==
    {i \in DOMAIN assignment :
        assignment[i].employee = e /\ assignment[i].from <= to /\ assignment[i].to >= from}

ActiveDefaults == {i \in DOMAIN rule : rule[i].employee = None /\ rule[i].active}

OpenOverrides(e) == {i \in DOMAIN rule : rule[i].employee = e /\ rule[i].to = Forever}

\* findActiveOverrideForEmployee has no order: any covering override may answer.
Overrides(e, d) ==
    {i \in DOMAIN rule : rule[i].employee = e /\ rule[i].active /\ Covers(rule[i], d)}

OnHoliday(e, d) == \E p \in {None, BranchOf[e]} : holiday[<<p, d>>] = "ACTIVE"

\* The employee's override, or else the company's default whatever its dates.
WeeklyOffs(e, d) ==
    LET rules == IF Overrides(e, d) # {} THEN Overrides(e, d) ELSE ActiveDefaults
    IN IF rules = {} THEN {FALSE} ELSE {(d \in rule[i].off) : i \in rules}

NoWork(h, w) == [isHoliday |-> h, isWeeklyOff |-> w, isWorkingDay |-> ~h /\ ~w, window |-> None,
                 grace |-> None]

\* A shift overrides its schedule's times; only shifts have a grace period.
Expected(row) ==
    [isHoliday |-> FALSE, isWeeklyOff |-> FALSE, isWorkingDay |-> TRUE,
     window |-> template[IF row.shift # None THEN row.shift ELSE row.schedule].window,
     grace |-> IF row.shift # None THEN template[row.shift].grace ELSE None]

\* resolveWorkforceDayInfo: every answer the queries may give for the date.
DayInfos(e, d) ==
    IF OnHoliday(e, d) THEN {NoWork(TRUE, FALSE)}
    ELSE UNION {IF off THEN {NoWork(FALSE, TRUE)}
                ELSE IF Covering(e, d) = {} THEN {NoWork(FALSE, FALSE)}
                ELSE {Expected(assignment[i]) : i \in Covering(e, d)} : off \in WeeklyOffs(e, d)}
-----------------------------------------------------------------------------
(* Requests                                                                *)

Become(c, q) == call' = [call EXCEPT ![c] = q]

Over(q) == [q EXCEPT !.pc = "over"]

\* A write of c to the rows other calls have read and will decide by.
WriteAs(c, others) ==
    call' = [x \in Calls |->
               IF x = c THEN Over(call[c])
               ELSE IF x \in others /\ call[x].pc \notin {"new", "over"}
                    THEN [call[x] EXCEPT !.outdated = TRUE] ELSE call[x]]

AssignmentCalls(e) ==
    {x \in Calls :
        \/ call[x].op = "ASSIGN" /\ call[x].subject = e /\ call[x].pc # "open"
        \/ call[x].op = "SHORTEN" /\ call[x].pc = "write" /\ assignment[call[x].seen].employee = e}

RuleCalls(e) == {x \in Calls : call[x].op = "OVERRIDE" /\ call[x].subject = e /\ call[x].pc = "write"}

\* The range of an accepted request is in order; overlap is allowOverlap.
ArriveAssign(c, e, s, h, from, to, overlap) ==
    /\ call[c].pc = "new" /\ "ASSIGN" \in agenda /\ from <= to
    /\ Become(c, [pc |-> "open", op |-> "ASSIGN", subject |-> e, schedule |-> s, shift |-> h,
                  from |-> from, to |-> to, off |-> {}, flag |-> overlap, seen |-> 0,
                  outdated |-> FALSE])
    /\ UNCHANGED <<template, assignment, rule, holiday, agenda>>

FindOpenForEmployee(c) ==
    LET q == call[c] IN
    /\ q.op = "ASSIGN" /\ q.pc = "open"
    /\ \E i \in IF OpenAssignments(q.subject) = {} THEN {0} ELSE OpenAssignments(q.subject) :
          Become(c, [q EXCEPT !.pc = "overlap", !.seen = i])
    /\ UNCHANGED <<template, assignment, rule, holiday, agenda>>

\* Only an assignment that started before the new one is closed by it.
WillAutoCloseOpen(q) == q.seen # 0 /\ assignment[q.seen].from < q.from

CheckOverlap(c) ==
    LET q == call[c]
        resolved == IF WillAutoCloseOpen(q) THEN {q.seen} ELSE {}
    IN
    /\ q.op = "ASSIGN" /\ q.pc = "overlap"
    /\ Become(c, IF q.flag \/ FindOverlapping(q.subject, q.from, q.to) \subseteq resolved
                 THEN [q EXCEPT !.pc = "write"] ELSE Over(q))
    /\ UNCHANGED <<template, assignment, rule, holiday, agenda>>

\* closeAssignment by id, whatever the row's end is by now.
AfterClose(q) ==
    IF WillAutoCloseOpen(q) THEN [assignment EXCEPT ![q.seen].to = q.from - 1] ELSE assignment

\* The unique index of open assignments refuses the insert: all is rolled back.
CreateAssignment(c) ==
    LET q == call[c]
        row == [employee |-> q.subject, schedule |-> q.schedule, shift |-> q.shift,
                from |-> q.from, to |-> q.to]
        closed == AfterClose(q)
        duplicate == q.to = Forever /\ \E i \in DOMAIN closed :
                        closed[i].employee = q.subject /\ closed[i].to = Forever
    IN
    /\ q.op = "ASSIGN" /\ q.pc = "write"
    /\ assignment' = IF duplicate THEN assignment ELSE Append(closed, row)
    /\ WriteAs(c, IF duplicate THEN {} ELSE AssignmentCalls(q.subject))
    /\ UNCHANGED <<template, rule, holiday, agenda>>

\* updateEmployeeScheduleAssignment reads the row and then updates it.
ArriveShorten(c, i, to) ==
    /\ call[c].pc = "new" /\ "SHORTEN" \in agenda
    /\ Become(c, [Fresh EXCEPT !.pc = "read", !.op = "SHORTEN", !.seen = i, !.to = to])
    /\ UNCHANGED <<template, assignment, rule, holiday, agenda>>

\* An end may move to an earlier date or stay; reopening is an extension too.
CheckShortens(c) ==
    LET q == call[c]  row == assignment[q.seen] IN
    /\ q.op = "SHORTEN" /\ q.pc = "read"
    /\ Become(c, IF q.to >= row.from /\ q.to <= row.to THEN [q EXCEPT !.pc = "write"] ELSE Over(q))
    /\ UNCHANGED <<template, assignment, rule, holiday, agenda>>

UpdateAssignment(c) ==
    LET q == call[c] IN
    /\ q.op = "SHORTEN" /\ q.pc = "write"
    /\ assignment' = [assignment EXCEPT ![q.seen].to = q.to]
    /\ WriteAs(c, AssignmentCalls(assignment[q.seen].employee))
    /\ UNCHANGED <<template, rule, holiday, agenda>>

\* updateWorkSchedule, updateShift: one statement (the read before is for audit).
UpdateTemplate(c, t, w, g) ==
    /\ call[c].pc = "new" /\ "TEMPLATE" \in agenda
    /\ template' = [template EXCEPT ![t].window = w, ![t].grace = g]
    /\ Become(c, Over(Fresh))
    /\ UNCHANGED <<assignment, rule, holiday, agenda>>

ArriveSwitch(c, t, active) ==
    /\ call[c].pc = "new" /\ "SWITCH" \in agenda
    /\ Become(c, [Fresh EXCEPT !.pc = IF active THEN "write" ELSE "count", !.op = "SWITCH",
                               !.subject = t, !.flag = active])
    /\ UNCHANGED <<template, assignment, rule, holiday, agenda>>

\* Only open-ended assignments count as active.
CountActiveAssignments(c) ==
    LET q == call[c] IN
    /\ q.op = "SWITCH" /\ q.pc = "count"
    /\ Become(c, IF \E i \in DOMAIN assignment :
                       q.subject \in {assignment[i].schedule, assignment[i].shift}
                       /\ assignment[i].to = Forever
                 THEN Over(q) ELSE [q EXCEPT !.pc = "write"])
    /\ UNCHANGED <<template, assignment, rule, holiday, agenda>>

SetActive(c) ==
    LET q == call[c] IN
    /\ q.op = "SWITCH" /\ q.pc = "write"
    /\ template' = [template EXCEPT ![q.subject].active = q.flag]
    /\ Become(c, Over(q))
    /\ UNCHANGED <<assignment, rule, holiday, agenda>>

\* setCompanyDefaultWeeklyOff: the old default is read outside the transaction.
ReadDefault(c, off) ==
    /\ call[c].pc = "new" /\ "DEFAULT" \in agenda
    /\ \E i \in IF ActiveDefaults = {} THEN {0} ELSE ActiveDefaults :
          Become(c, [Fresh EXCEPT !.pc = "write", !.op = "DEFAULT", !.off = off, !.seen = i])
    /\ UNCHANGED <<template, assignment, rule, holiday, agenda>>

\* weekly_off_rules_company_default_unique refuses a second active default.
DuplicateDefault(seen) == ActiveDefaults \ {seen} # {}

ReplaceDefault(c) ==
    LET q == call[c]
        row == [employee |-> None, off |-> q.off, active |-> TRUE, from |-> Always, to |-> Forever]
    IN
    /\ q.op = "DEFAULT" /\ q.pc = "write"
    /\ rule' = IF DuplicateDefault(q.seen) THEN rule
               ELSE Append(IF q.seen = 0 THEN rule ELSE [rule EXCEPT ![q.seen].active = FALSE], row)
    /\ Become(c, Over(q))
    /\ UNCHANGED <<template, assignment, holiday, agenda>>

\* Without an effectiveFrom the new override is taken to start today, but it is
\* stored without one.
StartOf(from) == IF from = Always THEN Today ELSE from

\* setEmployeeWeeklyOffOverride: findOpenOverrideForEmployee and the check.
FindOpenOverride(c, e, off, from, to) ==
    /\ call[c].pc = "new" /\ "OVERRIDE" \in agenda /\ from <= to /\ to # Always
    /\ \E i \in IF OpenOverrides(e) = {} THEN {0} ELSE OpenOverrides(e) :
          Become(c, [pc |-> IF i # 0 /\ rule[i].from >= StartOf(from) THEN "over" ELSE "write",
                     op |-> "OVERRIDE", subject |-> e, schedule |-> None, shift |-> None,
                     from |-> from, to |-> to, off |-> off, flag |-> FALSE, seen |-> i,
                     outdated |-> FALSE])
    /\ UNCHANGED <<template, assignment, rule, holiday, agenda>>

\* closeEmployeeOverride closes whatever override is open by now.
AfterCloseOverride(q) ==
    [i \in DOMAIN rule |->
        IF q.seen # 0 /\ i \in OpenOverrides(q.subject)
        THEN [rule[i] EXCEPT !.to = StartOf(q.from) - 1] ELSE rule[i]]

CreateOverride(c) ==
    LET q == call[c]
        row == [employee |-> q.subject, off |-> q.off, active |-> TRUE,
                from |-> q.from, to |-> q.to]
        closed == AfterCloseOverride(q)
        duplicate == q.to = Forever /\ \E i \in DOMAIN closed :
                        closed[i].employee = q.subject /\ closed[i].to = Forever
    IN
    /\ q.op = "OVERRIDE" /\ q.pc = "write"
    /\ rule' = IF duplicate THEN rule ELSE Append(closed, row)
    /\ WriteAs(c, IF duplicate THEN {} ELSE RuleCalls(q.subject))
    /\ UNCHANGED <<template, assignment, holiday, agenda>>

\* createHoliday; the unique indexes count archived holidays too.
CreateHoliday(c, p, d) ==
    /\ call[c].pc = "new" /\ "HOLIDAY" \in agenda /\ holiday[<<p, d>>] = "NONE"
    /\ holiday' = [holiday EXCEPT ![<<p, d>>] = "ACTIVE"]
    /\ Become(c, Over(Fresh))
    /\ UNCHANGED <<template, assignment, rule, agenda>>

SetHolidayActive(c, p, d, active) ==
    /\ call[c].pc = "new" /\ "HOLIDAY" \in agenda /\ holiday[<<p, d>>] # "NONE"
    /\ holiday' = [holiday EXCEPT ![<<p, d>>] = IF active THEN "ACTIVE" ELSE "ARCHIVED"]
    /\ Become(c, Over(Fresh))
    /\ UNCHANGED <<template, assignment, rule, agenda>>

\* The request dies before it has written anything.
Crash(c) ==
    /\ call[c].pc \notin {"new", "over"}
    /\ Become(c, Over(Fresh))
    /\ UNCHANGED <<template, assignment, rule, holiday, agenda>>

Request(c) ==
    \/ \E e \in Employees, s \in Schedules, h \in Shifts \cup {None}, from \in Dates,
          to \in Dates \cup {Forever}, overlap \in BOOLEAN :
          ArriveAssign(c, e, s, h, from, to, overlap)
    \/ \E i \in DOMAIN assignment, to \in Dates \cup {Forever} : ArriveShorten(c, i, to)
    \/ \E t \in Templates, w \in Windows, g \in Graces : UpdateTemplate(c, t, w, g)
    \/ \E t \in Templates, active \in BOOLEAN : ArriveSwitch(c, t, active)
    \/ \E off \in OffSets : ReadDefault(c, off)
    \/ \E e \in Employees, off \in OffSets, from \in Dates \cup {Always},
          to \in Dates \cup {Forever} : FindOpenOverride(c, e, off, from, to)
    \/ \E p \in Places, d \in Dates : CreateHoliday(c, p, d)
    \/ \E p \in Places, d \in Dates, active \in BOOLEAN : SetHolidayActive(c, p, d, active)

WorkforceStep(c) ==
    \/ Request(c)
    \/ FindOpenForEmployee(c) \/ CheckOverlap(c) \/ CreateAssignment(c)
    \/ CheckShortens(c) \/ UpdateAssignment(c)
    \/ CountActiveAssignments(c) \/ SetActive(c)
    \/ ReplaceDefault(c) \/ CreateOverride(c)
    \/ Crash(c)
-----------------------------------------------------------------------------
(* Properties                                                              *)

WorkforceTypeOK ==
    /\ template \in [Templates -> Template]
    /\ assignment \in Seq(Assignment)
    /\ rule \in Seq(Rule)
    /\ holiday \in [Places \X Dates -> {"NONE", "ACTIVE", "ARCHIVED"}]
    /\ call \in [Calls -> Call]
    /\ agenda \in {s.ops : s \in Starts}

Commits(c) == call[c].pc = "write" /\ call'[c].pc = "over" /\ call'[c].op # "NONE"

Inverted(rows) == {i \in DOMAIN rows : rows[i].to < rows[i].from}

\* assignEmployeeSchedule, setEmployeeWeeklyOffOverride: closing the open row
\* never gives an assignment an end before its start, whatever overlaps; nor a
\* weekly-off override, unless another override was set since the check.
RangesStayOrdered ==
    [][/\ Inverted(assignment') = {}
       /\ \A c \in Calls : Commits(c) /\ ~call[c].outdated
                            => Inverted(rule') \subseteq Inverted(rule)]_workforceVars

\* An assignment whose checks nobody else's change contradicts leaves the dates
\* before it as they were and, unless overlap is allowed, is alone on its dates.
FreshAssignIsExact ==
    [][\A c \in Calls :
         Commits(c) /\ call[c].op = "ASSIGN" /\ ~call[c].outdated /\ assignment' # assignment =>
            \A d \in Dates :
               /\ d < call[c].from => Covering(call[c].subject, d)' = Covering(call[c].subject, d)
               /\ d \in call[c].from..call[c].to /\ ~call[c].flag =>
                     {i \in DOMAIN assignment' : /\ assignment'[i].employee = call[c].subject
                                                 /\ Covers(assignment'[i], d)}
                     = {Len(assignment')}]_workforceVars

\* An assignment's end moves to a later date only through a call that another
\* one overlapped: neither closing nor shortening extends on its own.
OnlyOutdatedCallsExtend ==
    [][\A i \in DOMAIN assignment :
         assignment'[i].to > assignment[i].to =>
            \E c \in Calls : Commits(c) /\ call[c].outdated]_workforceVars

\* Once the company has a default weekly off it always has exactly one, although
\* each replacement reads the old one outside its transaction.
DefaultNeverLapses ==
    [][ActiveDefaults # {} => Cardinality(ActiveDefaults') = 1]_workforceVars

\* What calls that overlap must leave of the rows that dates are resolved by.
OverlapsSpareTheRows ==
    RangesStayOrdered /\ FreshAssignIsExact /\ OnlyOutdatedCallsExtend /\ DefaultNeverLapses
=============================================================================
