------------------------------ MODULE Employees ------------------------------
(***************************************************************************)
(* Employees, their reporting lines, employment status and onboarding, and *)
(* the departments, designations and branches they are placed in.          *)
(*                                                                         *)
(* A server call c of `call` is one request: it arrives, takes one         *)
(* database statement per step and is over.  The other variables hold      *)
(* committed rows.  An update transaction has two steps: BEGIN, which is   *)
(* the moment its history row is dated with, and the rest, whose writes    *)
(* become visible together.  Requests that are refused before they read    *)
(* anything (permission, unknown or foreign id) are left out.              *)
(***************************************************************************)
EXTENDS Naturals, FiniteSets, Sequences, SequencesExt

CONSTANTS
    People,         \* ids of employee records
    Hired,          \* the records that exist at the start
    EmailOf,        \* employees.work_email, of a record or of the form
    Units,          \* departments, designations and branches
    KindOf,         \* which of the three a unit is
    Tasks,          \* DEFAULT_ONBOARDING_TASKS
    Starts,         \* the starting states: managers, a checklist, an agenda
    Calls,
    Subjects,       \* the records each operation is tried on
    Leads,          \* the employees who act with role MANAGER
    Statuses,       \* the employment statuses tried
    None

Kinds == {"department", "designation", "location"}
AllOps == {"ASSIGN", "PLACE", "CREATE", "STATUS", "ARCHIVE", "START", "TASK", "MOVE", "SWITCH"}
OnboardingStatuses == {"DRAFT", "IN_PROGRESS", "COMPLETED"}
Departments == {u \in Units : KindOf[u] = "department"}

ASSUME PeopleAssumption ==
    /\ IsFiniteSet(People) /\ IsFiniteSet(Units) /\ IsFiniteSet(Tasks) /\ IsFiniteSet(Calls)
    /\ Hired \subseteq People /\ Leads \subseteq People
    /\ KindOf \in [Units -> Kinds]
    /\ People \cap Units = {} /\ None \notin People \cup Units \cup Tasks \cup Calls
    /\ Statuses \subseteq STRING /\ "ACTIVE" \in Statuses
    /\ Subjects \in [AllOps -> SUBSET (People \cup Units)] /\ Subjects["CREATE"] \subseteq People
    /\ Starts \subseteq [manager: [People -> Hired \cup {None}], done: (SUBSET Tasks) \cup {{None}},
                        agenda: SUBSET STRING]

VARIABLES
    employee,   \* employees
    counter,    \* employee_number_counters.next_number, 1 when there is no row
    checklist,  \* employee_onboarding and its tasks
    history,    \* employee_history, in the order of created_at
    unit,       \* departments, designations, branches
    call,       \* the requests in flight
    dayEnd,     \* the instant a work date ends, as listEligible... is given it
    agenda      \* what this behaviour is about: the operations that are requested

vars == <<employee, counter, checklist, history, unit, call, dayEnd, agenda>>
-----------------------------------------------------------------------------
Employee ==
    [present: BOOLEAN, number: Nat, manager: People \cup {None},
     unit: [Kinds -> Units \cup {None}], status: Statuses, archived: BOOLEAN,
     onboarding: OnboardingStatuses]

\* created: the employee_onboarding row; tasks: its task rows; stamped: completed_at.
Checklist == [created: BOOLEAN, tasks: SUBSET Tasks, done: SUBSET Tasks, stamped: BOOLEAN]

\* A row is dated when its transaction begins and visible once it is committed:
\* until then `by` names the call that is writing it.
HistoryRow ==
    [employee: People, event: {"CREATED", "MANAGER", "PLACEMENT", "STATUS", "ARCHIVED"},
     before: Statuses \cup OnboardingStatuses \cup People \cup Units \cup {None},
     late: BOOLEAN, by: Calls \cup {None}]

Unit == [active: BOOLEAN, parent: Units \cup {None}]

Pcs == {"new", "read", "scope", "manager", "walk", "begin", "commit", "count", "issue", "insert",
        "find", "checklist", "tasks", "progress", "toggle", "remaining", "stamp", "settle",
        "occupied", "write", "over", "lost"}

\* seen: the field the call will change, as its first read found it.  outdated is
\* history: another call has since changed what this one's checks looked at.
Call ==
    [pc: Pcs, op: AllOps \cup {"NONE"}, lead: Leads \cup {None},
     subject: People \cup Units \cup {None},
     to: People \cup Units \cup Tasks \cup Statuses \cup {None}, flag: BOOLEAN,
     seen: Statuses \cup OnboardingStatuses \cup People \cup Units \cup {None},
     at: People \cup Units \cup {None}, visited: SUBSET (People \cup Units),
     number: Nat, outdated: BOOLEAN]

Fresh ==
    [pc |-> "new", op |-> "NONE", lead |-> None, subject |-> None, to |-> None, flag |-> FALSE,
     seen |-> None, at |-> None, visited |-> {}, number |-> 0, outdated |-> FALSE]

NoPlacement == [k \in Kinds |-> None]
NoChecklist == [created |-> FALSE, tasks |-> {}, done |-> {}, stamped |-> FALSE]

\* The checklist, if the start has one, belongs to every subject of TASK.
Init ==
    \E s \in Starts :
        LET begun(e) == s.done # {None} /\ e \in Subjects["TASK"]
            number == CHOOSE n \in [Hired -> 1..Cardinality(Hired)] : IsInjective(n)
        IN
        /\ employee = [e \in People |->
             [present |-> e \in Hired, number |-> IF e \in Hired THEN number[e] ELSE 0,
              manager |-> s.manager[e], unit |-> NoPlacement, status |-> "ACTIVE",
              archived |-> FALSE,
              onboarding |-> IF ~begun(e) THEN "DRAFT"
                             ELSE IF s.done = Tasks THEN "COMPLETED" ELSE "IN_PROGRESS"]]
        /\ counter = Cardinality(Hired) + 1
        /\ checklist = [e \in People |->
             IF begun(e) THEN [created |-> TRUE, tasks |-> Tasks, done |-> s.done,
                               stamped |-> s.done = Tasks]
             ELSE NoChecklist]
        /\ history = <<>>
        /\ unit = [u \in Units |-> [active |-> TRUE, parent |-> None]]
        /\ call = [c \in Calls |-> Fresh]
        /\ dayEnd = [passed |-> FALSE, status |-> [e \in People |-> "ACTIVE"], straddled |-> {}]
        /\ agenda = s.agenda
-----------------------------------------------------------------------------
(* Queries                                                                 *)

Present == {e \in People : employee[e].present}

Reports(m) == {e \in Present : employee[e].manager = m /\ ~employee[e].archived}

\* Everything next reaches from the nodes of `from` in any number of steps.
Reach(next(_), from, nodes) ==
    LET within[n \in 0..Cardinality(nodes)] ==
            IF n = 0 THEN from
            ELSE LET nearer == within[n - 1] IN nearer \cup UNION {next(x) : x \in nearer}
    IN within[Cardinality(nodes)]

\* listTeamIds: the recursive query stops when it finds nobody new.
Team(m) == Reach(Reports, Reports(m), People) \ {m}

Scope(m) == {m} \cup Team(m)

EmployedIn(u) == {e \in Present : employee[e].unit[KindOf[u]] = u /\ ~employee[e].archived}

Up(n) == IF n \in People THEN employee[n].manager ELSE unit[n].parent

InFlight(c) == call[c].pc \notin {"new", "over", "lost"}

\* The changes of e's status recorded after the end of the day.
LaterChanges(e) ==
    {i \in DOMAIN history : /\ history[i].employee = e /\ history[i].event = "STATUS"
                            /\ history[i].late /\ history[i].by = None}

\* listEligibleEmployeeIdsAsOf: the status as of the end of the day is the one
\* before the first change recorded after it, if there is one.
StatusAsOfDayEnd(e) ==
    IF LaterChanges(e) = {} THEN employee[e].status ELSE history[Min(LaterChanges(e))].before
-----------------------------------------------------------------------------
(* Steps of a call                                                         *)

Over == [Fresh EXCEPT !.pc = "over"]

Become(c, q) == call' = [call EXCEPT ![c] = q]
Goto(c, pc)  == Become(c, [call[c] EXCEPT !.pc = pc])
Finish(c)    == Become(c, Over)

\* The calls whose checks a write of c may contradict.
Concern(op) ==
    CASE op \in {"ASSIGN", "ARCHIVE", "CREATE"} -> "line"
      [] op \in {"START", "TASK"} -> "onboarding"
      [] op \in {"PLACE", "SWITCH"} -> "placement"
      [] op = "MOVE" -> "departments"
      [] OTHER -> "none"

HasChecked(d) ==
    call[d].pc \in {"walk", "begin", "commit", "issue", "insert", "find", "checklist", "tasks",
                    "progress", "toggle", "remaining", "stamp", "settle", "write"}

\* c moves to q by a write that other calls have not seen.
WriteAs(c, q) ==
    call' = [d \in Calls |->
        IF d = c THEN q
        ELSE [call[d] EXCEPT !.outdated =
                @ \/ (HasChecked(d) /\ Concern(call[d].op) = Concern(call[c].op))]]

\* employee_history.created_at is the beginning of the transaction.
Dated(c, event) ==
    history' = Append(history,
        [employee |-> call[c].subject, event |-> event, before |-> call[c].seen,
         late |-> dayEnd.passed, by |-> c])

Visible(c) == history' = [i \in DOMAIN history |->
    IF history[i].by = c THEN [history[i] EXCEPT !.by = None] ELSE history[i]]

\* The row of a transaction that is rolled back, if it has written one.
Withdrawn(c) ==
    \/ \E i \in DOMAIN history : history[i].by = c /\ history' = RemoveAt(history, i)
    \/ (\A i \in DOMAIN history : history[i].by # c) /\ UNCHANGED history
-----------------------------------------------------------------------------
(* Requests                                                                *)

Arrive(c, q) ==
    /\ call[c].pc = "new" /\ q.op \in agenda /\ q.subject \in Subjects[q.op]
    /\ Become(c, q)
    /\ UNCHANGED <<employee, counter, checklist, history, unit, dayEnd, agenda>>

\* An update changes one field; the other fields of the form are as they were.
ArriveUpdate(c, e, lead, op, to) ==
    /\ e \in Present /\ op \in {"ASSIGN", "PLACE"}
    /\ to \in (IF op = "ASSIGN" THEN Present ELSE Units) \cup {None}
    /\ Arrive(c, [Fresh EXCEPT !.pc = "read", !.op = op, !.subject = e, !.lead = lead, !.to = to])

ArriveStatus(c, e, s) ==
    e \in Present /\ Arrive(c, [Fresh EXCEPT !.pc = "read", !.op = "STATUS", !.subject = e, !.to = s])

ArriveArchive(c, e) ==
    e \in Present /\ Arrive(c, [Fresh EXCEPT !.pc = "read", !.op = "ARCHIVE", !.subject = e])

ArriveStart(c, e) ==
    e \in Present /\ Arrive(c, [Fresh EXCEPT !.pc = "read", !.op = "START", !.subject = e])

ArriveTask(c, e, t, done) ==
    /\ e \in Present
    /\ Arrive(c, [Fresh EXCEPT !.pc = "read", !.op = "TASK", !.subject = e, !.to = t, !.flag = done])

\* The id of the new record is nobody else's.
ArriveCreate(c, n, m) ==
    /\ n \notin Present /\ \A d \in Calls : call[d].subject # n
    /\ m \in Present \cup {None}
    /\ Arrive(c, [Fresh EXCEPT !.pc = IF m = None THEN "issue" ELSE "manager",
                               !.op = "CREATE", !.subject = n, !.to = m])

\* The first comparison of assertNoCircularDepartmentHierarchy needs no read.
ArriveMove(c, d, p) ==
    /\ {d, p} \subseteq Departments \cup {None} /\ d # p
    /\ Arrive(c, [Fresh EXCEPT !.pc = IF p = None THEN "write" ELSE "walk", !.op = "MOVE",
                               !.subject = d, !.to = p, !.at = p])

ArriveSwitch(c, u, kind, active) ==
    /\ u \in Units /\ KindOf[u] = kind
    /\ Arrive(c, [Fresh EXCEPT !.pc = IF active THEN "write" ELSE "occupied", !.op = "SWITCH",
                               !.subject = u, !.flag = active])

SetDepartmentActive(c, u, active) == ArriveSwitch(c, u, "department", active)
SetDesignationActive(c, u, active) == ArriveSwitch(c, u, "designation", active)
SetBranchActive(c, u, active) == ArriveSwitch(c, u, "location", active)
-----------------------------------------------------------------------------
(* Employee records                                                        *)

\* The form's field that a placement changes; an unplacement clears the department.
FieldOf(to) == IF to = None THEN "department" ELSE KindOf[to]

\* existing: what the history will say was there before.
ReadEmployee(c) ==
    LET q == call[c]
        e == employee[q.subject]
    IN
    /\ q.pc = "read"
    /\ Become(c, [q EXCEPT
         !.seen = CASE q.op = "ASSIGN" -> e.manager
                    [] q.op = "PLACE" -> e.unit[FieldOf(q.to)]
                    [] q.op = "STATUS" -> e.status
                    [] q.op = "TASK" -> e.onboarding
                    [] OTHER -> None,
         !.pc = CASE q.op \in {"ASSIGN", "PLACE"} /\ q.lead # None -> "scope"
                  [] q.op = "ASSIGN" /\ q.to # None -> "manager"
                  [] q.op = "ARCHIVE" -> "count"
                  [] q.op \in {"START", "TASK"} -> "find"
                  [] OTHER -> "begin"])
    /\ UNCHANGED <<employee, counter, checklist, history, unit, dayEnd, agenda>>

\* A MANAGER may place people of their own reporting line, never themselves; the
\* form may repeat the reporting manager but not change it.
AssertManagerMayChange(c) ==
    LET q == call[c] IN
    /\ q.pc = "scope"
    /\ IF /\ q.subject \in Scope(q.lead) \ {q.lead}
          /\ q.op = "ASSIGN" => q.to = q.seen
       THEN Goto(c, IF q.op = "ASSIGN" /\ q.to # None THEN "manager" ELSE "begin")
       ELSE Finish(c)
    /\ UNCHANGED <<employee, counter, checklist, history, unit, dayEnd, agenda>>

AssertValidManager(c) ==
    LET q == call[c] IN
    /\ q.pc = "manager"
    /\ IF employee[q.to].archived \/ q.to = q.subject THEN Finish(c)
       ELSE Become(c, [q EXCEPT !.pc = IF q.op = "CREATE" THEN "issue" ELSE "walk", !.at = q.to])
    /\ UNCHANGED <<employee, counter, checklist, history, unit, dayEnd, agenda>>

\* A plausible bug: only the new manager's own manager is looked at.
WalkOneLevel(c) ==
    LET q == call[c] IN
    /\ q.pc = "walk"
    /\ IF Up(q.at) = q.subject THEN Finish(c)
       ELSE Goto(c, IF q.op = "MOVE" THEN "write" ELSE "begin")
    /\ UNCHANGED <<employee, counter, checklist, history, unit, dayEnd, agenda>>

\* assertNoCircular...Hierarchy: one row of the chain per read.
Walk(c) ==
    LET q == call[c]
        next == Up(q.at)
    IN
    /\ q.pc = "walk"
    /\ CASE next = q.subject -> Finish(c)
         [] next = None \/ (next # q.subject /\ q.at \in q.visited) ->
                Goto(c, IF q.op = "MOVE" THEN "write" ELSE "begin")
         [] OTHER -> Become(c, [q EXCEPT !.visited = @ \cup {q.at}, !.at = next])
    /\ UNCHANGED <<employee, counter, checklist, history, unit, dayEnd, agenda>>

EventOf(op) == CASE op = "ASSIGN" -> "MANAGER" [] op = "PLACE" -> "PLACEMENT" [] OTHER -> "STATUS"

BeginUpdate(c) ==
    /\ call[c].pc = "begin"
    /\ Goto(c, "commit")
    /\ Dated(c, EventOf(call[c].op))
    /\ UNCHANGED <<employee, counter, checklist, unit, dayEnd, agenda>>

\* The row with the fields of the form.
Updated(e, q) ==
    CASE q.op = "ASSIGN" -> [e EXCEPT !.manager = q.to]
      [] q.op = "PLACE" -> [e EXCEPT !.unit[FieldOf(q.to)] = q.to]
      [] q.op = "STATUS" -> [e EXCEPT !.status = q.to]
      [] OTHER -> [e EXCEPT !.archived = TRUE]

\* A plausible repair that is none: the transaction records the status it finds.
CommitRereading(c) ==
    LET q == call[c] IN
    /\ q.pc = "commit"
    /\ employee' = [employee EXCEPT ![q.subject] = Updated(@, q)]
    /\ WriteAs(c, Over)
    /\ history' = [i \in DOMAIN history |->
          IF history[i].by # c THEN history[i]
          ELSE [history[i] EXCEPT !.by = None,
                    !.before = IF q.op = "STATUS" THEN employee[q.subject].status ELSE @]]
    /\ UNCHANGED <<counter, checklist, unit, dayEnd, agenda>>

\* A field that is what it was leaves no history row; a status always does.
Commit(c) ==
    LET q == call[c] IN
    /\ q.pc = "commit"
    /\ employee' = [employee EXCEPT ![q.subject] = Updated(@, q)]
    /\ WriteAs(c, Over)
    /\ IF q.op \in {"ASSIGN", "PLACE"} /\ q.to = q.seen THEN Withdrawn(c) ELSE Visible(c)
    /\ UNCHANGED <<counter, checklist, unit, dayEnd, agenda>>

\* A plausible bug: an employee with reports can be archived.
CountNothing(c) ==
    /\ call[c].pc = "count"
    /\ Goto(c, "commit")
    /\ Dated(c, "ARCHIVED")
    /\ UNCHANGED <<employee, counter, checklist, unit, dayEnd, agenda>>

\* archiveEmployee: the count is the first statement of the transaction.
CountActiveDirectReports(c) ==
    /\ call[c].pc = "count"
    /\ IF Reports(call[c].subject) # {} THEN Finish(c) /\ UNCHANGED history
       ELSE Goto(c, "commit") /\ Dated(c, "ARCHIVED")
    /\ UNCHANGED <<employee, counter, checklist, unit, dayEnd, agenda>>

\* A plausible bug: the counter is read without keeping its row.
IssueUnlocked(c) ==
    /\ call[c].pc = "issue"
    /\ Become(c, [call[c] EXCEPT !.pc = "insert", !.number = counter])
    /\ Dated(c, "CREATED")
    /\ UNCHANGED <<employee, counter, checklist, unit, dayEnd, agenda>>

\* The counter's row stays locked until the transaction ends.
IssueNextNumber(c) ==
    /\ call[c].pc = "issue"
    /\ \A d \in Calls : call[d].pc # "insert"
    /\ Become(c, [call[c] EXCEPT !.pc = "insert", !.number = counter])
    /\ Dated(c, "CREATED")
    /\ UNCHANGED <<employee, counter, checklist, unit, dayEnd, agenda>>

\* Inserts the employee, or, when the work email or the number is taken, rolls
\* everything back.
Insert(c) ==
    LET q == call[c] IN
    /\ q.pc = "insert"
    /\ IF \E e \in Present : EmailOf[e] = EmailOf[q.subject] \/ employee[e].number = q.number
       THEN Finish(c) /\ Withdrawn(c) /\ UNCHANGED <<employee, counter, agenda>>
       ELSE /\ employee' = [employee EXCEPT ![q.subject].present = TRUE,
                                            ![q.subject].number = q.number,
                                            ![q.subject].manager = q.to]
            /\ counter' = q.number + 1
            /\ WriteAs(c, Over) /\ Visible(c)
    /\ UNCHANGED <<checklist, unit, dayEnd, agenda>>
-----------------------------------------------------------------------------
(* Onboarding: no transaction, every statement is committed by itself      *)

FindOnboarding(c) ==
    LET q == call[c]
        l == checklist[q.subject]
    IN
    /\ q.pc = "find"
    /\ CASE q.op = "START" -> IF l.created THEN Finish(c) ELSE Goto(c, "checklist")
         [] OTHER -> IF q.to \in l.tasks THEN Goto(c, "toggle") ELSE Finish(c)
    /\ UNCHANGED <<employee, counter, checklist, history, unit, dayEnd, agenda>>

\* employee_onboarding is unique by employee: the second of two starts fails.
CreateChecklist(c) ==
    LET q == call[c] IN
    /\ q.pc = "checklist"
    /\ IF checklist[q.subject].created THEN Finish(c) /\ UNCHANGED checklist
       ELSE /\ checklist' = [checklist EXCEPT ![q.subject].created = TRUE]
            /\ WriteAs(c, [q EXCEPT !.pc = "tasks"])
    /\ UNCHANGED <<employee, counter, history, unit, dayEnd, agenda>>

CreateTasks(c) ==
    LET q == call[c] IN
    /\ q.pc = "tasks"
    /\ checklist' = [checklist EXCEPT ![q.subject].tasks = Tasks]
    /\ WriteAs(c, [q EXCEPT !.pc = "progress"])
    /\ UNCHANGED <<employee, counter, history, unit, dayEnd, agenda>>

SetInProgress(c) ==
    LET q == call[c] IN
    /\ q.pc = "progress"
    /\ employee' = [employee EXCEPT ![q.subject].onboarding = "IN_PROGRESS"]
    /\ WriteAs(c, Over)
    /\ UNCHANGED <<counter, checklist, history, unit, dayEnd, agenda>>

SetCompleted(c) ==
    LET q == call[c] IN
    /\ q.pc = "toggle"
    /\ checklist' = [checklist EXCEPT ![q.subject].done =
                       IF q.flag THEN @ \cup {q.to} ELSE @ \ {q.to}]
    /\ WriteAs(c, [q EXCEPT !.pc = "remaining"])
    /\ UNCHANGED <<employee, counter, history, unit, dayEnd, agenda>>

\* A plausible bug: a checklist that was complete stays so.
CountOnlyForward(c) ==
    LET q == call[c]
        l == checklist[q.subject]
    IN
    /\ q.pc = "remaining"
    /\ IF l.tasks = l.done THEN Goto(c, "stamp") ELSE Finish(c)
    /\ UNCHANGED <<employee, counter, checklist, history, unit, dayEnd, agenda>>

\* countIncomplete, and the branch on the status read at the very beginning.
CountIncomplete(c) ==
    LET q == call[c]
        l == checklist[q.subject]
    IN
    /\ q.pc = "remaining"
    /\ CASE l.tasks = l.done -> Goto(c, "stamp")
         [] l.tasks # l.done /\ q.seen = "COMPLETED" -> Goto(c, "progress")
         [] OTHER -> Finish(c)
    /\ UNCHANGED <<employee, counter, checklist, history, unit, dayEnd, agenda>>

MarkCompleted(c) ==
    LET q == call[c] IN
    /\ q.pc = "stamp"
    /\ checklist' = [checklist EXCEPT ![q.subject].stamped = TRUE]
    /\ WriteAs(c, [q EXCEPT !.pc = "settle"])
    /\ UNCHANGED <<employee, counter, history, unit, dayEnd, agenda>>

SetOnboardingCompleted(c) ==
    LET q == call[c] IN
    /\ q.pc = "settle"
    /\ employee' = [employee EXCEPT ![q.subject].onboarding = "COMPLETED"]
    /\ WriteAs(c, Over)
    /\ UNCHANGED <<counter, checklist, history, unit, dayEnd, agenda>>
-----------------------------------------------------------------------------
(* Departments, designations and branches                                  *)

ExistsActiveIn(c) ==
    /\ call[c].pc = "occupied"
    /\ IF EmployedIn(call[c].subject) # {} THEN Finish(c) ELSE Goto(c, "write")
    /\ UNCHANGED <<employee, counter, checklist, history, unit, dayEnd, agenda>>

UpdateUnit(c) ==
    LET q == call[c] IN
    /\ q.pc = "write"
    /\ unit' = IF q.op = "MOVE" THEN [unit EXCEPT ![q.subject].parent = q.to]
               ELSE [unit EXCEPT ![q.subject].active = q.flag]
    /\ WriteAs(c, Over)
    /\ UNCHANGED <<employee, counter, checklist, history, dayEnd, agenda>>
-----------------------------------------------------------------------------
\* The server dies, or its connection does: a transaction is rolled back.
Crash(c) ==
    /\ InFlight(c)
    /\ Become(c, [Fresh EXCEPT !.pc = "lost"])
    /\ Withdrawn(c)
    /\ UNCHANGED <<employee, counter, checklist, unit, dayEnd, agenda>>

\* The work date ends.  straddled is history: the employees whose status is being
\* changed at that moment by a call that has read the old one.
EndOfDay ==
    /\ "DAYEND" \in agenda /\ ~dayEnd.passed
    /\ dayEnd' = [passed |-> TRUE, status |-> [e \in People |-> employee[e].status],
                  straddled |-> {e \in People : \E c \in Calls :
                                    /\ call[c].op = "STATUS" /\ call[c].subject = e
                                    /\ call[c].pc \in {"begin", "commit"}}]
    /\ UNCHANGED <<employee, counter, checklist, history, unit, call, agenda>>

Request(c) ==
    /\ call[c].pc = "new"
    /\ \/ \E e \in Subjects["ASSIGN"] \cup Subjects["PLACE"], lead \in Leads \cup {None},
             op \in {"ASSIGN", "PLACE"}, to \in Present \cup Units \cup {None} :
             ArriveUpdate(c, e, lead, op, to)
       \/ \E e \in Subjects["STATUS"], s \in Statuses : ArriveStatus(c, e, s)
       \/ \E e \in Subjects["ARCHIVE"] : ArriveArchive(c, e)
       \/ \E e \in Subjects["START"] : ArriveStart(c, e)
       \/ \E e \in Subjects["TASK"], t \in Tasks, done \in BOOLEAN : ArriveTask(c, e, t, done)
       \/ \E n \in Subjects["CREATE"], m \in Present \cup {None} : ArriveCreate(c, n, m)
       \/ \E d \in Subjects["MOVE"], p \in Departments \cup {None} : ArriveMove(c, d, p)
       \/ \E u \in Subjects["SWITCH"], active \in BOOLEAN :
             \/ SetDepartmentActive(c, u, active)
             \/ SetDesignationActive(c, u, active)
             \/ SetBranchActive(c, u, active)

Step(c) ==
    \/ ReadEmployee(c) \/ AssertManagerMayChange(c) \/ AssertValidManager(c) \/ Walk(c)
    \/ BeginUpdate(c) \/ Commit(c) \/ CountActiveDirectReports(c)
    \/ IssueNextNumber(c) \/ Insert(c)
    \/ FindOnboarding(c) \/ CreateChecklist(c) \/ CreateTasks(c) \/ SetInProgress(c)
    \/ SetCompleted(c) \/ CountIncomplete(c) \/ MarkCompleted(c) \/ SetOnboardingCompleted(c)
    \/ ExistsActiveIn(c) \/ UpdateUnit(c)

Next == EndOfDay \/ \E c \in Calls : Request(c) \/ Step(c) \/ Crash(c)

Spec == Init /\ [][Next]_vars
-----------------------------------------------------------------------------
(* Properties                                                              *)

\* The rows, the requests in flight and what each has read are well formed; only
\* a task that exists is ever completed.
TypeOK ==
    /\ employee \in [People -> Employee]
    /\ counter \in Nat \ {0}
    /\ checklist \in [People -> Checklist]
    /\ \A e \in People : checklist[e].done \subseteq checklist[e].tasks
    /\ history \in Seq(HistoryRow)
    /\ unit \in [Units -> Unit]
    /\ call \in [Calls -> Call]
    /\ dayEnd \in [passed: BOOLEAN, status: [People -> Statuses], straddled: SUBSET People]

\* Employee numbers are handed out once each and without gaps, whatever creations
\* run at the same time, fail on a taken email or die half way; and a creation is
\* never refused for its number.
NumbersUniqueAndGapless ==
    /\ \A c \in Calls : call[c].pc = "insert" => call[c].number = counter
    /\ \A d, e \in Present : employee[d].number = employee[e].number => d = e
    /\ {employee[e].number : e \in Present} = 1..(counter - 1)

\* The scheduled job judges eligibility by the status an employee had when the
\* work date ended: what listEligibleEmployeeIdsAsOf reconstructs from the
\* history is that status, however many changes overlap afterwards, unless a
\* change had read the status before that moment and was recorded after it.
StatusAsOfDayEndIsRight ==
    dayEnd.passed =>
        \A e \in Present \ dayEnd.straddled : StatusAsOfDayEnd(e) = dayEnd.status[e]

Writes(c) == call[c].pc \in {"commit", "insert", "write"} /\ call'[c].pc = "over"

\* Whoever is still above somebody after as many levels as there are records.
Cyclic(up) ==
    LET above[n \in 0..Cardinality(DOMAIN up)] ==
            IF n = 0 THEN DOMAIN up ELSE {up[x] : x \in above[n - 1]} \ {None}
    IN above[Cardinality(DOMAIN up)]

OnCycle == Cyclic([x \in People \cup Units |-> Up(x)])

\* assertNoCircularManagerHierarchy, assertNoCircularDepartmentHierarchy: a change
\* whose walk nobody else's change contradicts puts nobody on a cycle, also where
\* older cycles exist.  (Two overlapping changes can close one.)
NoCycleFromAFreshWalk ==
    [][\A c \in Calls : Writes(c) /\ ~call[c].outdated => OnCycle' \subseteq OnCycle]_vars

UnderArchived ==
    {e \in Present : /\ employee[e].manager # None /\ ~employee[e].archived
                     /\ employee[employee[e].manager].archived}

\* An archival, an assignment or a creation whose checks nobody else's change
\* contradicts leaves no active employee under an archived manager.
FreshChecksKeepManagersActive ==
    [][\A c \in Calls : Writes(c) /\ ~call[c].outdated => UnderArchived' \subseteq UnderArchived]_vars

Settled(e) ==
    (employee[e].onboarding = "COMPLETED") <=>
        (checklist[e].tasks # {} /\ checklist[e].done = checklist[e].tasks)

\* updateOnboardingTask: a task update that no other overlaps leaves the status
\* COMPLETED exactly when every task is, whatever calls that overlapped or died
\* have left behind.
TaskUpdateSettles ==
    [][\A c \in Calls, e \in People :
         /\ call[c].op = "TASK" /\ call[c].subject = e /\ ~call[c].outdated
         /\ call[c].pc \in {"remaining", "progress", "settle"} /\ call'[c].pc = "over"
         => Settled(e)']_vars

\* archiveEmployee: "the active-direct-report count is re-checked ... inside the
\* same transaction, to close the race-condition window between the check and the
\* write": no active employee has an archived manager.
NoReportOfAnArchivedManager == UnderArchived = {}
=============================================================================
