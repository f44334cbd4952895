------------------------------- MODULE Overview -------------------------------
(***************************************************************************)
(* What HR and managers are shown: the dashboard, the directory, the       *)
(* report and its export, the calendar of a month and the queue of         *)
(* exceptions, while employees and daily records change; and the dismissal *)
(* of exceptions.                                                          *)
(*                                                                         *)
(* A viewer asks for one page after another until the last.  A page is a   *)
(* request whose queries run side by side: each is a step of its own and   *)
(* sees what is committed by then.  Where a query's ORDER BY leaves rows   *)
(* tied, every order of them is possible, in each query anew.  How records *)
(* come about is the subject of AttendanceLedger and WorkDay: here one     *)
(* appears or changes.                                                     *)
(***************************************************************************)
EXTENDS Employees

CONSTANTS
    WorkDates, Today,   \* the dates looked at, and the dashboard's
    NameOf, IdOf,       \* what rows are ordered by; people may share a name
    DayRecords,         \* the records that are tried
    Written,            \* whose records of which date are written
    RecordStarts,       \* the records there may be at the start
    Viewers, Dismissers,
    Dismissable,        \* what dismissals are tried on
    Narrowings,         \* what listings and exports are narrowed to
    PageSize,
    MaxExportRows,      \* REPORT_MAX_EXPORT_ROWS
    MaxWrites           \* bound on the records written

Listings == {"dashboard", "directory", "report", "calendar", "exceptions"}
ViewOps  == Listings \cup {"export", "dismiss", "undismiss"}
Bad      == {"LATE", "INCOMPLETE", "ABSENT"}
Types    == Bad \cup {"EARLY_DEPARTURE"}
Labels   == Types \cup {"PRESENT"}
NoDate   == 0

DayStatuses == Labels \ {"EARLY_DEPARTURE"}

DayRecord == [status: DayStatuses, early: BOOLEAN]

\* The filters whose rows come and go: a status of the day, and a department, a
\* designation or a branch.  The others, above all a search, choose among the people.
Narrowing == [status: DayStatuses \cup {None}, unit: Units \cup {None}]

Everything == [status |-> None, unit |-> None]

ASSUME OverviewAssumption ==
    /\ WorkDates \subseteq Nat \ {NoDate} /\ IsFiniteSet(WorkDates) /\ Today \in WorkDates
    /\ NameOf \in [People -> Nat] /\ IdOf \in [People -> Nat] /\ IsInjective(IdOf)
    /\ DayRecords \subseteq DayRecord /\ None \notin DayRecords
    /\ Written \subseteq People \X WorkDates
    /\ RecordStarts \subseteq [People \X WorkDates -> DayRecords \cup {None}]
    /\ \A s \in RecordStarts, r \in People \X WorkDates : s[r] # None => r[1] \in Hired
    /\ Dismissable \subseteq People \X WorkDates \X Types
    /\ Narrowings \subseteq Narrowing
    /\ None \notin Viewers \cup Dismissers
    /\ PageSize \in Nat \ {0} /\ MaxExportRows \in Nat /\ MaxWrites \in Nat

VARIABLES
    record,     \* attendance_daily_records, None where there is no row
    dismissal,  \* attendance_exception_dismissals
    view,       \* what each viewer is doing
    noticed,    \* history: the exceptions that calls dismissing them have found
    writes      \* how many records have been written

viewVars == <<record, dismissal, view, noticed, writes>>
allVars  == <<vars, viewVars>>
-----------------------------------------------------------------------------
Row == People \X (WorkDates \cup {NoDate})
Dismissal == People \X WorkDates \X Types

\* pending: the page's queries that are still out.  shown: the rows of the pages
\* so far; named: the people of the dashboard's short lists.  History: line, whom
\* the viewer was allowed to see; disturbed, something has changed since the view
\* began; counted, the rows that the export's count has found.
View ==
    [pc: {"new", "scope", "queries", "cells", "answer", "count", "fetch", "exists", "upsert",
          "delete", "done", "refused"},
     op: ViewOps \cup {"NONE"}, lead: Leads \cup {None}, types: SUBSET Types,
     narrow: Narrowing, about: Dismissal \cup {None}, scope: SUBSET People,
     page: Nat, pending: SUBSET {"page", "total", "headcount", "counts", "lists"},
     last: SUBSET Row, shown: SUBSET Row, repeated: BOOLEAN, named: SUBSET People,
     total: Nat, headcount: Nat, counts: [Labels -> Nat], cells: Nat,
     line: SUBSET People, disturbed: BOOLEAN, counted: SUBSET Row]

NoView ==
    [pc |-> "new", op |-> "NONE", lead |-> None, types |-> {}, narrow |-> Everything,
     about |-> None, scope |-> People, page |-> 0, pending |-> {}, last |-> {}, shown |-> {},
     repeated |-> FALSE, named |-> {},
     total |-> 0, headcount |-> 0, counts |-> [l \in Labels |-> 0], cells |-> 0,
     line |-> {}, disturbed |-> FALSE, counted |-> {}]

OverviewInit ==
    /\ Init
    /\ record \in RecordStarts
    /\ dismissal = {} /\ noticed = {} /\ writes = 0
    /\ view = [v \in Viewers \cup Dismissers |-> NoView]
-----------------------------------------------------------------------------
(* Queries                                                                 *)

Unarchived == {e \in Present : ~employee[e].archived}

Active == {e \in Unarchived : employee[e].status = "ACTIVE"}

Recorded == {r \in Present \X WorkDates : record[r] # None}

\* exceptionTypeCase: a bad status comes before an early departure.
ExceptionType(r) ==
    CASE record[r].status \in Bad -> record[r].status
      [] record[r].status \notin Bad /\ record[r].early -> "EARLY_DEPARTURE"
      [] OTHER -> None

\* Plausible bug: whatever was dismissed of the day hides the day.
DismissedDay(r) == \E t \in Types : <<r[1], r[2], t>> \in dismissal

\* dismissalJoinCondition
Dismissed(r) == <<r[1], r[2], ExceptionType(r)>> \in dismissal

Exceptions(types, includeDismissed) ==
    {r \in Recorded : /\ ExceptionType(r) # None
                      /\ types = {} \/ ExceptionType(r) \in types
                      /\ includeDismissed \/ ~Dismissed(r)}

InUnit(q, e) == q.narrow.unit = None \/ employee[e].unit[KindOf[q.narrow.unit]] = q.narrow.unit

HasStatus(q, r) == q.narrow.status = None \/ (r \in Recorded /\ record[r].status = q.narrow.status)

\* The rows of a listing, over all its pages; of the report and its export at the end.
Rows(q) ==
    CASE q.op = "dashboard" ->
            {e \in Active \cap q.scope : InUnit(q, e) /\ HasStatus(q, <<e, Today>>)} \X {NoDate}
      [] q.op = "directory" -> {e \in Unarchived \cap q.scope : InUnit(q, e)} \X {NoDate}
      [] q.op = "calendar" -> {e \in Present : InUnit(q, e)} \X {NoDate}
      [] q.op = "exceptions" -> {r \in Exceptions(q.types, FALSE) : InUnit(q, r[1])}
      [] OTHER -> {r \in Recorded : InUnit(q, r[1]) /\ HasStatus(q, r)}

Having(rows, l) == Cardinality({r \in rows : record[r].status = l})

\* The records that the summary of a listing counts: the dashboard's takes no filter.
Summarised(q) ==
    CASE q.op = "dashboard" -> Recorded \cap ((Active \cap q.scope) \X {Today})
      [] q.op = "calendar" -> {r \in Recorded : InUnit(q, r[1])}
      [] OTHER -> Rows(q)

\* Records by status, exceptions by type.
Counts(q) ==
    [l \in Labels |->
        IF q.op = "exceptions" THEN Cardinality({r \in Summarised(q) : ExceptionType(r) = l})
        ELSE Having(Summarised(q), l)]

\* Plausible bug: people of one name are in no order.
BeforeByName(op, a, b) == a[2] > b[2] \/ (a[2] = b[2] /\ NameOf[a[1]] < NameOf[b[1]])

\* ORDER BY: the latest date first, then the name; then the id, except in the
\* dashboard's table and the directory.
Before(op, a, b) ==
    \/ a[2] > b[2]
    \/ a[2] = b[2] /\ NameOf[a[1]] < NameOf[b[1]]
    \/ /\ a[2] = b[2] /\ NameOf[a[1]] = NameOf[b[1]]
       /\ op \notin {"dashboard", "directory"} /\ IdOf[a[1]] < IdOf[b[1]]

Leading(op, part, rows) == \A a \in part, b \in rows \ part : ~Before(op, b, a)

\* LIMIT size OFFSET skipped: what the rows of a page may be.
PagesOf(op, rows, skipped, size) ==
    LET n == Cardinality(rows)
        from == IF skipped <= n THEN skipped ELSE n
        many == IF from + size <= n THEN size ELSE n - from
    IN {p \in kSubset(many, rows) :
            \E before \in kSubset(from, rows \ p) :
                Leading(op, before, rows) /\ Leading(op, before \cup p, rows)}

See(v, q) == view' = [view EXCEPT ![v] = q]

\* Every view but v's, which becomes q, has something changed under it.
SeeAs(v, q) ==
    view' = [w \in Viewers \cup Dismissers |->
        IF w = v THEN q
        ELSE IF view[w].pc = "new" THEN view[w]
        ELSE [view[w] EXCEPT !.disturbed = TRUE]]

ViewOnly == UNCHANGED <<vars, record, dismissal, noticed, writes>>
-----------------------------------------------------------------------------
(* Listings                                                                *)

QueriesOf(op) ==
    CASE op = "directory" -> {"page", "total"}
      [] op = "dashboard" -> {"page", "total", "headcount", "counts", "lists"}
      [] OTHER -> {"page", "total", "counts"}

\* A request for a page: a MANAGER's is narrowed to the reporting line first.
Asking(q, n) ==
    [q EXCEPT !.pc = IF q.lead = None THEN "queries" ELSE "scope",
              !.page = n, !.pending = QueriesOf(q.op)]

Open(v, op, lead, types, narrow) ==
    /\ view[v].pc = "new" /\ op \in agenda \cap Listings
    /\ lead # None => op \in {"dashboard", "directory"}
    /\ types # {} => op = "exceptions"
    /\ narrow.status # None => op \in {"dashboard", "report"}
    /\ See(v, Asking([NoView EXCEPT !.op = op, !.lead = lead, !.types = types, !.narrow = narrow], 1))
    /\ ViewOnly

GetEmployeeScope(v) ==
    LET q == view[v] IN
    /\ q.pc = "scope"
    /\ See(v, [q EXCEPT !.pc = "queries", !.scope = Scope(q.lead), !.line = @ \cup Scope(q.lead)])
    /\ ViewOnly

Answered(q, query) ==
    LET left == q.pending \ {query} IN
    [q EXCEPT !.pending = left,
              !.pc = IF left # {} THEN "queries" ELSE IF q.op = "calendar" THEN "cells" ELSE "answer"]

ReadPage(v) ==
    LET q == view[v] IN
    /\ q.pc = "queries" /\ "page" \in q.pending
    /\ \E p \in PagesOf(q.op, Rows(q), (q.page - 1) * PageSize, PageSize) :
         See(v, [Answered(q, "page") EXCEPT
                    !.last = p, !.shown = @ \cup p, !.repeated = @ \/ q.shown \cap p # {}])
    /\ ViewOnly

ReadTotal(v) ==
    LET q == view[v] IN
    /\ q.pc = "queries" /\ "total" \in q.pending
    /\ See(v, [Answered(q, "total") EXCEPT !.total = Cardinality(Rows(q))])
    /\ ViewOnly

\* countActiveEmployees: of the whole line, whatever the table is narrowed to.
ReadHeadcount(v) ==
    LET q == view[v] IN
    /\ q.pc = "queries" /\ "headcount" \in q.pending
    /\ See(v, [Answered(q, "headcount") EXCEPT !.headcount = Cardinality(Active \cap q.scope)])
    /\ ViewOnly

ReadCounts(v) ==
    LET q == view[v] IN
    /\ q.pc = "queries" /\ "counts" \in q.pending
    /\ See(v, [Answered(q, "counts") EXCEPT !.counts = Counts(q)])
    /\ ViewOnly

\* The dashboard's late arrivals and incomplete days: by the record alone, then
\* narrowed to the reporting line.
ReadLists(v) ==
    LET q == view[v] IN
    /\ q.pc = "queries" /\ "lists" \in q.pending
    /\ See(v, [Answered(q, "lists") EXCEPT
                  !.named = {e \in Present \cap q.scope :
                                /\ <<e, Today>> \in Recorded
                                /\ record[<<e, Today>>].status \in {"LATE", "INCOMPLETE"}}])
    /\ ViewOnly

\* The calendar's cells, read for the people of the page just read.
ReadCells(v) ==
    LET q == view[v] IN
    /\ q.pc = "cells"
    /\ See(v, [q EXCEPT !.pc = "answer",
                        !.cells = @ + Cardinality({r \in Recorded : <<r[1], NoDate>> \in q.last})])
    /\ ViewOnly

TurnPage(v) ==
    LET q == view[v] IN
    /\ q.pc = "answer"
    /\ See(v, IF q.page * PageSize < q.total THEN Asking(q, q.page + 1) ELSE [q EXCEPT !.pc = "done"])
    /\ ViewOnly
-----------------------------------------------------------------------------
(* The export of the report                                                *)

OpenExport(v, narrow) ==
    /\ view[v].pc = "new" /\ "export" \in agenda
    /\ See(v, [NoView EXCEPT !.pc = "count", !.op = "export", !.narrow = narrow])
    /\ ViewOnly

\* Plausible bug: an off-by-one in the limit.
CountForExportLoosely(v) ==
    LET q == view[v] IN
    /\ q.pc = "count"
    /\ See(v, [q EXCEPT !.total = Cardinality(Rows(q)), !.counted = Rows(q),
                        !.pc = IF Cardinality(Rows(q)) > MaxExportRows + 1 THEN "refused" ELSE "fetch"])
    /\ ViewOnly

CountForExport(v) ==
    LET q == view[v] IN
    /\ q.pc = "count"
    /\ See(v, [q EXCEPT !.total = Cardinality(Rows(q)), !.counted = Rows(q),
                        !.pc = IF Cardinality(Rows(q)) > MaxExportRows THEN "refused" ELSE "fetch"])
    /\ ViewOnly

FetchForExport(v) ==
    LET q == view[v] IN
    /\ q.pc = "fetch"
    /\ \E p \in PagesOf("report", Rows(q), 0, MaxExportRows) : See(v, [q EXCEPT !.pc = "done", !.shown = p])
    /\ ViewOnly
-----------------------------------------------------------------------------
(* Dismissals                                                              *)

OpenDismissal(v, about) ==
    /\ view[v].pc = "new"
    /\ \E op \in agenda \cap {"dismiss", "undismiss"} :
         See(v, [NoView EXCEPT !.pc = IF op = "dismiss" THEN "exists" ELSE "delete",
                               !.op = op, !.about = about])
    /\ ViewOnly

\* assertExceptionCurrentlyExists: the queue's own query, dismissed ones included.
ExceptionExists(v) ==
    LET q == view[v]
        r == <<q.about[1], q.about[2]>>
        found == r \in Exceptions({q.about[3]}, TRUE)
    IN
    /\ q.pc = "exists"
    /\ See(v, [q EXCEPT !.pc = IF found THEN "upsert" ELSE "refused"])
    /\ noticed' = IF found THEN noticed \cup {q.about} ELSE noticed
    /\ UNCHANGED <<vars, record, dismissal, writes>>

\* Unique by employee, date and type: a second dismissal replaces the first.
Dismiss(v) ==
    LET q == view[v] IN
    /\ q.pc = "upsert"
    /\ dismissal' = dismissal \cup {q.about}
    /\ SeeAs(v, [q EXCEPT !.pc = "done"])
    /\ UNCHANGED <<vars, record, noticed, writes>>

Undismiss(v) ==
    LET q == view[v] IN
    /\ q.pc = "delete"
    /\ dismissal' = dismissal \ {q.about}
    /\ SeeAs(v, [q EXCEPT !.pc = IF q.about \in dismissal THEN "done" ELSE "refused"])
    /\ UNCHANGED <<vars, record, noticed, writes>>
-----------------------------------------------------------------------------
(* The rest of the world                                                   *)

\* A daily record is inserted, or replaced by a recalculation; none is deleted.
WriteRecord ==
    /\ "record" \in agenda /\ writes < MaxWrites
    /\ \E r \in Written, new \in DayRecords :
         /\ r[1] \in Present /\ record[r] # new
         /\ record' = [record EXCEPT ![r] = new]
         /\ SeeAs(None, NoView)
    /\ writes' = writes + 1
    /\ UNCHANGED <<vars, dismissal, noticed>>

EmployeesChange ==
    /\ Next
    /\ IF employee' = employee THEN UNCHANGED view ELSE SeeAs(None, NoView)
    /\ UNCHANGED <<record, dismissal, noticed, writes>>

ViewStep(v) ==
    \/ \E op \in Listings, lead \in Leads \cup {None}, types \in {{}, {"LATE"}, Bad},
          narrow \in Narrowings : Open(v, op, lead, types, narrow)
    \/ GetEmployeeScope(v) \/ ReadPage(v) \/ ReadTotal(v) \/ ReadHeadcount(v)
    \/ ReadCounts(v) \/ ReadLists(v) \/ ReadCells(v) \/ TurnPage(v)
    \/ \E narrow \in Narrowings : OpenExport(v, narrow)
    \/ CountForExport(v) \/ FetchForExport(v)

DismissalStep(v) ==
    \/ \E about \in Dismissable : OpenDismissal(v, about)
    \/ ExceptionExists(v) \/ Dismiss(v) \/ Undismiss(v)

OverviewNext ==
    \/ EmployeesChange \/ WriteRecord
    \/ \E v \in Viewers : ViewStep(v)
    \/ \E v \in Dismissers : DismissalStep(v)

OverviewSpec == OverviewInit /\ [][OverviewNext]_allVars
-----------------------------------------------------------------------------
(* Properties                                                              *)

\* The rows and the views in flight are well formed.
OverviewTypeOK ==
    /\ TypeOK
    /\ record \in [People \X WorkDates -> DayRecords \cup {None}]
    /\ dismissal \subseteq Dismissal /\ noticed \subseteq Dismissal
    /\ view \in [Viewers \cup Dismissers -> View]
    /\ writes \in 0..MaxWrites

\* Somebody has gone through all pages of a listing and nothing changed meanwhile.
Undisturbed(q) == q.pc = "done" /\ q.op \in Listings /\ ~q.disturbed

SumOf(counts) == FoldFunction(LAMBDA n, total : n + total, 0, counts)

\* The ORDER BY leaves no two rows of the listing tied.
Ordered(q) == \A a, b \in Rows(q) : a = b \/ Before(q.op, a, b) \/ Before(q.op, b, a)

\* Whoever goes through the pages of a listing while nothing changes sees every row
\* that matches, none of them twice, and the total says how many they are: always in
\* the report, the calendar and the exception queue, people who share a name
\* included; on the dashboard and in the directory, if no two people listed do.
EveryRowShownOnce ==
    \A v \in Viewers :
        LET q == view[v] IN
        Undisturbed(q) /\ (q.op \in {"report", "calendar", "exceptions"} \/ Ordered(q))
        => q.shown = Rows(q) /\ ~q.repeated /\ q.total = Cardinality(q.shown)

\* The figures above a listing agree with each other and with its rows, although
\* separate queries count them: on the dashboard, whoever is in no status has no
\* record, and the short lists show at least whom the counts count.  Of the exception
\* queue only while it is not narrowed by type: the code then narrows its summary too,
\* which is meant to count every type.
SummariesAddUp ==
    \A v \in Viewers :
        LET q == view[v]
            recorded == SumOf(q.counts)
        IN Undisturbed(q) =>
            CASE q.op = "dashboard" ->
                    /\ q.headcount - recorded =
                         Cardinality({e \in Active \cap q.scope : <<e, Today>> \notin Recorded})
                    /\ q.counts["LATE"] + q.counts["INCOMPLETE"] = Cardinality(q.named \cap Active)
              [] q.op = "report" \/ (q.op = "exceptions" /\ q.types = {}) -> recorded = q.total
              [] q.op = "calendar" -> recorded = q.cells
              [] OTHER -> TRUE

\* What the queue leaves out although it is an exception has been seen by HR as
\* that exception when it was dismissed: a day that has become another exception
\* since is not hidden, whatever recalculations and dismissals overlapped.
HiddenOnlyIfSeen ==
    \A r \in Exceptions({}, TRUE) \ Exceptions({}, FALSE) : <<r[1], r[2], ExceptionType(r)>> \in noticed

\* assertExportRowLimit: an export that is not refused misses no more of the rows
\* that match than have come to match since they were counted, by insertion, by
\* recalculation or because somebody was moved; none, if none has.
ExportMissesOnlyForWhatCame ==
    [][\A v \in Viewers : view[v].pc = "fetch" /\ view'[v].pc = "done" =>
          LET matching == Rows(view[v])
              missed == matching \ view'[v].shown
          IN Cardinality(missed) <= Cardinality(matching \ view[v].counted)]_allVars

\* Whoever a MANAGER is shown, on any page and in any list, was in the manager's
\* line when a request for it began.
ManagerSeesOwnLine ==
    \A v \in Viewers : view[v].lead # None =>
        view[v].named \cup {r[1] : r \in view[v].shown} \subseteq view[v].line

\* What the pages show: their rows, the figures above them, and whose they are.
PagesAreRight == EveryRowShownOnce /\ SummariesAddUp /\ ManagerSeesOwnLine
=============================================================================
