------------------------------- MODULE Forms -------------------------------
(***************************************************************************)
(* The forms through which shifts, work schedules, holidays and employees  *)
(* are created and edited, from what a row looks like in its table to what *)
(* the database holds after the request: the panel's state in each browser *)
(* tab, the request it sends, the route and service that serve it, the     *)
(* answer, which may be late or lost, and the refresh of the shown rows.   *)
(*                                                                         *)
(* A row maps the columns of its table to numbers; Blank stands for null   *)
(* in a row and for the empty string in a form.  A payload maps the keys   *)
(* that are sent: a key whose value is undefined is not sent.  Of a        *)
(* checkbox, 1 is off and 2 is on.  Times are of whole minutes, as the     *)
(* inputs make them.                                                       *)
(***************************************************************************)
EXTENDS Naturals, FiniteSets, TLC

CONSTANTS
    Tabs,           \* the browser tabs in which a form may be used
    Calls,          \* the requests they may send
    Ids,            \* the ids of rows
    None,           \* no row, no call
    Scenes          \* which panel is shown, in which tabs, with which rows and requests;
                    \* what is entered in which fields, how many of them each time a
                    \* form is opened, and how often that may be in a tab

VARIABLES
    scene,          \* the member of Scenes that is played
    rows,           \* the rows of the panel's table
    tab,            \* the state of the panel in each tab
    call            \* the requests

formVars == <<scene, rows, tab, call>>

Blank == 0

\* The keys that are sent replace the columns of their name: an object spread, and
\* update().set(input).
Over(sent, columns) ==
    [k \in (DOMAIN sent) \cup (DOMAIN columns) |-> IF k \in DOMAIN sent THEN sent[k] ELSE columns[k]]

Panels == {"shifts", "schedules", "holidays", "employee"}

-----------------------------------------------------------------------------
(* What the four panels hold, show and send.                               *)

EmptyShift ==
    [name |-> Blank, code |-> Blank, startTime |-> 1, endTime |-> 2,
     breakDurationMinutes |-> Blank, breakStartTime |-> Blank, isBreakPaid |-> 1,
     gracePeriodMinutes |-> 1]

\* The columns have the names of the form's fields, and null becomes "".
ShiftForm(row) == row.fields

Given(form, keys) == [k \in {f \in keys : form[f] # Blank} |-> form[k]]

ShiftPayload(form, includeCode) ==
    Given(form, IF includeCode THEN DOMAIN form ELSE DOMAIN form \ {"code"})

ShiftInputs(editing) ==
    [required |-> {"name", "code", "startTime", "endTime"},
     enabled |-> DOMAIN EmptyShift \ (IF editing = None THEN {} ELSE {"code"})]

EmptySchedule ==
    [name |-> Blank, description |-> Blank, timezone |-> Blank, startTime |-> 1, endTime |-> 2,
     breakDurationMinutes |-> Blank, breakStartTime |-> Blank, isBreakPaid |-> 1,
     effectiveFrom |-> Blank, effectiveTo |-> Blank]

ScheduleForm(row) == row.fields

SchedulePayload(form) == Given(form, DOMAIN form)

ScheduleInputs ==
    [required |-> {"name", "startTime", "endTime"}, enabled |-> DOMAIN EmptySchedule]

FirstBranch == 1

EmptyHoliday ==
    [name |-> Blank, date |-> Blank, holidayType |-> 1, description |-> Blank,
     scope |-> "company", branchId |-> FirstBranch]

\* A holiday as it is stored when nothing is sent.
NoHoliday ==
    [name |-> Blank, date |-> Blank, holidayType |-> Blank, description |-> Blank,
     branchId |-> Blank]

HolidayForm(row) ==
    [f \in DOMAIN EmptyHoliday |->
        CASE f = "scope" -> IF row.fields.branchId # Blank THEN "branch" ELSE "company"
          [] f = "branchId" /\ row.fields.branchId = Blank -> FirstBranch
          [] OTHER -> row.fields[f]]

HolidayPayload(form, editing) ==
    LET chosen == IF form.scope = "branch" THEN {"branchId"} ELSE {}
    IN  Given(form, {"name", "holidayType", "description"}
                    \cup (IF editing = None THEN {"date"} \cup chosen ELSE {}))

HolidayInputs(editing) ==
    [required |-> {"name"} \cup (IF editing = None THEN {"date"} ELSE {}),
     enabled |-> {"name", "holidayType", "description"}
                 \cup (IF editing = None THEN {"date", "scope"} ELSE {})]

EmployeeRequired == {"firstName", "lastName", "workEmail", "dateOfJoining"}

EmployeeFields ==
    EmployeeRequired \cup
    {"middleName", "preferredName", "dateOfBirth", "gender", "nationality", "personalEmail",
     "phone", "alternatePhone", "address", "city", "state", "country", "postalCode",
     "departmentId", "designationId", "locationId", "managerId", "employmentType",
     "probationEndDate", "emergencyContactName", "emergencyContactPhone",
     "emergencyContactRelationship"}

EmptyEmployee == [f \in EmployeeFields |-> IF f = "employmentType" THEN 1 ELSE Blank]

\* The page's initialValues: every column of the employee, null as "".
EmployeeForm(row) == row.fields

\* A blank optional field is sent as null when an employee is edited.
EmployeePayload(form, editing) ==
    [k \in {f \in DOMAIN form : form[f] # Blank \/ (editing # None /\ f \notin EmployeeRequired)}
        |-> form[k]]

EmployeeInputs ==
    [required |-> EmployeeRequired, enabled |-> EmployeeFields]

\* The rows of a panel's table.
Columns(p) ==
    CASE p = "shifts"    -> DOMAIN EmptyShift
      [] p = "schedules" -> DOMAIN EmptySchedule
      [] p = "holidays"  -> DOMAIN NoHoliday
      [] p = "employee"  -> EmployeeFields

RowsOf(p) == [fields: [Columns(p) -> Nat], isActive: BOOLEAN]

ASSUME ScenesAssumption ==
    /\ None \notin Ids \cup Calls
    /\ \A s \in Scenes :
          /\ s.panel \in Panels
          /\ s.rows \in [Ids -> {None} \cup RowsOf(s.panel)] /\ None \notin RowsOf(s.panel)
          /\ \A f \in DOMAIN s.entered :
                s.entered[f] \subseteq IF f = "scope" THEN {"company", "branch"} ELSE Nat

\* The buttons next to row id of a table: "Edit", which nothing disables, and
\* "Archive" or "Restore", disabled only while its own request is out.
ActiveButton(t, id) ==
    IF tab[t].archiving = id THEN {}
    ELSE {IF tab[t].shown[id].isActive THEN "DELETE" ELSE "RESTORE"}

ShiftRowActions(t, id) == {"edit"} \cup ActiveButton(t, id)
ScheduleRowActions(t, id) == {"edit"} \cup ActiveButton(t, id)
HolidayRowActions(t, id) == {"edit"} \cup ActiveButton(t, id)

-----------------------------------------------------------------------------
(* The panel's handlers in a tab.                                          *)

NoRows == [i \in Ids |-> None]
Shown(t) == {i \in Ids : tab[t].shown[i] # None}

Tab(snapshot) ==
    [loaded |-> TRUE, open |-> FALSE, editing |-> None, form |-> <<>>, formError |-> FALSE, listError |-> FALSE,
     submitting |-> FALSE, archiving |-> None, shown |-> snapshot, refreshing |-> FALSE,
     sent |-> None, typed |-> {}, from |-> None, opened |-> 0]

NotLoaded == [Tab(NoRows) EXCEPT !.loaded = FALSE]

NoCall == [state |-> "new"]
NextCall ==
    LET unsent == {c \in scene.calls : call[c] = NoCall}
    IN  IF unsent = {} THEN None ELSE CHOOSE c \in unsent : TRUE

FormsInit ==
    /\ scene \in Scenes
    /\ rows = scene.rows
    /\ tab = [t \in Tabs |-> NotLoaded]
    /\ call = [c \in Calls |-> NoCall]

InTab(t, p) == scene.panel = p /\ tab[t].loaded

\* The panel's page is loaded; a reload is a tab of its own, whose requests nobody
\* waits for.
Load(t) ==
    /\ t \in scene.tabs
    /\ tab[t] = NotLoaded
    /\ tab' = [tab EXCEPT ![t] = Tab(rows)]
    /\ UNCHANGED <<scene, rows, call>>

\* Mutant: the form is filled once, when it is first opened.
OpenFormOnce(t, id, form, row) ==
    /\ ~tab[t].open
    /\ tab[t].opened < scene.maxOpened
    /\ tab' = [tab EXCEPT ![t].editing = id, ![t].form = IF tab[t].opened = 0 THEN form ELSE @,
                          ![t].formError = FALSE, ![t].open = TRUE, ![t].typed = {},
                          ![t].from = row, ![t].opened = @ + 1]
    /\ UNCHANGED <<scene, rows, call>>

\* setEditing, setForm, setFormError(null), setOpen(true).
OpenForm(t, id, form, row) ==
    /\ ~tab[t].open
    /\ tab[t].opened < scene.maxOpened
    /\ tab' = [tab EXCEPT ![t].editing = id, ![t].form = form, ![t].formError = FALSE,
                          ![t].open = TRUE, ![t].typed = {}, ![t].from = row, ![t].opened = @ + 1]
    /\ UNCHANGED <<scene, rows, call>>

\* The event of an enabled input.
TypeInto(t, enabled) ==
    /\ tab[t].open
    /\ Cardinality(tab[t].typed) < scene.maxTyped
    /\ \E f \in (enabled \cap DOMAIN scene.entered) \ tab[t].typed : \E v \in scene.entered[f] :
          tab' = [tab EXCEPT ![t].form[f] = v, ![t].typed = @ \cup {f}]
    /\ UNCHANGED <<scene, rows, call>>

\* handleSubmit up to its await: the browser holds back a form whose required
\* inputs are blank, and the button is disabled while a submission is out.
SubmitForm(t, c, payload, required) ==
    /\ tab[t].open /\ ~tab[t].submitting
    /\ \A f \in required : tab[t].form[f] # Blank
    /\ c = NextCall
    /\ tab' = [tab EXCEPT ![t].submitting = TRUE, ![t].formError = FALSE, ![t].sent = c]
    /\ call' = [call EXCEPT ![c] =
          [state |-> "sent", verb |-> IF tab[t].editing = None THEN "POST" ELSE "PATCH",
           tab |-> t, id |-> tab[t].editing, payload |-> payload, waiting |-> TRUE,
           typed |-> tab[t].typed, from |-> tab[t].from, opened |-> tab[t].opened,
           existing |-> None, logged |-> {}]]
    /\ UNCHANGED <<scene, rows>>

\* handleSetActive up to its await.
SendActive(t, id, c, verb) ==
    /\ ~tab[t].open
    /\ c = NextCall
    /\ tab' = [tab EXCEPT ![t].archiving = id, ![t].listError = FALSE]
    /\ call' = [call EXCEPT ![c] =
          [state |-> "sent", verb |-> verb, tab |-> t, id |-> id, payload |-> <<>>,
           waiting |-> TRUE, typed |-> {}, from |-> None, opened |-> tab[t].opened,
           existing |-> None, logged |-> {}]]
    /\ UNCHANGED <<scene, rows>>

\* The dialog's Cancel and its close button, which nothing disables.
CloseForm(t) ==
    /\ tab[t].open
    /\ tab' = [tab EXCEPT ![t].open = FALSE]
    /\ UNCHANGED <<scene, rows, call>>

OpenCreateShift(t) == InTab(t, "shifts") /\ OpenForm(t, None, EmptyShift, None)

OpenEditShift(t) ==
    /\ InTab(t, "shifts")
    /\ \E id \in Shown(t) :
          /\ "edit" \in ShiftRowActions(t, id)
          /\ OpenForm(t, id, ShiftForm(tab[t].shown[id]), tab[t].shown[id])

TypeShift(t) == InTab(t, "shifts") /\ TypeInto(t, ShiftInputs(tab[t].editing).enabled)

SaveShift(t, c) ==
    /\ InTab(t, "shifts")
    /\ SubmitForm(t, c, ShiftPayload(tab[t].form, tab[t].editing = None),
                  ShiftInputs(tab[t].editing).required)

SetShiftActive(t, c) ==
    /\ InTab(t, "shifts")
    /\ \E id \in Shown(t) : \E verb \in ShiftRowActions(t, id) \ {"edit"} :
          SendActive(t, id, c, verb)

OpenCreateSchedule(t) == InTab(t, "schedules") /\ OpenForm(t, None, EmptySchedule, None)

OpenEditSchedule(t) ==
    /\ InTab(t, "schedules")
    /\ \E id \in Shown(t) :
          /\ "edit" \in ScheduleRowActions(t, id)
          /\ OpenForm(t, id, ScheduleForm(tab[t].shown[id]), tab[t].shown[id])

TypeSchedule(t) == InTab(t, "schedules") /\ TypeInto(t, ScheduleInputs.enabled)

SaveSchedule(t, c) ==
    InTab(t, "schedules") /\ SubmitForm(t, c, SchedulePayload(tab[t].form), ScheduleInputs.required)

SetScheduleActive(t, c) ==
    /\ InTab(t, "schedules")
    /\ \E id \in Shown(t) : \E verb \in ScheduleRowActions(t, id) \ {"edit"} :
          SendActive(t, id, c, verb)

OpenCreateHoliday(t) == InTab(t, "holidays") /\ OpenForm(t, None, EmptyHoliday, None)

OpenEditHoliday(t) ==
    /\ InTab(t, "holidays")
    /\ \E id \in Shown(t) :
          /\ "edit" \in HolidayRowActions(t, id)
          /\ OpenForm(t, id, HolidayForm(tab[t].shown[id]), tab[t].shown[id])

TypeHoliday(t) == InTab(t, "holidays") /\ TypeInto(t, HolidayInputs(tab[t].editing).enabled)

SaveHoliday(t, c) ==
    /\ InTab(t, "holidays")
    /\ SubmitForm(t, c, HolidayPayload(tab[t].form, tab[t].editing),
                  HolidayInputs(tab[t].editing).required)

SetHolidayActive(t, c) ==
    /\ InTab(t, "holidays")
    /\ \E id \in Shown(t) : \E verb \in HolidayRowActions(t, id) \ {"edit"} :
          SendActive(t, id, c, verb)

\* The employee form is a page of its own: opening it mounts a new form and, to
\* edit, reads the employee afresh.
OpenEmployee(t) ==
    /\ InTab(t, "employee")
    /\ ~tab[t].open /\ tab[t].opened < scene.maxOpened
    /\ \E id \in {None} \cup {i \in Ids : rows[i] # None} :
          tab' = [tab EXCEPT ![t] =
             [Tab(rows) EXCEPT !.open = TRUE, !.editing = id, !.opened = tab[t].opened + 1,
                !.form = IF id = None THEN EmptyEmployee ELSE EmployeeForm(rows[id]),
                !.from = IF id = None THEN None ELSE rows[id]]]
    /\ UNCHANGED <<scene, rows, call>>

TypeEmployee(t) == InTab(t, "employee") /\ TypeInto(t, EmployeeInputs.enabled)

SaveEmployee(t, c) ==
    /\ InTab(t, "employee")
    /\ SubmitForm(t, c, EmployeePayload(tab[t].form, tab[t].editing), EmployeeInputs.required)

-----------------------------------------------------------------------------
(* The routes and services that serve the requests.                        *)

Row(fields) == [fields |-> fields, isActive |-> TRUE]

\* What the unique constraints compare; holidays have two partial indexes, one for
\* the company's and one for each branch's.
KeyColumns ==
    CASE scene.panel = "shifts"    -> {"code"}
      [] scene.panel = "schedules" -> {"name"}
      [] scene.panel = "holidays"  -> {"date", "branchId"}
      [] scene.panel = "employee"  -> {"workEmail"}

UniqueKey(fields) == [k \in KeyColumns |-> fields[k]]

Taken(fields, id) ==
    \E i \in Ids \ {id} : rows[i] # None /\ UniqueKey(rows[i].fields) = UniqueKey(fields)

\* effectiveRangeRefinement looks only at what is sent.
RangeInOrder(fields) ==
    {"effectiveFrom", "effectiveTo"} \subseteq DOMAIN fields =>
        fields.effectiveTo >= fields.effectiveFrom

Received(c, p, verbs, state) ==
    /\ call[c].state = state
    /\ scene.panel = p
    /\ call[c].verb \in verbs

Respond(c, state) ==
    /\ call' = [call EXCEPT ![c].state = state]
    /\ UNCHANGED <<scene, tab>>

Refuse(c) == Respond(c, "refused") /\ UNCHANGED rows

\* What a request may be refused for besides: rights, formats, rows that are gone,
\* the checks of a new manager.
Reject(c) == call[c].state = "sent" /\ Refuse(c)

\* Ids bounds how many rows there can be.
Insert(c, fields) ==
    IF Taken(fields, None)
    THEN Refuse(c)
    ELSE LET free == {i \in Ids : rows[i] = None}
         IN  /\ free # {}
             /\ rows' = [rows EXCEPT ![CHOOSE i \in free : TRUE] = Row(fields)]
             /\ Respond(c, "ok")

Updated(c) == Over(call[c].payload, rows[call[c].id].fields)

Update(c) ==
    IF Taken(Updated(c), call[c].id)
    THEN Refuse(c)
    ELSE /\ rows' = [rows EXCEPT ![call[c].id].fields = Updated(c)]
         /\ Respond(c, "ok")

SetActive(c) ==
    /\ rows' = [rows EXCEPT ![call[c].id].isActive = call[c].verb = "RESTORE"]
    /\ Respond(c, "ok")

CreateShift(c) ==
    /\ Received(c, "shifts", {"POST"}, "sent")
    /\ Insert(c, Over(call[c].payload, EmptyShift))

UpdateShift(c) ==
    Received(c, "shifts", {"PATCH"}, "sent") /\ Update(c)

\* The shift's open-ended assignments forbid its archival.
ServeShiftActive(c) ==
    /\ Received(c, "shifts", {"DELETE", "RESTORE"}, "sent")
    /\ IF call[c].verb = "DELETE" /\ call[c].id \in scene.assigned THEN Refuse(c) ELSE SetActive(c)

CreateSchedule(c) ==
    /\ Received(c, "schedules", {"POST"}, "sent")
    /\ IF RangeInOrder(call[c].payload)
       THEN Insert(c, Over(call[c].payload, EmptySchedule))
       ELSE Refuse(c)

UpdateSchedule(c) ==
    /\ Received(c, "schedules", {"PATCH"}, "sent")
    /\ IF RangeInOrder(call[c].payload) THEN Update(c) ELSE Refuse(c)

ServeScheduleActive(c) ==
    /\ Received(c, "schedules", {"DELETE", "RESTORE"}, "sent")
    /\ IF call[c].verb = "DELETE" /\ call[c].id \in scene.assigned THEN Refuse(c) ELSE SetActive(c)

CreateHoliday(c) ==
    /\ Received(c, "holidays", {"POST"}, "sent")
    /\ Insert(c, Over(call[c].payload, NoHoliday))

UpdateHoliday(c) ==
    Received(c, "holidays", {"PATCH"}, "sent") /\ Update(c)

ServeHolidayActive(c) ==
    Received(c, "holidays", {"DELETE", "RESTORE"}, "sent") /\ SetActive(c)

CreateEmployee(c) ==
    /\ Received(c, "employee", {"POST"}, "sent")
    /\ Insert(c, Over(call[c].payload, EmptyEmployee))

\* updateEmployee reads the employee before its transaction begins.
FindEmployee(c) ==
    /\ Received(c, "employee", {"PATCH"}, "sent")
    /\ call' = [call EXCEPT ![c].state = "found", ![c].existing = rows[call[c].id]]
    /\ UNCHANGED <<scene, rows, tab>>

TrackedFields == {"departmentId", "designationId", "managerId", "locationId", "employmentType"}

\* Mutant: a field that is cleared counts as not sent.
ChangesTruthy(c) ==
    {f \in TrackedFields \cap DOMAIN call[c].payload :
        call[c].payload[f] # Blank /\ call[c].payload[f] # call[c].existing.fields[f]}

\* The history written with the update: what the request changes of the employee
\* as it was found.
Changes(c) ==
    {f \in TrackedFields \cap DOMAIN call[c].payload :
        call[c].payload[f] # call[c].existing.fields[f]}

UpdateEmployee(c) ==
    /\ Received(c, "employee", {"PATCH"}, "found")
    /\ IF Taken(Updated(c), call[c].id)
       THEN Refuse(c)
       ELSE /\ rows' = [rows EXCEPT ![call[c].id].fields = Updated(c)]
            /\ call' = [call EXCEPT ![c].state = "ok", ![c].logged = Changes(c)]
            /\ UNCHANGED <<scene, tab>>

-----------------------------------------------------------------------------
(* What comes back.                                                        *)

IsSave(c) == call[c].verb \in {"POST", "PATCH"}

\* Mutant: the buttons are enabled again only after a success.
SettleSaveNoFinally(c, ok) ==
    LET t == call[c].tab
    IN  tab' = [tab EXCEPT ![t].open = @ /\ ~ok, ![t].refreshing = @ \/ ok,
                           ![t].formError = @ \/ ~ok, ![t].submitting = ~ok]

\* The rest of handleSubmit and handleSetActive, once fetch has settled: with an
\* answer, or by rejecting when the request or its answer is lost.
SettleSave(c, ok) ==
    LET t == call[c].tab
    IN  tab' = [tab EXCEPT ![t].open = @ /\ ~ok, ![t].refreshing = @ \/ ok,
                           ![t].formError = @ \/ ~ok, ![t].submitting = FALSE]

SettleActive(c, ok) ==
    LET t == call[c].tab
    IN  tab' = [tab EXCEPT ![t].refreshing = @ \/ ok, ![t].listError = @ \/ ~ok,
                           ![t].archiving = None]

\* The employee form has no catch: a rejected fetch leaves it as it is.  Success
\* moves the tab to the employee's page, from wherever it is by then.
SettleEmployee(c, answer) ==
    LET t == call[c].tab
        mounted == tab[t].open /\ tab[t].sent = c
    IN  CASE answer = "ok" -> tab' = [tab EXCEPT ![t] = [Tab(rows) EXCEPT !.opened = tab[t].opened]]
          [] answer = "refused" /\ mounted ->
                tab' = [tab EXCEPT ![t].formError = TRUE, ![t].submitting = FALSE]
          [] OTHER -> UNCHANGED tab

Waiting(c) == call[c].state # "new" /\ call[c].waiting

Settle(c, answer) ==
    /\ call' = [call EXCEPT ![c].waiting = FALSE]
    /\ IF scene.panel = "employee" THEN SettleEmployee(c, answer)
       ELSE IF IsSave(c) THEN SettleSave(c, answer = "ok")
       ELSE SettleActive(c, answer = "ok")
    /\ UNCHANGED <<scene, rows>>

Answer(c) == Waiting(c) /\ call[c].state \in {"ok", "refused"} /\ Settle(c, call[c].state)

Lose(c) == Waiting(c) /\ Settle(c, "lost")

\* router.refresh has fetched the page's rows again.
Refresh(t) ==
    /\ tab[t].refreshing
    /\ tab' = [tab EXCEPT ![t].shown = rows, ![t].refreshing = FALSE]
    /\ UNCHANGED <<scene, rows, call>>

-----------------------------------------------------------------------------
UserStep(t) ==
    \/ OpenCreateShift(t) \/ OpenEditShift(t) \/ TypeShift(t)
    \/ OpenCreateSchedule(t) \/ OpenEditSchedule(t) \/ TypeSchedule(t)
    \/ OpenCreateHoliday(t) \/ OpenEditHoliday(t) \/ TypeHoliday(t)
    \/ OpenEmployee(t) \/ TypeEmployee(t)
    \/ Load(t) \/ CloseForm(t)
    \/ \E c \in Calls :
          \/ SaveShift(t, c) \/ SetShiftActive(t, c)
          \/ SaveSchedule(t, c) \/ SetScheduleActive(t, c)
          \/ SaveHoliday(t, c) \/ SetHolidayActive(t, c)
          \/ SaveEmployee(t, c)

ServerStep(c) ==
    \/ CreateShift(c) \/ UpdateShift(c) \/ ServeShiftActive(c)
    \/ CreateSchedule(c) \/ UpdateSchedule(c) \/ ServeScheduleActive(c)
    \/ CreateHoliday(c) \/ UpdateHoliday(c) \/ ServeHolidayActive(c)
    \/ CreateEmployee(c) \/ FindEmployee(c) \/ UpdateEmployee(c)
    \/ Reject(c)

BrowserStep(c) == Answer(c) \/ Lose(c)

FormsNext ==
    \/ \E t \in Tabs : UserStep(t) \/ Refresh(t)
    \/ \E c \in Calls : ServerStep(c) \/ BrowserStep(c)

\* fetch settles in the end, one way or the other; router.refresh comes back.
FormsFairness ==
    /\ \A c \in Calls : WF_formVars(BrowserStep(c))
    /\ \A t \in Tabs : WF_formVars(Refresh(t))

FormsSpec == FormsInit /\ [][FormsNext]_formVars /\ FormsFairness

-----------------------------------------------------------------------------
FormsTypeOK ==
    /\ scene \in Scenes
    /\ \A i \in Ids : rows[i] # None => rows[i].isActive \in BOOLEAN
    /\ \A t \in Tabs :
          /\ {tab[t].open, tab[t].formError, tab[t].listError, tab[t].submitting,
              tab[t].refreshing} \subseteq BOOLEAN
          /\ {tab[t].editing, tab[t].archiving} \subseteq Ids \cup {None}
          /\ tab[t].submitting => tab[t].sent \in Calls
    /\ \A c \in Calls : call[c].state \in {"new", "sent", "found", "ok", "refused"}

\* An edit changes, besides the fields that were typed into, only what somebody
\* else has changed since the row was shown to the one who edits it: what
\* toFormState makes of a row and toPayload of the form loses nothing, and a
\* form that was left and opened for another row keeps nothing of the first.
EditChangesOnlyWhatWasTyped ==
    [][\A c \in Calls :
          call[c].state \in {"sent", "found"} /\ call'[c].state = "ok" /\ call[c].verb = "PATCH" =>
             \A f \in DOMAIN rows[call[c].id].fields :
                rows'[call[c].id].fields[f] # rows[call[c].id].fields[f] =>
                   \/ f \in call[c].typed
                   \/ rows[call[c].id].fields[f] # call[c].from.fields[f]]_formVars

Created(c) == call[c].state = "ok" /\ call[c].verb = "POST"

\* An edit that gives a row another key than the payload's.
Frees(c, payload) ==
    /\ call[c].state = "ok" /\ call[c].verb = "PATCH"
    /\ \E k \in KeyColumns \cap DOMAIN call[c].payload : call[c].payload[k] # payload[k]

\* A form that is sent again because its answer was lost, or that two tabs send
\* at the same time, creates one row: of two requests with one payload at most one
\* succeeds, unless an edit has freed the name or email of the first.
OneRowPerPayload ==
    \A c1, c2 \in Calls :
        Created(c1) /\ Created(c2) /\ call[c1].payload = call[c2].payload =>
            c1 = c2 \/ \E c \in Calls : Frees(c, call[c1].payload)

\* The history tells every change of an employee's department, designation,
\* manager, location and kind of employment, unless somebody else's edit came
\* between reading the employee and updating it.
HistoryTellsEveryChange ==
    [][\A c \in Calls :
          call[c].state = "found" /\ call'[c].state = "ok"
          /\ rows[call[c].id] = call[c].existing =>
             call'[c].logged = {f \in TrackedFields :
                rows'[call[c].id].fields[f] # rows[call[c].id].fields[f]}]_formVars

\* The form or the row's button waits for an answer that can still come: the
\* employee form, which has no catch, stays disabled once its request is lost.
Busy(t) ==
    \/ tab[t].archiving # None
    \/ tab[t].submitting /\ (scene.panel = "employee" => Waiting(tab[t].sent))

=============================================================================
