----------------------------- MODULE MCBrowser -----------------------------
(***************************************************************************)
(* The scenes, screens and listings on which TLC checks Forms, Panels and  *)
(* Listings: each form and panel by itself, with two to four requests, and *)
(* some of them in two tabs; each listing with two rows, across midnight.  *)
(***************************************************************************)
EXTENDS Listings

CONSTANTS i1, i2, i3, a, b, c1, c2, c3, c4

MCScene(p, fields, entered) ==
    [panel |-> p, rows |-> [i \in Ids |-> IF i = i1 THEN Row(fields) ELSE None], tabs |-> {a},
     calls |-> {c1, c2}, entered |-> entered, assigned |-> {i1}, maxOpened |-> 2, maxTyped |-> 2]

MCPair(s, entered) ==
    [s EXCEPT !.tabs = {a, b}, !.maxOpened = 1, !.maxTyped = 1, !.assigned = {}, !.entered = entered]

MCShift == [EmptyShift EXCEPT !.name = 1, !.code = 1, !.breakStartTime = 1]
MCSchedule == [EmptySchedule EXCEPT !.name = 1, !.effectiveFrom = 1, !.effectiveTo = 1]
MCHoliday == [NoHoliday EXCEPT !.name = 1, !.date = 1, !.holidayType = 1, !.description = 1]
MCEmployee ==
    [f \in EmployeeFields |->
        IF f \in EmployeeRequired \cup {"employmentType", "departmentId"} THEN 1 ELSE Blank]

MCShifts == MCScene("shifts", MCShift, ("name" :> {2}) @@ ("code" :> {2}) @@ ("breakStartTime" :> {0}))
MCSchedules ==
    [MCScene("schedules", MCSchedule,
        ("name" :> {2}) @@ ("effectiveTo" :> {0}) @@ ("effectiveFrom" :> {2})) EXCEPT !.maxOpened = 1]
MCHolidays == MCScene("holidays", MCHoliday, ("name" :> {2}) @@ ("date" :> {1, 2}) @@ ("scope" :> {"branch"}))
MCEmployees == MCScene("employee", MCEmployee, ("workEmail" :> {2}) @@ ("departmentId" :> {0, 2}))
MCNewEmployee ==
    [MCScene("employee", MCEmployee,
        ("workEmail" :> {1, 2}) @@ ("firstName" :> {2}) @@ ("lastName" :> {2}) @@ ("dateOfJoining" :> {2}))
     EXCEPT !.maxTyped = 4, !.maxOpened = 1]
MCTwoHolidays ==
    [MCPair(MCHolidays, ("name" :> {2}) @@ ("date" :> {2})) EXCEPT !.rows = NoRows, !.maxTyped = 2]
MCTwoEmployees == MCPair(MCEmployees, ("workEmail" :> {2}) @@ ("departmentId" :> {2}))

MCNoScene == [MCShifts EXCEPT !.tabs = {}]
MCScenes ==
    {MCNoScene, MCShifts, MCSchedules, MCHolidays, MCEmployees, MCNewEmployee, MCTwoHolidays,
     MCTwoEmployees}

MCScreen(p, d, entered) ==
    [panel |-> p, db |-> d, tabs |-> {a}, entered |-> entered, opens |-> 2, tasks |-> {1, 2},
     calls |-> {c1, c2, c3}, others |-> Acts([panel |-> p])]

MCTwice(s, calls) == [s EXCEPT !.tabs = {a, b}, !.opens = 1, !.calls = calls]

MCSession ==
    [MCScreen("session", [work |-> "out", sessions |-> 0, left |-> 0, missing |-> {}, barred |-> {},
                          closed |-> {}], {})
     EXCEPT !.calls = {c1, c2, c3, c4}]
MCBarred(why) == [MCSession EXCEPT !.db.barred = {why}, !.calls = {c1, c2}]
MCPeriod == [MCScreen("period", [closed |-> FALSE, sessions |-> 1], {}) EXCEPT !.calls = {c1, c2}]
MCReview ==
    MCScreen("review", [status |-> "PENDING", closed |-> FALSE, filed |-> "other", own |-> FALSE,
                        ranked |-> TRUE, resolves |-> TRUE], {})
MCOwnReview(filed) == [MCReview EXCEPT !.db.filed = filed, !.db.own = TRUE, !.calls = {c1, c2}]
MCRequest == MCScreen("request", [corrections |-> 0], {})
MCUsers == MCScreen("users", [active |-> TRUE, password |-> 0, elsewhere |-> FALSE], {})
MCMember == [MCUsers EXCEPT !.db.elsewhere = TRUE, !.calls = {c1, c2}]
MCExceptions == MCScreen("exceptions", [exists |-> TRUE, dismissed |-> FALSE], {})
MCProcess == MCScreen("process", [processed |-> FALSE, closed |-> FALSE, future |-> TRUE], {})
MCOnboarding == MCScreen("onboarding", [started |-> FALSE, done |-> {}], {})
MCDocuments ==
    [MCScreen("documents", [created |-> {1}, listed |-> {1}, stored |-> {1}, reachable |-> TRUE],
              {[allowed |-> o] : o \in BOOLEAN})
     EXCEPT !.calls = {c1, c2}]
MCAssignment ==
    [MCScreen("assignment", [rows |-> <<[from |-> 1, to |-> Forever]>>],
        {[from |-> f, to |-> t, overlap |-> o] : f \in {1, 2}, t \in {3, Forever}, o \in BOOLEAN})
     EXCEPT !.calls = {c1, c2}]
MCOverride ==
    MCScreen("override", [rows |-> <<[from |-> Blank, to |-> Forever]>>],
             {[from |-> f] : f \in {Blank, 1, Today + 1}})
MCDefault ==
    MCScreen("default", [days |-> {}],
             {[days |-> {1}, ordered |-> TRUE], [days |-> {0, 6}, ordered |-> TRUE],
              [days |-> {1}, ordered |-> FALSE], [days |-> {}, ordered |-> TRUE]})
MCPolicy == MCScreen("policy", [minutes |-> 0], {0, 240, 241})
MCHistory == [MCScreen("history", [none |-> None], {1, 2}) EXCEPT !.opens = 4]

MCWhile(s, acts) == [s EXCEPT !.others = acts]
MCAlone(s) == MCWhile(s, {})

MCNoScreen == [MCAlone(MCSession) EXCEPT !.tabs = {}]
MCScreens ==
    <<MCNoScreen, MCWhile(MCSession, {"approve"}), MCWhile(MCSession, {"close"}), MCPeriod,
     MCWhile(MCReview, {"close"}),
     MCWhile([MCReview EXCEPT !.calls = {c1, c2}], {"rank", "recalculate"}), MCRequest, MCUsers,
     MCExceptions, MCProcess, MCOnboarding, MCDocuments, MCAssignment, MCOverride, MCDefault,
     MCPolicy, MCHistory, MCAlone(MCBarred("role")), MCAlone(MCBarred("status")),
     MCAlone(MCOwnReview("self")), MCAlone(MCOwnReview("other")), MCMember,
     MCTwice(MCAlone(MCSession), {c1, c2, c3}), MCTwice(MCAlone(MCReview), {c1, c2}),
     MCTwice(MCRequest, {c1, c2}), MCTwice(MCAlone(MCExceptions), {c1, c2, c3})>>

MCRow(d, type, dismissed, select) ==
    [day |-> d, type |-> type, dismissed |-> dismissed, select |-> select, search |-> 1,
     status |-> "PENDING"]

MCEntered == ("select" :> {Blank, 1}) @@ ("search" :> {Blank, 1})

MCLate == MCRow(9, "LATE", FALSE, 1)
MCAbsent == MCRow(10, "ABSENT", TRUE, 2)

MCListing(kind, addresses) ==
    [kind |-> kind, day |-> 10, days |-> 8..11, typed |-> 1, entered |-> MCEntered, access |-> {},
     rows |-> {MCLate, MCAbsent}, comes |-> {MCLate},
     addresses |-> [i \in DOMAIN addresses |-> [url |-> addresses[i], legacy |-> None]]]

MCReport ==
    [MCListing("report", <<<<>>, [from |-> 1, to |-> 10]>>)
     EXCEPT !.entered = MCEntered @@ ("from" :> {Blank, 9}) @@ ("to" :> {Blank, 9})]
MCIssues(access) ==
    [MCListing("issues", <<<<>>>>) EXCEPT
        !.access = access,
        !.addresses = @ \o <<[url |-> Repeated({"LATE", "ABSENT"}), legacy |-> "exceptions"],
                             [url |-> "types" :> {{"LATE", "ABSENT"}, {"INCOMPLETE"}},
                              legacy |-> "exceptions"],
                             [url |-> [status |-> "REJECTED"], legacy |-> "corrections"]>>,
        !.entered = ("select" :> {Blank, 1}) @@ ("from" :> {Blank, 9})
                        @@ ("types" :> {{}, {"LATE", "ABSENT"}}) @@ ("dismissed" :> {TRUE, FALSE})]
MCNoListing == [MCListing("none", <<>>) EXCEPT !.rows = {}, !.comes = {}]

MCListings ==
    <<MCNoListing, MCListing("dashboard", <<<<>>, [when |-> 12]>>), MCListing("calendar", <<<<>>>>),
      MCReport, MCIssues({"exceptions", "corrections"}), MCIssues({"exceptions"}),
      MCListing("directory", <<<<>>>>), MCListing("workforce", <<<<>>>>)>>
=============================================================================
