---------------------------- MODULE MCEmployees ----------------------------
(***************************************************************************)
(* Instances of Employees and Overview for TLC: three employees, two of    *)
(* one name, in every reporting structure, loops included; two forms with  *)
(* the same work email; a small tree of departments, a designation and a   *)
(* branch; two work dates.                                                 *)
(***************************************************************************)
EXTENDS Overview, TLC
CONSTANTS ann, bob, cyd, new1, new2, d1, d2, g1, b1, t1, t2

MCPeople == {ann, bob, cyd, new1, new2}
MCHired == {ann, bob, cyd}
MCEmailOf == (ann :> ann) @@ (bob :> bob) @@ (cyd :> cyd) @@ (new1 :> new1) @@ (new2 :> new1)
MCUnits == {d1, d2, g1, b1}
MCKindOf == (d1 :> "department") @@ (d2 :> "department") @@ (g1 :> "designation") @@ (b1 :> "location")
MCTasks == {t1, t2}

\* Every assignment of managers except to oneself.
MCStructures ==
    {m \in [MCPeople -> MCHired \cup {None}] :
        \A e \in MCPeople : m[e] # e /\ (e \notin MCHired => m[e] = None)}
MCNobody == [e \in MCPeople |-> None]
MCChain == [e \in MCPeople |-> IF e = ann THEN bob ELSE IF e = bob THEN cyd ELSE None]

About(managers, stages, ops) == [manager: managers, done: stages, agenda: {ops}]

MCArchiveRace == About(MCStructures, {{None}}, {"ASSIGN", "ARCHIVE"})

MCEmployeeStarts ==
    About(MCStructures, {{None}}, {"ASSIGN", "ARCHIVE", "CREATE"})
    \cup About({MCNobody, MCChain}, {{None}}, {"ASSIGN", "PLACE", "SWITCH"})
    \cup About({MCNobody}, {{None}}, {"STATUS", "ARCHIVE", "PLACE", "DAYEND"})
    \cup About({MCNobody}, (SUBSET MCTasks) \cup {{None}}, {"START", "TASK"})
    \cup About({MCNobody}, {{None}}, {"MOVE", "SWITCH"})

MCOverviewStarts ==
    About({MCChain}, {{None}}, {"dashboard", "record"})
    \cup About({MCChain}, {{None}}, {"dashboard", "STATUS"})
    \cup About({MCChain}, {{None}}, {"dashboard", "directory", "ARCHIVE"})
    \cup About({MCChain}, {{None}}, {"directory", "ASSIGN"})
    \cup About({MCNobody}, {{None}}, {"directory", "ARCHIVE", "CREATE"})
    \cup About({MCNobody}, {{None}}, {"report", "export", "record"})
    \cup About({MCNobody}, {{None}}, {"export", "report", "directory", "PLACE"})
    \cup About({MCNobody}, {{None}}, {"calendar", "exceptions", "PLACE"})
    \cup About({MCNobody}, {{None}}, {"calendar", "record"})
    \cup About({MCNobody}, {{None}}, {"exceptions", "record"})
    \cup About({MCNobody}, {{None}}, {"exceptions", "dismiss", "undismiss"})
    \cup About({MCNobody}, {{None}}, {"dismiss", "undismiss", "record"})

MCStarts == MCEmployeeStarts \cup MCOverviewStarts

MCSubjects ==
    ("ASSIGN" :> {ann, bob}) @@ ("PLACE" :> {ann}) @@ ("CREATE" :> {new1, new2})
    @@ ("STATUS" :> {ann}) @@ ("ARCHIVE" :> {ann, cyd}) @@ ("START" :> {ann}) @@ ("TASK" :> {ann})
    @@ ("MOVE" :> {d1, d2}) @@ ("SWITCH" :> {d1, g1, b1})

MCWorkDates == {1, 2}
MCNameOf == (ann :> 1) @@ (bob :> 2) @@ (cyd :> 1) @@ (new1 :> 3) @@ (new2 :> 3)
MCIdOf == (ann :> 1) @@ (bob :> 2) @@ (cyd :> 3) @@ (new1 :> 4) @@ (new2 :> 5)

Day(status, early) == [status |-> status, early |-> early]
MCDayRecords == {Day("PRESENT", TRUE), Day("LATE", TRUE), Day("ABSENT", FALSE)}

MCWritten == {<<ann, 1>>, <<bob, 2>>}

\* ann is late and absent, cyd leaves early; bob's days are still to come.
MCRecordStarts ==
    {[r \in MCPeople \X MCWorkDates |->
        CASE r = <<ann, 1>> -> Day("LATE", TRUE)
          [] r = <<ann, 2>> -> Day("ABSENT", FALSE)
          [] r \in {<<cyd, 1>>, <<cyd, 2>>} -> Day("PRESENT", TRUE)
          [] OTHER -> None]}

MCNarrowings ==
    {Everything, [status |-> "LATE", unit |-> None], [status |-> None, unit |-> d1]}

MCDismissable == {<<ann, 1, "LATE">>, <<ann, 1, "ABSENT">>, <<cyd, 2, "EARLY_DEPARTURE">>}

MCSymmetry == Permutations(Calls) \cup Permutations(Dismissers)
=============================================================================
