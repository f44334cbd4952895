------------------------------- MODULE MCWorkDay -------------------------------
(***************************************************************************)
(* Instances of WorkDay for TLC: one employee of a branch, one schedule,   *)
(* one shift, three dates of which the second is today.                    *)
(***************************************************************************)
EXTENDS WorkDay, TLC
CONSTANTS ann, b1, office, night

MCBranchOf == [e \in {ann} |-> b1]
Window(s, e) == [start |-> s, end |-> e]
MCWindows == {Window(0, 3), Window(1, 4)}
MCPolicies == {[grace |-> 1, early |-> 0, threshold |-> 0, minimum |-> None]}

Row(h, from, to) ==
    [employee |-> ann, schedule |-> office, shift |-> h, from |-> from, to |-> to]
Off(e, off, from, to) ==
    [employee |-> e, off |-> off, active |-> TRUE, from |-> from, to |-> to]
MCTemplate ==
    [t \in {office, night} |-> [active |-> TRUE, window |-> Window(0, 3), grace |-> 0]]
Start(ops, assignments, rules) ==
    [ops |-> ops, template |-> MCTemplate, assignment |-> assignments, rule |-> rules]

OnOffice == <<Row(None, 1, Forever)>>
OnNight == <<Row(night, 1, Forever)>>
Moved == <<Row(None, 1, 1), Row(night, 2, Forever)>>
Ended == <<Row(night, 1, 2)>>
CompanyDefault == <<Off(None, {3}, Always, Forever)>>
WithOverride == CompanyDefault \o <<Off(ann, {2}, Always, Forever)>>

\* Assignments among themselves; weekly offs among themselves; a day of punches
\* while expectations change; a day of punches, breaks and their corrections.
MCStarts ==
    {Start({"ASSIGN", "SHORTEN", "SWITCH"}, a, <<>>) : a \in {<<>>, Moved, Ended}}
    \cup {Start({"DEFAULT", "OVERRIDE"}, <<>>, r) : r \in {<<>>, CompanyDefault, WithOverride}}
    \cup {Start({"PUNCH", "TEMPLATE", "HOLIDAY"}, a, CompanyDefault) : a \in {OnOffice, OnNight}}
    \cup {Start({"PUNCH", "BREAK", "CORRECT"}, OnNight, <<>>), Start({"PUNCH", "CORRECT"}, <<>>, <<>>)}
\* The day whose corrected check-out is compared with too little.
MCCorrectionStarts == {Start({"PUNCH", "BREAK", "CORRECT"}, OnNight, <<>>)}
Symmetry == Permutations(Calls)
=============================================================================
