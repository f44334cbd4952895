---------------------------- MODULE WorkDay_proofs ----------------------------
(***************************************************************************)
(* What the rows of workforce and the numbers of a day keep for every      *)
(* value of the constants: calls that overlap leave the rows in order, an  *)
(* assignment that nobody overtook does what it was checked for, and a     *)
(* scheduled minute is not counted twice.                                  *)
(***************************************************************************)
EXTENDS WorkDay, FiniteSetTheorems, NaturalsInduction, WellFoundedInduction, TLAPS

-----------------------------------------------------------------------------
(* The inductive invariant of workforce's rows                             *)

\* The unique indexes of weekly_off_rules: one active default, one open override
\* of an employee.
UniqueRules ==
    \A i, j \in DOMAIN rule :
        /\ rule[i].employee = rule[j].employee
        /\ \/ rule[i].employee = None /\ rule[i].active /\ rule[j].active
           \/ rule[i].employee # None /\ rule[i].to = Forever /\ rule[j].to = Forever
        => i = j

\* What a call names exists, and is its subject's; an end it may write is not
\* before the row's start.
Stage(q) ==
    /\ q.op = "ASSIGN" =>
          /\ q.subject \in Employees /\ q.schedule \in Schedules /\ q.from \in Dates
          /\ q.to \in Dates \cup {Forever} /\ q.from <= q.to
          /\ q.seen # 0 => q.seen \in DOMAIN assignment /\ assignment[q.seen].employee = q.subject
    /\ q.op = "SHORTEN" =>
          /\ q.seen \in DOMAIN assignment /\ q.to \in Dates \cup {Forever}
          /\ q.pc = "write" => q.to >= assignment[q.seen].from
    /\ q.op = "SWITCH" => q.subject \in Templates
    /\ q.op = "DEFAULT" /\ q.seen # 0 => q.seen \in DOMAIN rule
    /\ q.op = "OVERRIDE" => q.subject \in Employees /\ q.from <= q.to

\* What the checks of a call have found and nobody has overtaken still holds.
Known(q) ==
    ~q.outdated =>
        /\ q.op = "ASSIGN" /\ q.pc \in {"overlap", "write"} /\ q.seen # 0 =>
              assignment[q.seen].to = Forever
        /\ q.op = "ASSIGN" /\ q.pc = "write" /\ ~q.flag =>
              \A i \in FindOverlapping(q.subject, q.from, q.to) :
                 WillAutoCloseOpen(q) /\ i = q.seen
        /\ q.op = "SHORTEN" /\ q.pc = "write" => q.to <= assignment[q.seen].to
        /\ q.op = "OVERRIDE" /\ q.pc = "write" /\ q.seen # 0 =>
              \A i \in OpenOverrides(q.subject) : rule[i].from < StartOf(q.from)

Ordered == \A i \in DOMAIN assignment : assignment[i].from <= assignment[i].to

RowsInv ==
    /\ WorkforceTypeOK /\ Ordered /\ UniqueRules
    /\ \A c \in Calls : Stage(call[c]) /\ Known(call[c])

-----------------------------------------------------------------------------
(* What a step must keep                                                   *)

\* Rows stay where they are, with their employee and start.
RowsStay ==
    /\ \A i \in DOMAIN assignment :
          /\ i \in DOMAIN assignment'
          /\ assignment'[i].employee = assignment[i].employee
          /\ assignment'[i].from = assignment[i].from
    /\ DOMAIN rule \subseteq DOMAIN rule'

\* The assignments of an employee are the same as before.
SameAssignments(e) ==
    \A i \in DOMAIN assignment' :
        assignment'[i].employee = e => i \in DOMAIN assignment /\ assignment'[i] = assignment[i]

\* The overrides of an employee have the same ranges as before.
SameOverrides(e) ==
    \A i \in DOMAIN rule' :
        rule'[i].employee = e =>
            /\ i \in DOMAIN rule /\ rule[i].employee = e
            /\ rule'[i].from = rule[i].from /\ rule'[i].to = rule[i].to

\* Nothing that the checks of q looked at has changed.
Spared(q) ==
    /\ q.op = "ASSIGN" => SameAssignments(q.subject)
    /\ q.op = "SHORTEN" => SameAssignments(assignment[q.seen].employee)
    /\ q.op = "OVERRIDE" => SameOverrides(q.subject)

\* The calls that will write by what they have read.
Deciding(q) ==
    \/ q.op = "ASSIGN" /\ q.pc \in {"overlap", "write"}
    \/ q.op \in {"SHORTEN", "OVERRIDE"} /\ q.pc = "write"

\* A call that does not move keeps what it is about.
LEMMA StageStays ==
    ASSUME NEW q \in Call, Stage(q), RowsStay
    PROVE  Stage(q)'
  BY DEF Stage, RowsStay

\* A call that is spared still knows what it knew.
LEMMA KnownStays ==
    ASSUME NEW q \in Call, Stage(q), Known(q), RowsStay, Spared(q)
    PROVE  Known(q)'
  <1> SUFFICES ASSUME ~q.outdated PROVE Known(q)'
    BY DEF Known
  <1>1. ASSUME q.op = "ASSIGN", q.pc \in {"overlap", "write"}, q.seen # 0
        PROVE  assignment'[q.seen].to = Forever
    BY <1>1 DEF Known, Stage, RowsStay, Spared, SameAssignments
  <1>2. ASSUME q.op = "ASSIGN", q.pc = "write", ~q.flag,
               NEW i \in FindOverlapping(q.subject, q.from, q.to)'
        PROVE  WillAutoCloseOpen(q)' /\ i = q.seen
    <2>1. i \in DOMAIN assignment /\ assignment'[i] = assignment[i]
      BY <1>2 DEF FindOverlapping, Spared, SameAssignments
    <2>2. i \in FindOverlapping(q.subject, q.from, q.to)
      BY <1>2, <2>1 DEF FindOverlapping
    <2>3. WillAutoCloseOpen(q) /\ i = q.seen
      BY <1>2, <2>2 DEF Known
    <2> QED
      BY <2>1, <2>3 DEF WillAutoCloseOpen
  <1>3. ASSUME q.op = "SHORTEN", q.pc = "write"
        PROVE  q.to <= assignment'[q.seen].to
    BY <1>3 DEF Known, Stage, RowsStay, Spared, SameAssignments
  <1>4. ASSUME q.op = "OVERRIDE", q.pc = "write", q.seen # 0, NEW i \in OpenOverrides(q.subject)'
        PROVE  rule'[i].from < StartOf(q.from)
    BY <1>4 DEF Known, OpenOverrides, Spared, SameOverrides
  <1> QED
    BY <1>1, <1>2, <1>3, <1>4 DEF Known, StartOf

-----------------------------------------------------------------------------
(* The steps                                                               *)

\* The starting rows are in order and no call has begun.
LEMMA InitRows == Init => RowsInv
  <1> SUFFICES ASSUME Init PROVE RowsInv
    OBVIOUS
  <1> USE DEF Init, WorkforceInit
  <1>1. PICK s \in Starts : /\ template = s.template /\ assignment = s.assignment
                            /\ rule = s.rule /\ agenda = s.ops
    BY Zenon
  <1>2. Fresh \in Call
    BY WorkforceAssumption DEF Fresh, Call, Pcs, Always, Forever
  <1>3. holiday \in [Places \X Dates -> {"NONE", "ACTIVE", "ARCHIVED"}]
    OBVIOUS
  <1>4. WorkforceTypeOK
    BY <1>1, <1>2, <1>3, StartsAssumption DEF WorkforceTypeOK
  <1>5. Ordered /\ UniqueRules
    BY <1>1, StartsAssumption DEF Ordered, UniqueRules
  <1>6. ASSUME NEW c \in Calls PROVE Stage(call[c]) /\ Known(call[c])
    <2>1. call[c] = Fresh
      OBVIOUS
    <2> QED
      BY <2>1 DEF Fresh, Stage, Known
  <1> QED
    BY <1>4, <1>5, <1>6 DEF RowsInv

\* A step that only moves a call.
LEMMA MoveKeeps ==
    ASSUME RowsInv, NEW c \in Calls, NEW q \in Call, Become(c, q), Stage(q), Known(q),
           template' \in [Templates -> Template],
           holiday' \in [Places \X Dates -> {"NONE", "ACTIVE", "ARCHIVED"}],
           UNCHANGED <<assignment, rule, agenda>>
    PROVE  RowsInv'
  <1>1. call' \in [Calls -> Call]
    BY DEF RowsInv, WorkforceTypeOK, Become
  <1>2. WorkforceTypeOK'
    BY <1>1 DEF RowsInv, WorkforceTypeOK
  <1>3. (Ordered /\ UniqueRules)'
    BY DEF RowsInv, Ordered, UniqueRules
  <1>4. ASSUME NEW x \in Calls PROVE (Stage(call[x]) /\ Known(call[x]))'
    <2>1. Stage(call'[x]) /\ Known(call'[x])
      BY DEF RowsInv, WorkforceTypeOK, Become
    <2> QED
      BY <2>1 DEF Stage, Known, FindOverlapping, WillAutoCloseOpen, OpenOverrides, StartOf
  <1> QED
    BY <1>2, <1>3, <1>4 DEF RowsInv

\* A call that is over has nothing more to write.
LEMMA OverIsCall ==
    ASSUME NEW q \in Call, Stage(q)
    PROVE  Over(q) \in Call /\ Stage(Over(q)) /\ Known(Over(q)) /\ Over(q).op = q.op
  BY DEF Over, Call, Pcs, Stage, Known

\* A request that starts, checks what it has read, or fails.
LEMMA FreshIsCall == Fresh \in Call
  BY WorkforceAssumption DEF Fresh, Call, Pcs, Always, Forever

\* A new request to assign a schedule.
LEMMA ArriveAssignKeeps ==
    ASSUME RowsInv, NEW c \in Calls, NEW e \in Employees, NEW s \in Schedules,
           NEW h \in Shifts \cup {None}, NEW from \in Dates, NEW to \in Dates \cup {Forever},
           NEW overlap \in BOOLEAN, ArriveAssign(c, e, s, h, from, to, overlap)
    PROVE  RowsInv'
  <1> DEFINE q == [pc |-> "open", op |-> "ASSIGN", subject |-> e, schedule |-> s, shift |-> h,
                   from |-> from, to |-> to, off |-> {}, flag |-> overlap, seen |-> 0,
                   outdated |-> FALSE]
  <1>1. q \in Call
    BY DEF Call, Pcs, WorkforceOps
  <1>2. Stage(q) /\ Known(q)
    BY DEF Stage, Known, ArriveAssign
  <1> QED
    BY <1>1, <1>2, MoveKeeps DEF ArriveAssign, RowsInv, WorkforceTypeOK

\* The first read of an assignment: the employee's open row.
LEMMA FindOpenKeeps ==
    ASSUME RowsInv, NEW c \in Calls, FindOpenForEmployee(c)
    PROVE  RowsInv'
  <1> DEFINE q == call[c]
  <1>1. q \in Call /\ Stage(q) /\ q.op = "ASSIGN" /\ assignment \in Seq(Assignment)
    BY DEF RowsInv, WorkforceTypeOK, FindOpenForEmployee
  <1>2. PICK i \in IF OpenAssignments(q.subject) = {} THEN {0} ELSE OpenAssignments(q.subject) :
            Become(c, [q EXCEPT !.pc = "overlap", !.seen = i])
    BY Zenon DEF FindOpenForEmployee
  <1>3. i # 0 => i \in DOMAIN assignment /\ assignment[i].employee = q.subject
                 /\ assignment[i].to = Forever
    BY <1>2 DEF OpenAssignments
  <1>4. i \in Nat
    BY <1>1, <1>2, <1>3
  <1> DEFINE p == [q EXCEPT !.pc = "overlap"]
             r == [p EXCEPT !.seen = i]
  <1>p. p \in Call /\ p.pc = "overlap" /\ p.op = "ASSIGN" /\ p.subject = q.subject
        /\ p.schedule = q.schedule /\ p.from = q.from /\ p.to = q.to
    BY <1>1 DEF Call, Pcs
  <1>r. r = [q EXCEPT !.pc = "overlap", !.seen = i]
    BY <1>1 DEF Call
  <1> HIDE DEF p
  <1>5. r \in Call /\ r.pc = "overlap" /\ r.op = "ASSIGN" /\ r.seen = i /\ r.subject = q.subject
        /\ r.schedule = q.schedule /\ r.from = q.from /\ r.to = q.to
    BY <1>p, <1>4 DEF Call
  <1> HIDE DEF r
  <1>6. Stage(r) /\ Known(r)
    BY <1>1, <1>3, <1>5 DEF Stage, Known
  <1> QED
    BY <1>2, <1>r, <1>5, <1>6, MoveKeeps DEF FindOpenForEmployee, RowsInv, WorkforceTypeOK

\* The check for overlapping assignments.
LEMMA CheckOverlapKeeps ==
    ASSUME RowsInv, NEW c \in Calls, CheckOverlap(c)
    PROVE  RowsInv'
  <1> DEFINE q == call[c]
             r == [q EXCEPT !.pc = "write"]
             fits == q.flag \/ FindOverlapping(q.subject, q.from, q.to)
                               \subseteq (IF WillAutoCloseOpen(q) THEN {q.seen} ELSE {})
  <1>1. q \in Call /\ Stage(q) /\ Known(q) /\ q.op = "ASSIGN" /\ q.pc = "overlap"
    BY DEF RowsInv, WorkforceTypeOK, CheckOverlap
  <1>2. Become(c, IF fits THEN r ELSE Over(q))
    BY DEF CheckOverlap
  <1>3. /\ r \in Call /\ r.pc = "write" /\ r.op = "ASSIGN" /\ r.seen = q.seen /\ r.flag = q.flag
        /\ r.subject = q.subject /\ r.schedule = q.schedule /\ r.from = q.from /\ r.to = q.to
        /\ r.outdated = q.outdated
    BY <1>1 DEF Call, Pcs
  <1>4. CASE fits
    <2> HIDE DEF r
    <2>1. WillAutoCloseOpen(r) <=> WillAutoCloseOpen(q)
      BY <1>3 DEF WillAutoCloseOpen
    <2>2. Stage(r)
      BY <1>1, <1>3 DEF Stage
    <2>3. Known(r)
      BY <1>1, <1>3, <1>4, <2>1 DEF Known
    <2> QED
      BY <1>2, <1>3, <1>4, <2>2, <2>3, MoveKeeps DEF CheckOverlap, RowsInv, WorkforceTypeOK
  <1>5. CASE ~fits
    BY <1>1, <1>2, <1>5, OverIsCall, MoveKeeps DEF CheckOverlap, RowsInv, WorkforceTypeOK
  <1> QED
    BY <1>4, <1>5

\* A request to move an assignment's end, and its check.
LEMMA ArriveShortenKeeps ==
    ASSUME RowsInv, NEW c \in Calls, NEW i \in DOMAIN assignment, NEW to \in Dates \cup {Forever},
           ArriveShorten(c, i, to)
    PROVE  RowsInv'
  <1> DEFINE r1 == [Fresh EXCEPT !.pc = "read"]
             r2 == [r1 EXCEPT !.op = "SHORTEN"]
             r3 == [r2 EXCEPT !.seen = i]
             r == [r3 EXCEPT !.to = to]
  <1>1. r = [Fresh EXCEPT !.pc = "read", !.op = "SHORTEN", !.seen = i, !.to = to]
    OBVIOUS
  <1>2. i \in Nat
    BY DEF RowsInv, WorkforceTypeOK
  <1>3. r1 \in Call /\ r1.pc = "read"
    BY FreshIsCall DEF Call, Pcs
  <1>4. r2 \in Call /\ r2.pc = "read" /\ r2.op = "SHORTEN"
    BY <1>3 DEF Call, WorkforceOps
  <1>5. r3 \in Call /\ r3.pc = "read" /\ r3.op = "SHORTEN" /\ r3.seen = i
    <2> HIDE DEF r2
    <2> QED
      BY <1>2, <1>4 DEF Call
  <1>6. r \in Call /\ r.pc = "read" /\ r.op = "SHORTEN" /\ r.seen = i /\ r.to = to
    <2> HIDE DEF r3
    <2> QED
      BY <1>5 DEF Call
  <1> HIDE DEF r
  <1>7. Stage(r) /\ Known(r)
    BY <1>6 DEF Stage, Known
  <1> QED
    BY <1>1, <1>6, <1>7, MoveKeeps DEF ArriveShorten, RowsInv, WorkforceTypeOK

\* The check that an assignment's end moves to an earlier date.
LEMMA CheckShortensKeeps ==
    ASSUME RowsInv, NEW c \in Calls, CheckShortens(c)
    PROVE  RowsInv'
  <1> DEFINE q == call[c]
             row == assignment[q.seen]
             r == [q EXCEPT !.pc = "write"]
  <1>1. q \in Call /\ Stage(q) /\ Known(q) /\ q.op = "SHORTEN" /\ q.pc = "read"
    BY DEF RowsInv, WorkforceTypeOK, CheckShortens
  <1>2. Become(c, IF q.to >= row.from /\ q.to <= row.to THEN r ELSE Over(q))
    BY DEF CheckShortens
  <1>3. r \in Call /\ r.pc = "write" /\ r.op = "SHORTEN" /\ r.seen = q.seen /\ r.to = q.to
    BY <1>1 DEF Call, Pcs
  <1>4. CASE q.to >= row.from /\ q.to <= row.to
    <2> HIDE DEF r
    <2>1. Stage(r) /\ Known(r)
      BY <1>1, <1>3, <1>4 DEF Stage, Known
    <2> QED
      BY <1>2, <1>3, <1>4, <2>1, MoveKeeps DEF CheckShortens, RowsInv, WorkforceTypeOK
  <1>5. CASE ~(q.to >= row.from /\ q.to <= row.to)
    BY <1>1, <1>2, <1>5, OverIsCall, MoveKeeps DEF CheckShortens, RowsInv, WorkforceTypeOK
  <1> QED
    BY <1>4, <1>5

\* A request that was over as soon as it came.
LEMMA FreshIsOver == Over(Fresh) \in Call /\ Stage(Over(Fresh)) /\ Known(Over(Fresh))
  <1>1. Stage(Fresh)
    BY DEF Stage, Fresh
  <1> QED
    BY <1>1, FreshIsCall, OverIsCall

\* New times of a schedule or shift.
LEMMA UpdateTemplateKeeps ==
    ASSUME RowsInv, NEW c \in Calls, NEW t \in Templates, NEW w \in Windows, NEW g \in Graces,
           UpdateTemplate(c, t, w, g)
    PROVE  RowsInv'
  <1> DEFINE one == [template[t] EXCEPT !.window = w]
             two == [one EXCEPT !.grace = g]
  <1>1. template \in [Templates -> Template]
    BY DEF RowsInv, WorkforceTypeOK
  <1>2. one \in Template
    BY <1>1 DEF Template
  <1> HIDE DEF one
  <1>3. two \in Template
    BY <1>2 DEF Template
  <1>4. template' = [template EXCEPT ![t] = two]
    BY <1>1, Zenon DEF UpdateTemplate, one, two
  <1> HIDE DEF two
  <1>5. template' \in [Templates -> Template]
    BY <1>1, <1>3, <1>4
  <1> QED
    BY <1>5, FreshIsOver, MoveKeeps DEF UpdateTemplate, RowsInv, WorkforceTypeOK

\* A request to archive or restore a schedule or shift.
LEMMA ArriveSwitchKeeps ==
    ASSUME RowsInv, NEW c \in Calls, NEW t \in Templates, NEW active \in BOOLEAN,
           ArriveSwitch(c, t, active)
    PROVE  RowsInv'
  <1> DEFINE r1 == [Fresh EXCEPT !.pc = IF active THEN "write" ELSE "count"]
             r2 == [r1 EXCEPT !.op = "SWITCH"]
             r3 == [r2 EXCEPT !.subject = t]
             r == [r3 EXCEPT !.flag = active]
  <1>1. r = [Fresh EXCEPT !.pc = IF active THEN "write" ELSE "count", !.op = "SWITCH",
                          !.subject = t, !.flag = active]
    OBVIOUS
  <1>2. r1 \in Call
    BY FreshIsCall DEF Call, Pcs
  <1>3. r2 \in Call /\ r2.op = "SWITCH"
    <2> HIDE DEF r1
    <2> QED
      BY <1>2 DEF Call, WorkforceOps
  <1>4. r3 \in Call /\ r3.op = "SWITCH" /\ r3.subject = t
    <2> HIDE DEF r2
    <2> QED
      BY <1>3 DEF Call
  <1>5. r \in Call /\ r.op = "SWITCH" /\ r.subject = t
    <2> HIDE DEF r3
    <2> QED
      BY <1>4 DEF Call
  <1> HIDE DEF r
  <1>6. Stage(r) /\ Known(r)
    BY <1>5 DEF Stage, Known
  <1> QED
    BY <1>1, <1>5, <1>6, MoveKeeps DEF ArriveSwitch, RowsInv, WorkforceTypeOK

\* The count of a template's open assignments.
LEMMA CountKeeps ==
    ASSUME RowsInv, NEW c \in Calls, CountActiveAssignments(c)
    PROVE  RowsInv'
  <1> DEFINE q == call[c]
             r == [q EXCEPT !.pc = "write"]
  <1>1. q \in Call /\ Stage(q) /\ q.op = "SWITCH"
    BY DEF RowsInv, WorkforceTypeOK, CountActiveAssignments
  <1>2. r \in Call /\ Stage(r) /\ Known(r)
    BY <1>1 DEF Call, Pcs, Stage, Known
  <1> HIDE DEF r
  <1>3. Become(c, r) \/ Become(c, Over(q))
    BY DEF CountActiveAssignments, r
  <1> QED
    BY <1>1, <1>2, <1>3, OverIsCall, MoveKeeps DEF CountActiveAssignments, RowsInv, WorkforceTypeOK

\* A schedule or shift that is archived or restored.
LEMMA SetActiveKeeps ==
    ASSUME RowsInv, NEW c \in Calls, SetActive(c)
    PROVE  RowsInv'
  <1>1. call[c] \in Call /\ Stage(call[c]) /\ call[c].op = "SWITCH"
    BY DEF RowsInv, WorkforceTypeOK, SetActive
  <1>2. call[c].subject \in Templates /\ call[c].flag \in BOOLEAN
    BY <1>1 DEF Stage, Call
  <1>3. template' \in [Templates -> Template]
    BY <1>2 DEF SetActive, RowsInv, WorkforceTypeOK, Template
  <1> QED
    BY <1>1, <1>3, OverIsCall, MoveKeeps DEF SetActive, RowsInv, WorkforceTypeOK

\* The read of the company's default weekly off.
LEMMA ReadDefaultKeeps ==
    ASSUME RowsInv, NEW c \in Calls, NEW off \in OffSets, ReadDefault(c, off)
    PROVE  RowsInv'
  <1>1. PICK i \in IF ActiveDefaults = {} THEN {0} ELSE ActiveDefaults :
            Become(c, [Fresh EXCEPT !.pc = "write", !.op = "DEFAULT", !.off = off, !.seen = i])
    BY Zenon DEF ReadDefault
  <1> DEFINE r1 == [Fresh EXCEPT !.pc = "write"]
             r2 == [r1 EXCEPT !.op = "DEFAULT"]
             r3 == [r2 EXCEPT !.off = off]
             r == [r3 EXCEPT !.seen = i]
  <1>2. r = [Fresh EXCEPT !.pc = "write", !.op = "DEFAULT", !.off = off, !.seen = i]
    OBVIOUS
  <1>3. i \in Nat /\ (i # 0 => i \in DOMAIN rule)
    BY <1>1 DEF ActiveDefaults, RowsInv, WorkforceTypeOK
  <1>4. off \in SUBSET Dates
    BY WorkforceAssumption
  <1>5. r1 \in Call
    BY FreshIsCall DEF Call, Pcs
  <1>6. r2 \in Call /\ r2.op = "DEFAULT"
    <2> HIDE DEF r1
    <2> QED
      BY <1>5 DEF Call, WorkforceOps
  <1>7. r3 \in Call /\ r3.op = "DEFAULT"
    <2> HIDE DEF r2
    <2> QED
      BY <1>4, <1>6 DEF Call
  <1>8. r \in Call /\ r.op = "DEFAULT" /\ r.seen = i
    <2> HIDE DEF r3
    <2> QED
      BY <1>3, <1>7 DEF Call
  <1> HIDE DEF r
  <1>9. Stage(r) /\ Known(r)
    BY <1>3, <1>8 DEF Stage, Known
  <1> QED
    BY <1>1, <1>2, <1>8, <1>9, MoveKeeps DEF ReadDefault, RowsInv, WorkforceTypeOK

\* The check of a new override against the open one.
LEMMA FindOverrideKeeps ==
    ASSUME RowsInv, NEW c \in Calls, NEW e \in Employees, NEW off \in OffSets,
           NEW from \in Dates \cup {Always}, NEW to \in Dates \cup {Forever},
           FindOpenOverride(c, e, off, from, to)
    PROVE  RowsInv'
  <1> DEFINE q(i) == [pc |-> IF i # 0 /\ rule[i].from >= StartOf(from) THEN "over" ELSE "write",
                      op |-> "OVERRIDE", subject |-> e, schedule |-> None, shift |-> None,
                      from |-> from, to |-> to, off |-> off, flag |-> FALSE, seen |-> i,
                      outdated |-> FALSE]
  <1>1. PICK i \in IF OpenOverrides(e) = {} THEN {0} ELSE OpenOverrides(e) : Become(c, q(i))
    BY Zenon DEF FindOpenOverride
  <1>2. i # 0 => i \in OpenOverrides(e)
    BY <1>1
  <1>t. rule \in Seq(Rule)
    BY DEF RowsInv, WorkforceTypeOK
  <1>3. i \in Nat /\ (i # 0 => i \in DOMAIN rule /\ rule[i].from \in Nat)
    <2>1. CASE i = 0
      BY <2>1
    <2>2. CASE i # 0
      <3>1. i \in DOMAIN rule
        BY <1>2, <2>2 DEF OpenOverrides
      <3>2. rule[i] \in Rule /\ i \in Nat
        BY <1>t, <3>1
      <3> QED
        BY <3>1, <3>2, WorkforceAssumption DEF Rule, Dates, Always
    <2> QED
      BY <2>1, <2>2
  <1>4. off \in SUBSET Dates
    BY WorkforceAssumption
  <1>5. q(i) \in Call
    BY <1>3, <1>4, WorkforceAssumption DEF Call, Pcs, WorkforceOps, Always
  <1>6. Stage(q(i))
    BY <1>3 DEF Stage, FindOpenOverride
  <1>7. StartOf(from) \in Nat
    BY WorkforceAssumption DEF StartOf, Dates, Always
  <1>8. ASSUME i # 0, q(i).pc = "write", NEW j \in OpenOverrides(e)
        PROVE  rule[j].from < StartOf(from)
    <2>1. j = i
      BY <1>2, <1>8, WorkforceAssumption DEF OpenOverrides, RowsInv, UniqueRules
    <2> QED
      BY <1>3, <1>7, <1>8, <2>1
  <1>9. Known(q(i))
    BY <1>8 DEF Known
  <1> HIDE DEF q
  <1> QED
    BY <1>1, <1>5, <1>6, <1>9, MoveKeeps DEF FindOpenOverride, RowsInv, WorkforceTypeOK

\* A holiday is created.
LEMMA CreateHolidayKeeps ==
    ASSUME RowsInv, NEW c \in Calls, NEW p \in Places, NEW d \in Dates, CreateHoliday(c, p, d)
    PROVE  RowsInv'
  <1>1. holiday' \in [Places \X Dates -> {"NONE", "ACTIVE", "ARCHIVED"}]
    BY DEF CreateHoliday, RowsInv, WorkforceTypeOK
  <1> QED
    BY <1>1, FreshIsOver, MoveKeeps DEF CreateHoliday, RowsInv, WorkforceTypeOK

\* A holiday is archived or restored.
LEMMA SetHolidayKeeps ==
    ASSUME RowsInv, NEW c \in Calls, NEW p \in Places, NEW d \in Dates, NEW active \in BOOLEAN,
           SetHolidayActive(c, p, d, active)
    PROVE  RowsInv'
  <1>1. holiday' \in [Places \X Dates -> {"NONE", "ACTIVE", "ARCHIVED"}]
    BY DEF SetHolidayActive, RowsInv, WorkforceTypeOK
  <1> QED
    BY <1>1, FreshIsOver, MoveKeeps DEF SetHolidayActive, RowsInv, WorkforceTypeOK

\* A request dies.
LEMMA CrashKeeps == ASSUME RowsInv, NEW c \in Calls, Crash(c) PROVE RowsInv'
  BY FreshIsOver, MoveKeeps DEF Crash, RowsInv, WorkforceTypeOK

\* A step of c that writes rows, after which whoever was not spared is outdated.
LEMMA WriteKeeps ==
    ASSUME RowsInv, NEW c \in Calls, RowsStay, (Ordered /\ UniqueRules)',
           assignment' \in Seq(Assignment), rule' \in Seq(Rule),
           UNCHANGED <<template, holiday, agenda>>,
           call' \in [Calls -> Call], call'[c] = Over(call[c]),
           \A x \in Calls \ {c} :
              /\ call'[x] \in {call[x], [call[x] EXCEPT !.outdated = TRUE]}
              /\ \/ Spared(call[x]) \/ ~Deciding(call[x])
                 \/ call'[x].outdated
    PROVE  RowsInv'
  <1>1. WorkforceTypeOK'
    BY DEF RowsInv, WorkforceTypeOK
  <1>2. ASSUME NEW x \in Calls PROVE (Stage(call[x]) /\ Known(call[x]))'
    <2>1. PICK q : q = call[x]
      OBVIOUS
    <2>2. PICK r : r = call'[x]
      OBVIOUS
    <2>3. q \in Call /\ Stage(q) /\ Known(q) /\ r \in Call
      BY <2>1, <2>2 DEF RowsInv, WorkforceTypeOK
    <2>4. Stage(q)'
      BY <2>3, StageStays
    <2> SUFFICES Stage(r)' /\ Known(r)'
      BY <2>2
    <2>5. CASE x = c
      <3>1. r = Over(q)
        BY <2>1, <2>2, <2>5
      <3>2. Stage(r) /\ Known(r)
        BY <2>3, <3>1, OverIsCall
      <3>3. r.pc = "over"
        BY <2>3, <3>1 DEF Over, Call
      <3>4. Stage(r)'
        BY <2>3, <3>2, StageStays
      <3> QED
        BY <3>3, <3>4 DEF Known
    <2>6. CASE x # c /\ r = q
      <3>1. Spared(q) \/ ~Deciding(q) \/ q.outdated
        BY <2>1, <2>2, <2>6
      <3>2. CASE Spared(q)
        BY <2>3, <2>4, <2>6, <3>2, KnownStays
      <3>3. CASE ~Deciding(q) \/ q.outdated
        BY <2>4, <2>6, <3>3 DEF Known, Deciding
      <3> QED
        BY <3>1, <3>2, <3>3
    <2>7. CASE x # c /\ r = [q EXCEPT !.outdated = TRUE]
      <3>1. /\ r.outdated /\ r.pc = q.pc /\ r.op = q.op /\ r.subject = q.subject
            /\ r.schedule = q.schedule /\ r.from = q.from /\ r.to = q.to /\ r.seen = q.seen
        BY <2>3, <2>7 DEF Call
      <3> QED
        BY <2>4, <3>1 DEF Stage, Known
    <2> QED
      BY <2>1, <2>2, <2>5, <2>6, <2>7
  <1> QED
    BY <1>1, <1>2 DEF RowsInv

\* A write moves its call, and marks those that it overtakes.
LEMMA WriteMarks ==
    ASSUME RowsInv, NEW c \in Calls, NEW others, WriteAs(c, others)
    PROVE  /\ call' \in [Calls -> Call] /\ call'[c] = Over(call[c])
           /\ \A x \in Calls \ {c} :
                 /\ call'[x] \in {call[x], [call[x] EXCEPT !.outdated = TRUE]}
                 /\ x \in others /\ Deciding(call[x]) => call'[x].outdated
  <1>1. \A x \in Calls : call[x] \in Call /\ Stage(call[x])
    BY DEF RowsInv, WorkforceTypeOK
  <1>2. \A x \in Calls : Over(call[x]) \in Call
    BY <1>1, OverIsCall
  <1>3. \A x \in Calls : [call[x] EXCEPT !.outdated = TRUE] \in Call
                         /\ [call[x] EXCEPT !.outdated = TRUE].outdated
    BY <1>1 DEF Call
  <1>4. \A x \in Calls : call'[x] = IF x = c THEN Over(call[c])
               ELSE IF x \in others /\ call[x].pc \notin {"new", "over"}
                    THEN [call[x] EXCEPT !.outdated = TRUE] ELSE call[x]
    BY DEF WriteAs
  <1>5. \A x \in Calls : call'[x] \in Call
    BY <1>1, <1>2, <1>3, <1>4
  <1>6. call' \in [Calls -> Call]
    BY <1>5 DEF WriteAs
  <1> QED
    BY <1>3, <1>4, <1>6 DEF Deciding

\* What is left of the assignments when the open one has been closed.
LEMMA AfterCloseRows ==
    ASSUME RowsInv, NEW q \in Call, Stage(q), q.op = "ASSIGN"
    PROVE  /\ AfterClose(q) \in Seq(Assignment) /\ DOMAIN AfterClose(q) = DOMAIN assignment
           /\ Len(AfterClose(q)) = Len(assignment)
           /\ \A i \in DOMAIN assignment :
                 /\ AfterClose(q)[i].employee = assignment[i].employee
                 /\ AfterClose(q)[i].from = assignment[i].from
                 /\ WillAutoCloseOpen(q) /\ i = q.seen =>
                       AfterClose(q)[i].to = q.from - 1 /\ assignment[i].from < q.from
                 /\ ~(WillAutoCloseOpen(q) /\ i = q.seen) => AfterClose(q)[i] = assignment[i]
  <1>1. assignment \in Seq(Assignment) /\ q.from \in Dates
    BY DEF RowsInv, WorkforceTypeOK, Stage
  <1>2. CASE ~WillAutoCloseOpen(q)
    BY <1>1, <1>2 DEF AfterClose
  <1>3. CASE WillAutoCloseOpen(q)
    <2>1. q.seen \in DOMAIN assignment /\ assignment[q.seen].from < q.from
      BY <1>3 DEF WillAutoCloseOpen, Stage
    <2> DEFINE row == [assignment[q.seen] EXCEPT !.to = q.from - 1]
    <2>2. assignment[q.seen] \in Assignment
      BY <1>1, <2>1
    <2>3. q.from - 1 \in Dates
      BY <1>1, <2>1, <2>2, WorkforceAssumption DEF Assignment, Dates
    <2>4. row \in Assignment /\ row.to = q.from - 1 /\ row.from = assignment[q.seen].from
          /\ row.employee = assignment[q.seen].employee
      BY <2>2, <2>3 DEF Assignment
    <2>5. AfterClose(q) = [assignment EXCEPT ![q.seen] = row]
      BY <1>3 DEF AfterClose
    <2> HIDE DEF row
    <2> QED
      BY <1>1, <1>3, <2>1, <2>4, <2>5
  <1> QED
    BY <1>2, <1>3

\* Inserting an assignment.
LEMMA CreateAssignmentKeeps ==
    ASSUME RowsInv, NEW c \in Calls, CreateAssignment(c)
    PROVE  RowsInv'
  <1> DEFINE q == call[c]
             row == [employee |-> q.subject, schedule |-> q.schedule, shift |-> q.shift,
                     from |-> q.from, to |-> q.to]
             closed == AfterClose(q)
             duplicate == q.to = Forever /\ \E i \in DOMAIN closed :
                             closed[i].employee = q.subject /\ closed[i].to = Forever
  <1>1. q \in Call /\ Stage(q) /\ q.op = "ASSIGN" /\ assignment \in Seq(Assignment)
    BY DEF RowsInv, WorkforceTypeOK, CreateAssignment
  <1>2. /\ assignment' = IF duplicate THEN assignment ELSE Append(closed, row)
        /\ WriteAs(c, IF duplicate THEN {} ELSE AssignmentCalls(q.subject))
        /\ UNCHANGED <<template, rule, holiday, agenda>>
    BY DEF CreateAssignment
  <1>3. rule' \in Seq(Rule) /\ UniqueRules' /\ DOMAIN rule' = DOMAIN rule
    BY <1>2 DEF RowsInv, WorkforceTypeOK, UniqueRules
  <1>4. \A e : SameOverrides(e)
    BY <1>2 DEF SameOverrides
  <1>5. CASE duplicate
    <2> HIDE DEF duplicate, row, closed
    <2>1. assignment' = assignment
      BY <1>2, <1>5
    <2>2. RowsStay /\ Ordered' /\ assignment' \in Seq(Assignment)
      BY <1>1, <1>3, <2>1 DEF RowsStay, RowsInv, Ordered
    <2>3. \A x \in Calls : Spared(call[x])
      BY <1>4, <2>1 DEF Spared, SameAssignments
    <2> QED
      BY <1>2, <1>3, <2>2, <2>3, WriteMarks, WriteKeeps
  <1>6. CASE ~duplicate
    <2>1. row \in Assignment /\ row.employee = q.subject /\ row.from = q.from /\ row.to = q.to
      BY <1>1 DEF Call, Stage, Assignment
    <2>2. assignment' = Append(closed, row) /\ WriteAs(c, AssignmentCalls(q.subject))
      BY <1>2, <1>6
    <2>3. q.from \in Dates /\ q.from <= q.to
      BY <1>1 DEF Stage
    <2>4. closed \in Seq(Assignment) /\ DOMAIN closed = DOMAIN assignment
          /\ Len(closed) = Len(assignment)
      BY <1>1, AfterCloseRows
    <2>5. ASSUME NEW i \in DOMAIN assignment
          PROVE  /\ closed[i].employee = assignment[i].employee
                 /\ closed[i].from = assignment[i].from
                 /\ WillAutoCloseOpen(q) /\ i = q.seen =>
                       closed[i].to = q.from - 1 /\ assignment[i].from < q.from
                 /\ ~(WillAutoCloseOpen(q) /\ i = q.seen) => closed[i] = assignment[i]
      BY <1>1, AfterCloseRows
    <2> HIDE DEF duplicate, row, closed
    <2>6. /\ assignment' \in Seq(Assignment) /\ Len(assignment') = Len(assignment) + 1
          /\ \A i \in DOMAIN assignment : i \in DOMAIN assignment' /\ assignment'[i] = closed[i]
          /\ assignment'[Len(assignment) + 1] = row
      BY <1>1, <2>1, <2>2, <2>4
    <2>7. \A i \in DOMAIN assignment' : i \in DOMAIN assignment \/ i = Len(assignment) + 1
      BY <1>1, <2>6
    <2>8. RowsStay
      BY <1>3, <2>5, <2>6 DEF RowsStay
    <2>9. Ordered'
      <3> SUFFICES ASSUME NEW i \in DOMAIN assignment' PROVE assignment'[i].from <= assignment'[i].to
        BY DEF Ordered
      <3>1. CASE i = Len(assignment) + 1
        BY <2>1, <2>3, <2>6, <3>1
      <3>2. CASE i \in DOMAIN assignment /\ WillAutoCloseOpen(q) /\ i = q.seen
        <4>1. assignment[i].from \in Nat
          <5>1. assignment[i] \in Assignment
            BY <1>1, <3>2
          <5> QED
            BY <5>1, WorkforceAssumption DEF Assignment, Dates
        <4>2. q.from \in Nat
          BY <2>3, WorkforceAssumption DEF Dates
        <4>3. /\ assignment'[i].from = assignment[i].from /\ assignment'[i].to = q.from - 1
              /\ assignment[i].from < q.from
          BY <2>5, <2>6, <3>2
        <4> QED
          BY <4>1, <4>2, <4>3
      <3>3. CASE i \in DOMAIN assignment /\ ~(WillAutoCloseOpen(q) /\ i = q.seen)
        BY <2>5, <2>6, <3>3 DEF RowsInv, Ordered
      <3> QED
        BY <2>7, <3>1, <3>2, <3>3
    <2>10. ASSUME NEW e, e # q.subject PROVE SameAssignments(e)
      <3> SUFFICES ASSUME NEW i \in DOMAIN assignment', assignment'[i].employee = e
                   PROVE  i \in DOMAIN assignment /\ assignment'[i] = assignment[i]
        BY DEF SameAssignments
      <3>1. i \in DOMAIN assignment
        BY <2>1, <2>6, <2>7, <2>10
      <3>2. ~(WillAutoCloseOpen(q) /\ i = q.seen)
        BY <1>1, <2>5, <2>6, <2>10, <3>1 DEF Stage, WillAutoCloseOpen
      <3> QED
        BY <2>5, <2>6, <3>1, <3>2
    <2>11. ASSUME NEW x \in Calls \ {c}, ~Spared(call[x]), Deciding(call[x])
           PROVE  x \in AssignmentCalls(q.subject)
      <3>1. call[x] \in Call /\ Stage(call[x])
        BY DEF RowsInv, WorkforceTypeOK
      <3>2. CASE call[x].op = "ASSIGN"
        BY <2>10, <2>11, <3>2 DEF Spared, AssignmentCalls, Deciding
      <3>3. CASE call[x].op = "SHORTEN"
        <4>1. assignment[call[x].seen].employee = q.subject
          BY <2>10, <2>11, <3>3 DEF Spared
        <4> QED
          BY <2>11, <3>3, <4>1 DEF AssignmentCalls, Deciding
      <3>4. CASE call[x].op \notin {"ASSIGN", "SHORTEN"}
        BY <1>4, <2>11, <3>4 DEF Spared
      <3> QED
        BY <3>2, <3>3, <3>4
    <2>12. \A x \in Calls \ {c} : Spared(call[x]) \/ ~Deciding(call[x]) \/ call'[x].outdated
      BY <2>2, <2>11, WriteMarks
    <2> QED
      BY <1>2, <1>3, <2>2, <2>6, <2>8, <2>9, <2>12, WriteMarks, WriteKeeps
  <1> QED
    BY <1>5, <1>6

\* Moving an assignment's end.
LEMMA UpdateAssignmentKeeps ==
    ASSUME RowsInv, NEW c \in Calls, UpdateAssignment(c)
    PROVE  RowsInv'
  <1>1. PICK q : q = call[c]
    OBVIOUS
  <1>2. /\ q \in Call /\ Stage(q) /\ q.op = "SHORTEN" /\ q.pc = "write"
        /\ assignment \in Seq(Assignment)
    BY <1>1 DEF RowsInv, WorkforceTypeOK, UpdateAssignment
  <1>3. /\ q.seen \in DOMAIN assignment /\ q.to \in Dates \cup {Forever}
        /\ q.to >= assignment[q.seen].from
    BY <1>2 DEF Stage
  <1> DEFINE row == [assignment[q.seen] EXCEPT !.to = q.to]
  <1>4. assignment[q.seen] \in Assignment
    BY <1>2, <1>3
  <1>5. row \in Assignment /\ row.to = q.to /\ row.from = assignment[q.seen].from
        /\ row.employee = assignment[q.seen].employee
    BY <1>3, <1>4 DEF Assignment
  <1>6. /\ assignment' = [assignment EXCEPT ![q.seen] = row]
        /\ WriteAs(c, AssignmentCalls(assignment[q.seen].employee))
        /\ UNCHANGED <<template, rule, holiday, agenda>>
    BY <1>1 DEF UpdateAssignment
  <1> HIDE DEF row
  <1>7. /\ assignment' \in Seq(Assignment) /\ DOMAIN assignment' = DOMAIN assignment
        /\ assignment'[q.seen] = row
        /\ \A i \in DOMAIN assignment : i # q.seen => assignment'[i] = assignment[i]
    BY <1>2, <1>3, <1>5, <1>6
  <1>8. RowsStay
    BY <1>5, <1>6, <1>7 DEF RowsStay
  <1>9. rule' \in Seq(Rule) /\ UniqueRules'
    BY <1>6 DEF RowsInv, WorkforceTypeOK, UniqueRules
  <1>10. Ordered'
    <2> SUFFICES ASSUME NEW i \in DOMAIN assignment' PROVE assignment'[i].from <= assignment'[i].to
      BY DEF Ordered
    <2>1. CASE i = q.seen
      <3>1. row.from \in Nat /\ q.to \in Nat
        BY <1>3, <1>5, WorkforceAssumption DEF Assignment, Dates, Forever
      <3> QED
        BY <1>3, <1>5, <1>7, <2>1, <3>1
    <2>2. CASE i # q.seen
      BY <1>7, <2>2 DEF RowsInv, Ordered
    <2> QED
      BY <2>1, <2>2
  <1>11. ASSUME NEW e, e # assignment[q.seen].employee PROVE SameAssignments(e)
    BY <1>5, <1>7, <1>11 DEF SameAssignments
  <1>12. \A e : SameOverrides(e)
    BY <1>6 DEF SameOverrides
  <1>13. ASSUME NEW x \in Calls \ {c}, ~Spared(call[x]), Deciding(call[x])
         PROVE  x \in AssignmentCalls(assignment[q.seen].employee)
    <2>1. CASE call[x].op = "ASSIGN"
      BY <1>11, <1>13, <2>1 DEF Spared, AssignmentCalls, Deciding
    <2>2. CASE call[x].op = "SHORTEN"
      <3>1. assignment[call[x].seen].employee = assignment[q.seen].employee
        BY <1>11, <1>13, <2>2 DEF Spared
      <3> QED
        BY <1>13, <2>2, <3>1 DEF AssignmentCalls, Deciding
    <2>3. CASE call[x].op \notin {"ASSIGN", "SHORTEN"}
      BY <1>12, <1>13, <2>3 DEF Spared
    <2> QED
      BY <2>1, <2>2, <2>3
  <1>14. \A x \in Calls \ {c} : Spared(call[x]) \/ ~Deciding(call[x]) \/ call'[x].outdated
    BY <1>6, <1>13, WriteMarks
  <1> QED
    BY <1>6, <1>7, <1>8, <1>9, <1>10, <1>14, WriteMarks, WriteKeeps

\* What a replaced default leaves of the rules: the old one is inactive, the new
\* one is the last row.
LEMMA ReplacedRules ==
    ASSUME RowsInv, NEW c \in Calls, ReplaceDefault(c), ~DuplicateDefault(call[c].seen)
    PROVE  /\ rule' \in Seq(Rule) /\ Len(rule') = Len(rule) + 1
           /\ rule'[Len(rule) + 1].employee = None /\ rule'[Len(rule) + 1].active
           /\ rule'[Len(rule) + 1].from = Always /\ rule'[Len(rule) + 1].to = Forever
           /\ \A i \in DOMAIN rule :
                 /\ i \in DOMAIN rule' /\ rule'[i].employee = rule[i].employee
                 /\ rule'[i].from = rule[i].from /\ rule'[i].to = rule[i].to
                 /\ rule'[i].active => rule[i].active /\ i # call[c].seen
           /\ \A i \in DOMAIN rule' : i \in DOMAIN rule \/ i = Len(rule) + 1
  <1>1. PICK q : q = call[c]
    OBVIOUS
  <1>2. q \in Call /\ Stage(q) /\ q.op = "DEFAULT" /\ rule \in Seq(Rule)
    BY <1>1 DEF RowsInv, WorkforceTypeOK, ReplaceDefault
  <1> DEFINE row == [employee |-> None, off |-> q.off, active |-> TRUE, from |-> Always,
                     to |-> Forever]
             old == IF q.seen = 0 THEN rule ELSE [rule EXCEPT ![q.seen].active = FALSE]
  <1>3. rule' = Append(old, row)
    BY <1>1 DEF ReplaceDefault
  <1>4. row \in Rule /\ row.employee = None /\ row.active /\ row.from = Always /\ row.to = Forever
    BY <1>2 DEF Call, Rule
  <1>5. /\ old \in Seq(Rule) /\ Len(old) = Len(rule)
        /\ \A i \in DOMAIN rule :
              /\ old[i].employee = rule[i].employee /\ old[i].from = rule[i].from
              /\ old[i].to = rule[i].to
              /\ old[i].active => rule[i].active /\ i # q.seen
    <2>1. CASE q.seen = 0
      BY <1>2, <2>1
    <2>2. CASE q.seen # 0
      <3> DEFINE closed == [rule[q.seen] EXCEPT !.active = FALSE]
      <3>1. q.seen \in DOMAIN rule
        BY <1>2, <2>2 DEF Stage
      <3>2. rule[q.seen] \in Rule
        BY <1>2, <3>1
      <3>3. closed \in Rule /\ closed.employee = rule[q.seen].employee
            /\ closed.from = rule[q.seen].from /\ closed.to = rule[q.seen].to /\ ~closed.active
        BY <3>2 DEF Rule
      <3>4. old = [rule EXCEPT ![q.seen] = closed]
        BY <2>2
      <3> HIDE DEF closed, old
      <3> QED
        BY <1>2, <3>1, <3>3, <3>4
    <2> QED
      BY <2>1, <2>2
  <1> HIDE DEF old, row
  <1>6. /\ rule' \in Seq(Rule) /\ Len(rule') = Len(rule) + 1 /\ rule'[Len(rule) + 1] = row
        /\ \A i \in DOMAIN rule : i \in DOMAIN rule' /\ rule'[i] = old[i]
        /\ \A i \in DOMAIN rule' : i \in DOMAIN rule \/ i = Len(rule) + 1
    BY <1>2, <1>3, <1>4, <1>5
  <1> QED
    BY <1>1, <1>4, <1>5, <1>6

\* Replacing the company's default weekly off.
LEMMA ReplaceDefaultKeeps ==
    ASSUME RowsInv, NEW c \in Calls, ReplaceDefault(c)
    PROVE  RowsInv'
  <1>1. call[c] \in Call /\ Stage(call[c])
    BY DEF RowsInv, WorkforceTypeOK
  <1>2. Over(call[c]) \in Call /\ Stage(Over(call[c])) /\ Known(Over(call[c]))
    BY <1>1, OverIsCall
  <1>3. Become(c, Over(call[c])) /\ UNCHANGED <<template, assignment, holiday, agenda>>
    BY DEF ReplaceDefault
  <1>4. CASE DuplicateDefault(call[c].seen)
    <2>1. rule' = rule
      BY <1>4 DEF ReplaceDefault
    <2> QED
      BY <1>2, <1>3, <2>1, MoveKeeps DEF RowsInv, WorkforceTypeOK
  <1>5. CASE ~DuplicateDefault(call[c].seen)
    <2> DEFINE n == Len(rule) + 1
    <2>1. /\ rule' \in Seq(Rule) /\ rule'[n].employee = None
          /\ \A i \in DOMAIN rule :
                /\ i \in DOMAIN rule' /\ rule'[i].employee = rule[i].employee
                /\ rule'[i].from = rule[i].from /\ rule'[i].to = rule[i].to
                /\ rule'[i].active => rule[i].active /\ i # call[c].seen
          /\ \A i \in DOMAIN rule' : i \in DOMAIN rule \/ i = n
      BY <1>5, ReplacedRules
    <2> HIDE DEF n
    <2>2. UniqueRules'
      <3> SUFFICES ASSUME NEW i \in DOMAIN rule', NEW j \in DOMAIN rule',
                          rule'[i].employee = rule'[j].employee,
                          \/ rule'[i].employee = None /\ rule'[i].active /\ rule'[j].active
                          \/ /\ rule'[i].employee # None /\ rule'[i].to = Forever
                             /\ rule'[j].to = Forever
                   PROVE  i = j
        BY DEF UniqueRules
      <3>1. ASSUME NEW k \in DOMAIN rule, rule'[k].employee = None, rule'[k].active PROVE FALSE
        <4>1. k \in ActiveDefaults \ {call[c].seen}
          BY <2>1, <3>1 DEF ActiveDefaults
        <4> QED
          BY <1>5, <4>1 DEF DuplicateDefault
      <3>2. CASE i \in DOMAIN rule /\ j \in DOMAIN rule
        BY <2>1, <3>2 DEF RowsInv, UniqueRules
      <3>3. CASE i = n \/ j = n
        BY <2>1, <3>1, <3>3
      <3> QED
        BY <2>1, <3>2, <3>3
    <2>3. Ordered' /\ assignment' \in Seq(Assignment)
      BY <1>3 DEF RowsInv, WorkforceTypeOK, Ordered
    <2>4. RowsStay
      BY <1>3, <2>1 DEF RowsStay
    <2>5. ASSUME NEW e \in Employees PROVE SameOverrides(e)
      BY <2>1, WorkforceAssumption DEF SameOverrides
    <2>6. \A x \in Calls : Spared(call[x])
      <3> SUFFICES ASSUME NEW x \in Calls PROVE Spared(call[x])
        OBVIOUS
      <3>1. call[x].op = "OVERRIDE" => call[x].subject \in Employees
        BY DEF RowsInv, Stage
      <3> QED
        BY <1>3, <2>5, <3>1 DEF Spared, SameAssignments
    <2>7. call' \in [Calls -> Call] /\ call'[c] = Over(call[c])
          /\ \A x \in Calls \ {c} : call'[x] = call[x]
      BY <1>2, <1>3 DEF Become, RowsInv, WorkforceTypeOK
    <2> QED
      BY <1>3, <2>1, <2>2, <2>3, <2>4, <2>6, <2>7, WriteKeeps
  <1> QED
    BY <1>4, <1>5

\* What a new override leaves of the rules: its employee's open ones are closed on
\* the day before it, the new one is the last row.
LEMMA OverriddenRules ==
    ASSUME RowsInv, NEW c \in Calls, CreateOverride(c), NEW q, q = call[c], rule' # rule
    PROVE  /\ rule' \in Seq(Rule) /\ Len(rule') = Len(rule) + 1
           /\ rule'[Len(rule) + 1].employee = q.subject
           /\ rule'[Len(rule) + 1].from = q.from /\ rule'[Len(rule) + 1].to = q.to
           /\ \A i \in DOMAIN rule :
                 /\ i \in DOMAIN rule' /\ rule'[i].employee = rule[i].employee
                 /\ rule'[i].from = rule[i].from /\ rule'[i].active = rule[i].active
                 /\ q.seen # 0 /\ i \in OpenOverrides(q.subject) =>
                       rule'[i].to = StartOf(q.from) - 1
                 /\ ~(q.seen # 0 /\ i \in OpenOverrides(q.subject)) => rule'[i].to = rule[i].to
                 /\ q.to = Forever => ~(rule'[i].employee = q.subject /\ rule'[i].to = Forever)
           /\ \A i \in DOMAIN rule' : i \in DOMAIN rule \/ i = Len(rule) + 1
           /\ WriteAs(c, RuleCalls(q.subject))
  <1>1. q \in Call /\ Stage(q) /\ q.op = "OVERRIDE" /\ rule \in Seq(Rule)
    BY DEF RowsInv, WorkforceTypeOK, CreateOverride
  <1> DEFINE row == [employee |-> q.subject, off |-> q.off, active |-> TRUE, from |-> q.from,
                     to |-> q.to]
             closed == AfterCloseOverride(q)
             duplicate == q.to = Forever /\ \E i \in DOMAIN closed :
                             closed[i].employee = q.subject /\ closed[i].to = Forever
             ending == StartOf(q.from) - 1
  <1>2. ~duplicate /\ rule' = Append(closed, row) /\ WriteAs(c, RuleCalls(q.subject))
    BY DEF CreateOverride
  <1>3. row \in Rule /\ row.employee = q.subject /\ row.from = q.from /\ row.to = q.to
    BY <1>1 DEF Call, Rule, Stage
  <1>4. ending \in Dates \cup {Always, Forever}
    <2>1. q.from \in Dates \cup {Always}
      BY <1>1 DEF Call
    <2> QED
      BY <2>1, WorkforceAssumption DEF StartOf, Dates, Always, Forever
  <1> DEFINE shut(i) == [rule[i] EXCEPT !.to = ending]
  <1>5. ASSUME NEW i \in DOMAIN rule
        PROVE  /\ shut(i) \in Rule /\ shut(i).employee = rule[i].employee
               /\ shut(i).from = rule[i].from /\ shut(i).active = rule[i].active
               /\ shut(i).to = ending
    <2>1. rule[i] \in Rule
      BY <1>1
    <2> HIDE DEF ending
    <2> QED
      BY <1>4, <2>1 DEF Rule
  <1>6. closed = [i \in DOMAIN rule |->
                     IF q.seen # 0 /\ i \in OpenOverrides(q.subject) THEN shut(i) ELSE rule[i]]
    BY DEF AfterCloseOverride
  <1> HIDE DEF shut, ending
  <1>7. /\ DOMAIN closed = DOMAIN rule
        /\ \A i \in DOMAIN rule : closed[i] \in Rule
        /\ \A i \in DOMAIN rule :
              closed[i] = IF q.seen # 0 /\ i \in OpenOverrides(q.subject) THEN shut(i) ELSE rule[i]
    BY <1>1, <1>5, <1>6
  <1> HIDE DEF closed, row
  <1>8. closed \in Seq(Rule) /\ Len(closed) = Len(rule)
    <2>1. DOMAIN rule = 1..Len(rule) /\ Len(rule) \in Nat
      BY <1>1
    <2>2. closed \in [1..Len(rule) -> Rule]
      BY <1>6, <1>7, <2>1 DEF closed
    <2> QED
      BY <2>1, <2>2
  <1>9. /\ rule' \in Seq(Rule) /\ Len(rule') = Len(rule) + 1 /\ rule'[Len(rule) + 1] = row
        /\ \A i \in DOMAIN rule : i \in DOMAIN rule' /\ rule'[i] = closed[i]
        /\ \A i \in DOMAIN rule' : i \in DOMAIN rule \/ i = Len(rule) + 1
    <2>1. rule' = Append(closed, row) /\ row \in Rule /\ rule \in Seq(Rule)
      BY <1>1, <1>2, <1>3
    <2>2. closed \in Seq(Rule) /\ Len(closed) = Len(rule) /\ DOMAIN closed = DOMAIN rule
      BY <1>7, <1>8
    <2>3. /\ rule' \in Seq(Rule) /\ Len(rule') = Len(rule) + 1 /\ rule'[Len(rule) + 1] = row
          /\ \A i \in DOMAIN rule : i \in DOMAIN rule' /\ rule'[i] = closed[i]
          /\ \A i \in DOMAIN rule' : i \in DOMAIN rule \/ i = Len(rule) + 1
      BY ONLY <2>1, <2>2
    <2> QED
      BY <2>3
  <1>10. ASSUME NEW i \in DOMAIN rule
         PROVE  /\ i \in DOMAIN rule' /\ rule'[i].employee = rule[i].employee
                /\ rule'[i].from = rule[i].from /\ rule'[i].active = rule[i].active
                /\ q.seen # 0 /\ i \in OpenOverrides(q.subject) => rule'[i].to = ending
                /\ ~(q.seen # 0 /\ i \in OpenOverrides(q.subject)) => rule'[i].to = rule[i].to
                /\ q.to = Forever => ~(rule'[i].employee = q.subject /\ rule'[i].to = Forever)
    BY <1>2, <1>5, <1>7, <1>9
  <1> QED
    BY <1>2, <1>3, <1>9, <1>10 DEF ending

\* A new weekly-off override.
LEMMA CreateOverrideKeeps ==
    ASSUME RowsInv, NEW c \in Calls, CreateOverride(c)
    PROVE  RowsInv'
  <1>1. PICK q : q = call[c]
    OBVIOUS
  <1>2. q \in Call /\ Stage(q) /\ Known(q) /\ q.op = "OVERRIDE" /\ rule \in Seq(Rule)
    BY <1>1 DEF RowsInv, WorkforceTypeOK, CreateOverride
  <1>3. UNCHANGED <<template, assignment, holiday, agenda>> /\ \E s : WriteAs(c, s)
    BY DEF CreateOverride
  <1>4. Ordered' /\ assignment' \in Seq(Assignment)
    BY <1>3 DEF RowsInv, WorkforceTypeOK, Ordered
  <1>5. \A e : SameAssignments(e)
    BY <1>3 DEF SameAssignments
  <1>6. CASE rule' = rule
    <2>1. RowsStay /\ UniqueRules' /\ rule' \in Seq(Rule)
      BY <1>2, <1>3, <1>6 DEF RowsStay, RowsInv, UniqueRules
    <2>2. \A x \in Calls : Spared(call[x])
      BY <1>5, <1>6 DEF Spared, SameOverrides
    <2> QED
      BY <1>3, <1>4, <2>1, <2>2, WriteMarks, WriteKeeps
  <1>7. CASE rule' # rule
    <2> DEFINE n == Len(rule) + 1
    <2>1. q.subject \in Employees /\ q.subject # None /\ q.from \in Dates \cup {Always}
      BY <1>2, WorkforceAssumption DEF Stage, Call
    <2>2. /\ rule' \in Seq(Rule) /\ rule'[n].employee = q.subject
          /\ rule'[n].from = q.from /\ rule'[n].to = q.to /\ n \notin DOMAIN rule
          /\ \A i \in DOMAIN rule' : i \in DOMAIN rule \/ i = n
      BY <1>1, <1>2, <1>7, OverriddenRules
    <2>3. \A i \in DOMAIN rule :
             /\ i \in DOMAIN rule' /\ rule'[i].employee = rule[i].employee
             /\ rule'[i].from = rule[i].from /\ rule'[i].active = rule[i].active
             /\ q.seen # 0 /\ i \in OpenOverrides(q.subject) =>
                   rule'[i].to = StartOf(q.from) - 1
             /\ ~(q.seen # 0 /\ i \in OpenOverrides(q.subject)) => rule'[i].to = rule[i].to
             /\ q.to = Forever => ~(rule'[i].employee = q.subject /\ rule'[i].to = Forever)
      BY <1>1, <1>7, OverriddenRules
    <2>4. WriteAs(c, RuleCalls(q.subject))
      BY <1>1, <1>7, OverriddenRules
    <2> HIDE DEF n
    <2>5. StartOf(q.from) - 1 # Forever
      BY <2>1, WorkforceAssumption DEF StartOf, Dates, Always, Forever
    <2>6. UniqueRules'
      <3> SUFFICES ASSUME NEW i \in DOMAIN rule', NEW j \in DOMAIN rule',
                          rule'[i].employee = rule'[j].employee,
                          \/ rule'[i].employee = None /\ rule'[i].active /\ rule'[j].active
                          \/ /\ rule'[i].employee # None /\ rule'[i].to = Forever
                             /\ rule'[j].to = Forever
                   PROVE  i = j
        BY DEF UniqueRules
      <3>1. CASE i \in DOMAIN rule /\ j \in DOMAIN rule
        <4>1. ASSUME NEW k \in DOMAIN rule, rule'[k].to = Forever PROVE rule[k].to = Forever
          BY <2>3, <2>5, <4>1
        <4> QED
          BY <2>3, <3>1, <4>1 DEF RowsInv, UniqueRules
      <3>2. CASE i = n \/ j = n
        BY <2>1, <2>2, <2>3, <3>2
      <3> QED
        BY <2>2, <3>1, <3>2
    <2>7. RowsStay
      BY <1>3, <2>3 DEF RowsStay
    <2>8. ASSUME NEW e, e # q.subject PROVE SameOverrides(e)
      BY <2>2, <2>3, <2>8 DEF SameOverrides, OpenOverrides
    <2>9. ASSUME NEW x \in Calls \ {c}, ~Spared(call[x]), Deciding(call[x])
          PROVE  x \in RuleCalls(q.subject)
      BY <1>5, <2>8, <2>9 DEF Spared, RuleCalls, Deciding
    <2>10. \A x \in Calls \ {c} : Spared(call[x]) \/ ~Deciding(call[x]) \/ call'[x].outdated
      BY <2>4, <2>9, WriteMarks
    <2> QED
      BY <1>3, <1>4, <2>2, <2>4, <2>6, <2>7, <2>10, WriteMarks, WriteKeeps
  <1> QED
    BY <1>6, <1>7

-----------------------------------------------------------------------------
(* Whoever overlaps spares the rows                                        *)

\* A request keeps the rows in order.
LEMMA RequestKeeps ==
    ASSUME RowsInv, NEW c \in Calls, Request(c)
    PROVE  RowsInv'
  <1>1. CASE \E e \in Employees, s \in Schedules, h \in Shifts \cup {None}, from \in Dates,
                to \in Dates \cup {Forever}, overlap \in BOOLEAN :
                ArriveAssign(c, e, s, h, from, to, overlap)
    BY <1>1, ArriveAssignKeeps
  <1>2. CASE \E i \in DOMAIN assignment, to \in Dates \cup {Forever} : ArriveShorten(c, i, to)
    BY <1>2, ArriveShortenKeeps
  <1>3. CASE \E t \in Templates, w \in Windows, g \in Graces : UpdateTemplate(c, t, w, g)
    BY <1>3, UpdateTemplateKeeps
  <1>4. CASE \E t \in Templates, active \in BOOLEAN : ArriveSwitch(c, t, active)
    BY <1>4, ArriveSwitchKeeps
  <1>5. CASE \E off \in OffSets : ReadDefault(c, off)
    BY <1>5, ReadDefaultKeeps
  <1>6. CASE \E e \in Employees, off \in OffSets, from \in Dates \cup {Always},
                to \in Dates \cup {Forever} : FindOpenOverride(c, e, off, from, to)
    BY <1>6, FindOverrideKeeps
  <1>7. CASE \E p \in Places, d \in Dates : CreateHoliday(c, p, d)
    BY <1>7, CreateHolidayKeeps
  <1>8. CASE \E p \in Places, d \in Dates, active \in BOOLEAN : SetHolidayActive(c, p, d, active)
    BY <1>8, SetHolidayKeeps
  <1> QED
    BY <1>1, <1>2, <1>3, <1>4, <1>5, <1>6, <1>7, <1>8 DEF Request

\* Every step keeps the rows in order.
LEMMA StepKeeps == ASSUME RowsInv, [Next]_vars PROVE RowsInv'
  <1>1. CASE \E c \in Calls : WorkforceStep(c)
    <2>1. PICK c \in Calls : WorkforceStep(c)
      BY <1>1
    <2> QED
      BY <2>1, RequestKeeps, FindOpenKeeps, CheckOverlapKeeps, CreateAssignmentKeeps,
         CheckShortensKeeps, UpdateAssignmentKeeps, CountKeeps, SetActiveKeeps,
         ReplaceDefaultKeeps, CreateOverrideKeeps, CrashKeeps DEF WorkforceStep
  <1>2. CASE UNCHANGED workforceVars
    BY <1>2 DEF workforceVars, RowsInv, WorkforceTypeOK, Ordered, UniqueRules, Stage, Known,
       FindOverlapping, WillAutoCloseOpen, OpenOverrides
  <1> QED
    BY <1>1, <1>2 DEF Next, vars

\* The rows are in order in every behaviour.
LEMMA RowsInvariant == Spec => []RowsInv
  <1>1. RowsInv /\ [Next]_vars => RowsInv'
    BY StepKeeps
  <1> QED
    BY <1>1, InitRows, PTL DEF Spec

\* Only these steps write assignments and rules.
LEMMA WhoWrites ==
    ASSUME NEW c \in Calls, WorkforceStep(c)
    PROVE  /\ assignment' = assignment \/ CreateAssignment(c) \/ UpdateAssignment(c)
           /\ rule' = rule \/ ReplaceDefault(c) \/ CreateOverride(c)
  BY Zenon DEF WorkforceStep, Request, ArriveAssign, ArriveShorten, UpdateTemplate, ArriveSwitch,
     ReadDefault, FindOpenOverride, CreateHoliday, SetHolidayActive, FindOpenForEmployee,
     CheckOverlap, CreateAssignment, CheckShortens, UpdateAssignment, CountActiveAssignments,
     SetActive, ReplaceDefault, CreateOverride, Crash

\* A step of c moves no other call on.
LEMMA OthersWait ==
    ASSUME RowsInv, NEW c \in Calls, WorkforceStep(c), NEW x \in Calls, x # c
    PROVE  call'[x].pc = call[x].pc
  <1>1. call \in [Calls -> Call]
    BY DEF RowsInv, WorkforceTypeOK
  <1>2. CASE \E q : Become(c, q)
    BY <1>1, <1>2 DEF Become
  <1>3. CASE \E others : WriteAs(c, others)
    <2>1. PICK others : WriteAs(c, others)
      BY <1>3
    <2>2. call'[x] \in {call[x], [call[x] EXCEPT !.outdated = TRUE]}
      BY <2>1, WriteMarks
    <2> QED
      BY <1>1, <2>2 DEF Call
  <1>4. (\E q : Become(c, q)) \/ (\E others : WriteAs(c, others))
    BY Zenon DEF WorkforceStep, Request, ArriveAssign, ArriveShorten, UpdateTemplate,
       ArriveSwitch, ReadDefault, FindOpenOverride, CreateHoliday, SetHolidayActive,
       FindOpenForEmployee, CheckOverlap, CreateAssignment, CheckShortens, UpdateAssignment,
       CountActiveAssignments, SetActive, ReplaceDefault, CreateOverride, Crash
  <1> QED
    BY <1>2, <1>3, <1>4

\* The call that commits is the one that moves.
LEMMA CommitIsAStep ==
    ASSUME RowsInv, NEW c \in Calls, WorkforceStep(c), NEW x \in Calls, Commits(x)
    PROVE  x = c
  BY OthersWait DEF Commits

\* What an insert that goes through leaves of the assignments.
LEMMA AssignedRows ==
    ASSUME RowsInv, NEW c \in Calls, CreateAssignment(c), NEW q, q = call[c]
    PROVE  \/ assignment' = assignment
           \/ /\ Len(assignment') = Len(assignment) + 1
              /\ assignment'[Len(assignment) + 1].employee = q.subject
              /\ assignment'[Len(assignment) + 1].from = q.from
              /\ assignment'[Len(assignment) + 1].to = q.to
              /\ \A i \in DOMAIN assignment :
                    /\ i \in DOMAIN assignment'
                    /\ assignment'[i].employee = assignment[i].employee
                    /\ assignment'[i].from = assignment[i].from
                    /\ WillAutoCloseOpen(q) /\ i = q.seen =>
                          assignment'[i].to = q.from - 1 /\ assignment[i].from < q.from
                    /\ ~(WillAutoCloseOpen(q) /\ i = q.seen) => assignment'[i] = assignment[i]
              /\ \A i \in DOMAIN assignment' : i \in DOMAIN assignment \/ i = Len(assignment) + 1
  <1>1. q \in Call /\ Stage(q) /\ q.op = "ASSIGN" /\ assignment \in Seq(Assignment)
    BY DEF RowsInv, WorkforceTypeOK, CreateAssignment
  <1> DEFINE row == [employee |-> q.subject, schedule |-> q.schedule, shift |-> q.shift,
                     from |-> q.from, to |-> q.to]
             closed == AfterClose(q)
  <1>2. assignment' = assignment \/ assignment' = Append(closed, row)
    BY DEF CreateAssignment
  <1>3. row \in Assignment /\ row.employee = q.subject /\ row.from = q.from /\ row.to = q.to
    BY <1>1 DEF Call, Stage, Assignment
  <1>4. closed \in Seq(Assignment) /\ DOMAIN closed = DOMAIN assignment
        /\ Len(closed) = Len(assignment)
    BY <1>1, AfterCloseRows
  <1>5. \A i \in DOMAIN assignment :
           /\ closed[i].employee = assignment[i].employee
           /\ closed[i].from = assignment[i].from
           /\ WillAutoCloseOpen(q) /\ i = q.seen =>
                 closed[i].to = q.from - 1 /\ assignment[i].from < q.from
           /\ ~(WillAutoCloseOpen(q) /\ i = q.seen) => closed[i] = assignment[i]
    BY <1>1, AfterCloseRows
  <1> HIDE DEF row, closed
  <1>6. ASSUME assignment' = Append(closed, row)
        PROVE  /\ Len(assignment') = Len(assignment) + 1
               /\ assignment'[Len(assignment) + 1] = row
               /\ \A i \in DOMAIN assignment : i \in DOMAIN assignment' /\ assignment'[i] = closed[i]
               /\ \A i \in DOMAIN assignment' : i \in DOMAIN assignment \/ i = Len(assignment) + 1
    BY ONLY <1>1, <1>3, <1>4, <1>6
  <1> QED
    BY <1>2, <1>3, <1>5, <1>6

\* The assertions of RangesStayOrdered about one step.
LEMMA RangesStep ==
    ASSUME RowsInv, RowsInv', NEW c \in Calls, WorkforceStep(c)
    PROVE  /\ Inverted(assignment') = {}
           /\ \A x \in Calls : Commits(x) /\ ~call[x].outdated => Inverted(rule') \subseteq Inverted(rule)
  <1>1. Inverted(assignment') = {}
    <2> SUFFICES ASSUME NEW i \in DOMAIN assignment', assignment'[i].to < assignment'[i].from
                 PROVE  FALSE
      BY DEF Inverted
    <2>1. assignment' \in Seq(Assignment) /\ assignment'[i].from <= assignment'[i].to
      BY DEF RowsInv, WorkforceTypeOK, Ordered
    <2>2. assignment'[i] \in Assignment
      BY <2>1
    <2>3. assignment'[i].from \in Nat /\ assignment'[i].to \in Nat
      BY <2>2, WorkforceAssumption DEF Assignment, Dates, Always, Forever
    <2> QED
      BY <2>1, <2>3
  <1>2. ASSUME NEW x \in Calls, Commits(x), ~call[x].outdated,
               NEW i \in DOMAIN rule', rule'[i].to < rule'[i].from
        PROVE  i \in DOMAIN rule /\ rule[i].to < rule[i].from
    <2>1. x = c
      BY <1>2, CommitIsAStep
    <2>2. PICK q : q = call[c]
      OBVIOUS
    <2>3. q \in Call /\ Stage(q) /\ Known(q) /\ ~q.outdated
      BY <1>2, <2>1, <2>2 DEF RowsInv, WorkforceTypeOK
    <2>4. CASE rule' = rule
      BY <1>2, <2>4
    <2>5. CASE ReplaceDefault(c)
      <3>1. CASE DuplicateDefault(call[c].seen)
        BY <2>4, <2>5, <3>1 DEF ReplaceDefault
      <3>2. CASE ~DuplicateDefault(call[c].seen)
        <4>1. /\ rule'[Len(rule) + 1].from = Always /\ rule'[Len(rule) + 1].to = Forever
              /\ \A j \in DOMAIN rule : rule'[j].from = rule[j].from /\ rule'[j].to = rule[j].to
              /\ \A j \in DOMAIN rule' : j \in DOMAIN rule \/ j = Len(rule) + 1
          BY <2>5, <3>2, ReplacedRules
        <4> QED
          BY <1>2, <4>1, WorkforceAssumption DEF Always, Forever
      <3> QED
        BY <3>1, <3>2
    <2>6. CASE CreateOverride(c) /\ rule' # rule
      <3>1. /\ rule'[Len(rule) + 1].from = q.from /\ rule'[Len(rule) + 1].to = q.to
            /\ \A j \in DOMAIN rule :
                  /\ rule'[j].from = rule[j].from
                  /\ q.seen # 0 /\ j \in OpenOverrides(q.subject) =>
                        rule'[j].to = StartOf(q.from) - 1
                  /\ ~(q.seen # 0 /\ j \in OpenOverrides(q.subject)) => rule'[j].to = rule[j].to
            /\ \A j \in DOMAIN rule' : j \in DOMAIN rule \/ j = Len(rule) + 1
        BY <2>2, <2>6, OverriddenRules
      <3>2. q.op = "OVERRIDE" /\ q.pc = "write"
        BY <2>2, <2>6 DEF CreateOverride
      <3>3. q.from \in Nat /\ q.to \in Nat /\ q.from <= q.to /\ StartOf(q.from) \in Nat
        BY <2>3, <3>2, WorkforceAssumption DEF Stage, Call, Dates, Always, Forever, StartOf
      <3>4. CASE i = Len(rule) + 1
        BY <1>2, <3>1, <3>3, <3>4
      <3>5. CASE i \in DOMAIN rule /\ q.seen # 0 /\ i \in OpenOverrides(q.subject)
        <4>1. rule[i].from < StartOf(q.from)
          BY <2>3, <3>2, <3>5 DEF Known
        <4>2. rule[i] \in Rule
          BY <3>5 DEF RowsInv, WorkforceTypeOK
        <4>3. rule[i].from \in Nat
          BY <4>2, WorkforceAssumption DEF Rule, Dates, Always
        <4> QED
          BY <1>2, <3>1, <3>3, <3>5, <4>1, <4>3
      <3>6. CASE i \in DOMAIN rule /\ ~(q.seen # 0 /\ i \in OpenOverrides(q.subject))
        BY <1>2, <3>1, <3>6
      <3> QED
        BY <1>2, <3>1, <3>4, <3>5, <3>6
    <2> QED
      BY <2>4, <2>5, <2>6, WhoWrites
  <1> QED
    BY <1>1, <1>2 DEF Inverted

\* The assertions of FreshAssignIsExact about one step.
LEMMA FreshAssignStep ==
    ASSUME RowsInv, NEW c \in Calls, WorkforceStep(c), NEW x \in Calls, Commits(x),
           call[x].op = "ASSIGN", ~call[x].outdated, ~(assignment' = assignment), NEW d \in Dates
    PROVE  /\ d < call[x].from => Covering(call[x].subject, d)' = Covering(call[x].subject, d)
           /\ d \in call[x].from..call[x].to /\ ~call[x].flag =>
                 {i \in DOMAIN assignment' : /\ assignment'[i].employee = call[x].subject
                                             /\ Covers(assignment'[i], d)}
                 = {Len(assignment')}
  <1>1. x = c
    BY CommitIsAStep
  <1>2. PICK q : q = call[c]
    OBVIOUS
  <1>3. q \in Call /\ Stage(q) /\ Known(q) /\ ~q.outdated /\ q.op = "ASSIGN" /\ q.pc = "write"
    BY <1>1, <1>2 DEF RowsInv, WorkforceTypeOK, Commits
  <1>4. CreateAssignment(c)
    BY <1>1, WhoWrites DEF UpdateAssignment
  <1> DEFINE n == Len(assignment) + 1
  <1>5. /\ Len(assignment') = n
        /\ assignment'[n].employee = q.subject /\ assignment'[n].from = q.from
        /\ assignment'[n].to = q.to
    BY <1>2, <1>4, AssignedRows
  <1>6. /\ \A i \in DOMAIN assignment :
              /\ i \in DOMAIN assignment'
              /\ assignment'[i].employee = assignment[i].employee
              /\ assignment'[i].from = assignment[i].from
              /\ WillAutoCloseOpen(q) /\ i = q.seen =>
                    assignment'[i].to = q.from - 1 /\ assignment[i].from < q.from
              /\ ~(WillAutoCloseOpen(q) /\ i = q.seen) => assignment'[i] = assignment[i]
        /\ \A i \in DOMAIN assignment' : i \in DOMAIN assignment \/ i = n
    BY <1>2, <1>4, AssignedRows
  <1>7. /\ q.from \in Nat /\ q.to \in Nat /\ q.from <= q.to /\ d \in Nat /\ d <= LastDate
        /\ LastDate \in Nat
    BY <1>3, WorkforceAssumption DEF Stage, Dates, Forever
  <1>8. \A i \in DOMAIN assignment : assignment[i].from \in Nat /\ assignment[i].to \in Nat
    <2> SUFFICES ASSUME NEW i \in DOMAIN assignment
                 PROVE  assignment[i].from \in Nat /\ assignment[i].to \in Nat
      OBVIOUS
    <2>1. assignment[i] \in Assignment
      BY DEF RowsInv, WorkforceTypeOK
    <2> QED
      BY <2>1, WorkforceAssumption DEF Assignment, Dates, Always, Forever
  <1>9. DOMAIN assignment' = DOMAIN assignment \cup {n} /\ n \notin DOMAIN assignment
    <2>1. DOMAIN assignment = 1..Len(assignment) /\ Len(assignment) \in Nat
      BY DEF RowsInv, WorkforceTypeOK
    <2>2. DOMAIN assignment' = 1..n
      <3>1. assignment' \in Seq(Assignment)
        BY <1>4, CreateAssignmentKeeps DEF RowsInv, WorkforceTypeOK
      <3> QED
        BY <1>5, <3>1
    <2> QED
      BY <2>1, <2>2
  <1>10. WillAutoCloseOpen(q) => q.seen \in DOMAIN assignment /\ assignment[q.seen].to = Forever
                                 /\ assignment[q.seen].employee = q.subject
    BY <1>3 DEF Stage, Known, WillAutoCloseOpen
  <1> HIDE DEF n
  <1>11. ASSUME d < q.from, NEW i \in DOMAIN assignment'
         PROVE  /\ i # n
                   => (Covers(assignment'[i], d) <=> Covers(assignment[i], d))
                /\ i = n => ~Covers(assignment'[i], d)
    <2>1. CASE i = n
      BY <1>5, <1>7, <1>11, <2>1 DEF Covers
    <2>2. CASE i # n /\ WillAutoCloseOpen(q) /\ i = q.seen
      BY <1>6, <1>7, <1>8, <1>9, <1>10, <1>11, <2>2 DEF Covers, Forever
    <2>3. CASE i # n /\ ~(WillAutoCloseOpen(q) /\ i = q.seen)
      BY <1>6, <1>9, <2>3
    <2> QED
      BY <2>1, <2>2, <2>3
  <1> DEFINE Now == {i \in DOMAIN assignment : assignment[i].employee = q.subject
                                               /\ Covers(assignment[i], d)}
             Then == {i \in DOMAIN assignment' : assignment'[i].employee = q.subject
                                                 /\ Covers(assignment'[i], d)}
  <1>12. ASSUME d < q.from PROVE Covering(q.subject, d)' = Covering(q.subject, d)
    <2>1. Then = Now
      BY <1>6, <1>9, <1>11, <1>12
    <2>2. \A i \in Now : assignment'[i].from = assignment[i].from
      BY <1>6
    <2>3. Covering(q.subject, d) = {i \in Now : \A j \in Now : assignment[j].from <= assignment[i].from}
      BY DEF Covering
    <2>4. Covering(q.subject, d)'
             = {i \in Then : \A j \in Then : assignment'[j].from <= assignment'[i].from}
      BY DEF Covering, Covers
    <2> HIDE DEF Now, Then
    <2> QED
      BY <2>1, <2>2, <2>3, <2>4
  <1>13. ASSUME d \in q.from..q.to, ~q.flag PROVE Then = {n}
    <2>1. n \in Then
      BY <1>5, <1>7, <1>9, <1>13 DEF Covers
    <2>2. ASSUME NEW i \in Then, i # n PROVE FALSE
      <3>1. i \in DOMAIN assignment /\ assignment[i].employee = q.subject
        BY <1>6, <1>9, <2>2
      <3>2. CASE WillAutoCloseOpen(q) /\ i = q.seen
        <4>1. assignment'[i].to = q.from - 1
          BY <1>6, <3>1, <3>2
        <4>2. d <= assignment'[i].to
          BY <2>2 DEF Covers
        <4> QED
          BY <1>7, <1>13, <4>1, <4>2
      <3>3. CASE ~(WillAutoCloseOpen(q) /\ i = q.seen)
        <4>1. assignment[i].from <= d /\ d <= assignment[i].to
          BY <1>6, <2>2, <3>1, <3>3 DEF Covers
        <4>2. i \in FindOverlapping(q.subject, q.from, q.to)
          BY <1>7, <1>8, <1>13, <3>1, <4>1 DEF FindOverlapping
        <4> QED
          BY <1>3, <1>13, <3>3, <4>2 DEF Known
      <3> QED
        BY <3>2, <3>3
    <2> HIDE DEF Then
    <2> QED
      BY <2>1, <2>2
  <1>14. call'[x].subject = q.subject
    <2>1. \E s : WriteAs(c, s)
      BY <1>4 DEF CreateAssignment
    <2>2. call'[x] = Over(q)
      BY <1>1, <1>2, <2>1, WriteMarks
    <2> QED
      BY <1>3, <2>2 DEF Over, Call
  <1>15. d < call[x].from => Covering(call[x].subject, d)' = Covering(call[x].subject, d)
    <2> SUFFICES ASSUME d < q.from PROVE Covering(call[x].subject, d)' = Covering(call[x].subject, d)
      BY <1>1, <1>2
    <2>1. Covering(call[x].subject, d) = Covering(q.subject, d)
      BY <1>1, <1>2
    <2>2. Covering(call[x].subject, d)' = Covering(q.subject, d)'
      BY <1>14 DEF Covering
    <2> QED
      BY <1>12, <2>1, <2>2
  <1> HIDE DEF Then
  <1>16. d \in call[x].from..call[x].to /\ ~call[x].flag => Then = {Len(assignment')}
    BY <1>1, <1>2, <1>5, <1>13
  <1> QED
    BY <1>1, <1>2, <1>15, <1>16 DEF Then

\* The assertion of OnlyOutdatedCallsExtend about one step.
LEMMA ExtendStep ==
    ASSUME RowsInv, NEW c \in Calls, WorkforceStep(c), NEW i \in DOMAIN assignment,
           assignment'[i].to > assignment[i].to
    PROVE  Commits(c) /\ call[c].outdated
  <1>1. PICK q : q = call[c]
    OBVIOUS
  <1>2. q \in Call /\ Stage(q) /\ Known(q)
    BY <1>1 DEF RowsInv, WorkforceTypeOK
  <1>3. assignment[i] \in Assignment /\ assignment \in Seq(Assignment)
    BY DEF RowsInv, WorkforceTypeOK
  <1>4. assignment[i].to \in Nat /\ assignment[i].to <= Forever /\ LastDate \in Nat
    BY <1>3, WorkforceAssumption DEF Assignment, Dates, Always, Forever
  <1>5. ~(assignment' = assignment)
    BY <1>4
  <1>6. ASSUME WriteAs(c, AssignmentCalls(q.subject)) \/ \E s : WriteAs(c, s), q.pc = "write",
               q.op # "NONE"
        PROVE  Commits(c)
    <2>1. call'[c] = Over(q)
      BY <1>1, <1>6, WriteMarks
    <2> QED
      BY <1>1, <1>2, <1>6, <2>1 DEF Commits, Over, Call
  <1>7. CASE CreateAssignment(c)
    <2>1. q.op = "ASSIGN" /\ q.pc = "write" /\ \E s : WriteAs(c, s)
      BY <1>1, <1>7 DEF CreateAssignment
    <2>2. /\ WillAutoCloseOpen(q) /\ i = q.seen => assignment'[i].to = q.from - 1
          /\ ~(WillAutoCloseOpen(q) /\ i = q.seen) => assignment'[i] = assignment[i]
      BY <1>1, <1>5, <1>7, AssignedRows
    <2>3. WillAutoCloseOpen(q) /\ i = q.seen /\ assignment'[i].to = q.from - 1
      BY <1>4, <2>2
    <2>4. q.from \in Nat /\ q.from <= LastDate
      BY <1>2, <2>1, WorkforceAssumption DEF Stage, Dates
    <2>5. assignment[i].to # Forever
      BY <1>4, <2>3, <2>4 DEF Forever
    <2>6. q.outdated
      BY <1>2, <2>1, <2>3, <2>5 DEF Known, WillAutoCloseOpen
    <2> QED
      BY <1>1, <1>6, <2>1, <2>6
  <1>8. CASE UpdateAssignment(c)
    <2>1. q.op = "SHORTEN" /\ q.pc = "write" /\ \E s : WriteAs(c, s)
      BY <1>1, <1>8 DEF UpdateAssignment
    <2>2. assignment' = [assignment EXCEPT ![q.seen].to = q.to]
      BY <1>1, <1>8 DEF UpdateAssignment
    <2>3. q.seen = i /\ assignment'[i].to = q.to
      BY <1>3, <1>4, <2>2 DEF Assignment
    <2>4. q.to \in Nat
      BY <1>2, WorkforceAssumption DEF Call, Dates, Always, Forever
    <2>5. q.outdated
      BY <1>2, <1>4, <2>1, <2>3, <2>4 DEF Known
    <2> QED
      BY <1>1, <1>6, <2>1, <2>5
  <1> QED
    BY <1>5, <1>7, <1>8, WhoWrites

\* The assertion of DefaultNeverLapses about one step.
LEMMA DefaultStep ==
    ASSUME RowsInv, NEW c \in Calls, WorkforceStep(c), ActiveDefaults # {}
    PROVE  Cardinality(ActiveDefaults') = 1
  <1>1. PICK i : i \in ActiveDefaults
    OBVIOUS
  <1>2. ActiveDefaults = {i}
    BY <1>1 DEF ActiveDefaults, RowsInv, UniqueRules
  <1>3. CASE rule' = rule
    BY <1>2, <1>3, FS_Singleton DEF ActiveDefaults
  <1>4. CASE ReplaceDefault(c) /\ ~(rule' = rule)
    <2>1. ~DuplicateDefault(call[c].seen)
      BY <1>4 DEF ReplaceDefault
    <2> DEFINE n == Len(rule) + 1
    <2>2. /\ rule' \in Seq(Rule) /\ Len(rule') = n
          /\ rule'[n].employee = None /\ rule'[n].active
          /\ \A j \in DOMAIN rule : rule'[j].employee = rule[j].employee
                                    /\ (rule'[j].active => rule[j].active /\ j # call[c].seen)
          /\ \A j \in DOMAIN rule' : j \in DOMAIN rule \/ j = n
      BY <1>4, <2>1, ReplacedRules
    <2>3. n \in DOMAIN rule'
      <3>1. Len(rule) \in Nat
        BY DEF RowsInv, WorkforceTypeOK
      <3> QED
        BY <2>2, <3>1
    <2> HIDE DEF n
    <2>4. ActiveDefaults' = {n}
      <3>1. n \in ActiveDefaults'
        BY <2>2, <2>3 DEF ActiveDefaults
      <3>2. ASSUME NEW j \in ActiveDefaults' PROVE j = n
        <4>1. j \in DOMAIN rule => j \in ActiveDefaults \ {call[c].seen}
          BY <2>2, <3>2 DEF ActiveDefaults
        <4> QED
          BY <2>1, <2>2, <3>2, <4>1 DEF ActiveDefaults, DuplicateDefault
      <3> QED
        BY <3>1, <3>2
    <2> QED
      BY <2>4, FS_Singleton
  <1>5. CASE CreateOverride(c) /\ ~(rule' = rule)
    <2>1. PICK q : q = call[c]
      OBVIOUS
    <2>2. q.subject # None
      BY <1>5, <2>1, WorkforceAssumption DEF CreateOverride, RowsInv, Stage
    <2>3. /\ rule'[Len(rule) + 1].employee = q.subject
          /\ \A j \in DOMAIN rule : j \in DOMAIN rule' /\ rule'[j].employee = rule[j].employee
                                    /\ rule'[j].active = rule[j].active
          /\ \A j \in DOMAIN rule' : j \in DOMAIN rule \/ j = Len(rule) + 1
      BY <1>5, <2>1, OverriddenRules
    <2>4. ActiveDefaults' = {i}
      BY <1>2, <2>2, <2>3 DEF ActiveDefaults
    <2> QED
      BY <2>4, FS_Singleton
  <1> QED
    BY <1>3, <1>4, <1>5, WhoWrites

\* Ranges stay in order, a fresh assignment is exact, only an overtaken call moves an
\* end to a later date, and the company's default never lapses, whatever calls of
\* assignEmployeeSchedule, updateEmployeeScheduleAssignment,
\* setCompanyDefaultWeeklyOff and setEmployeeWeeklyOffOverride overlap.
THEOREM OverlapsSpareRows == Spec => OverlapsSpareTheRows
  <1> DEFINE
        Ranges ==
            /\ Inverted(assignment') = {}
            /\ \A c \in Calls : Commits(c) /\ ~call[c].outdated
                                 => Inverted(rule') \subseteq Inverted(rule)
        Exact ==
            \A c \in Calls :
              Commits(c) /\ call[c].op = "ASSIGN" /\ ~call[c].outdated /\ assignment' # assignment =>
                \A d \in Dates :
                   /\ d < call[c].from => Covering(call[c].subject, d)' = Covering(call[c].subject, d)
                   /\ d \in call[c].from..call[c].to /\ ~call[c].flag =>
                         {i \in DOMAIN assignment' : /\ assignment'[i].employee = call[c].subject
                                                     /\ Covers(assignment'[i], d)}
                         = {Len(assignment')}
        Extended ==
            \A i \in DOMAIN assignment :
                assignment'[i].to > assignment[i].to =>
                    \E c \in Calls : Commits(c) /\ call[c].outdated
        Lasting == ActiveDefaults # {} => Cardinality(ActiveDefaults') = 1
  <1>1. ASSUME RowsInv, RowsInv', [Next]_vars
        PROVE  [Ranges /\ Exact /\ Extended /\ Lasting]_workforceVars
    <2>1. CASE UNCHANGED workforceVars
      BY <2>1
    <2>2. CASE \E c \in Calls : WorkforceStep(c)
      <3>1. PICK c \in Calls : WorkforceStep(c)
        BY <2>2
      <3>2. Ranges
        BY <1>1, <3>1, RangesStep
      <3>3. Exact
        <4> SUFFICES ASSUME NEW x \in Calls, Commits(x), call[x].op = "ASSIGN",
                            ~call[x].outdated, assignment' # assignment, NEW d \in Dates
                     PROVE  /\ d < call[x].from =>
                                  Covering(call[x].subject, d)' = Covering(call[x].subject, d)
                            /\ d \in call[x].from..call[x].to /\ ~call[x].flag =>
                                  {i \in DOMAIN assignment' :
                                      /\ assignment'[i].employee = call[x].subject
                                      /\ Covers(assignment'[i], d)}
                                  = {Len(assignment')}
          BY Zenon
        <4> QED
          BY <1>1, <3>1, FreshAssignStep
      <3>4. Extended
        BY <1>1, <3>1, ExtendStep
      <3>5. Lasting
        BY <1>1, <3>1, DefaultStep
      <3> QED
        BY <3>2, <3>3, <3>4, <3>5
    <2> QED
      BY <1>1, <2>1, <2>2 DEF Next, vars
  <1>2. Spec => [][Ranges /\ Exact /\ Extended /\ Lasting]_workforceVars
    BY <1>1, RowsInvariant, PTL DEF Spec
  <1>3. [][Ranges /\ Exact /\ Extended /\ Lasting]_workforceVars
        => /\ [][Ranges]_workforceVars /\ [][Exact]_workforceVars
           /\ [][Extended]_workforceVars /\ [][Lasting]_workforceVars
    <2> HIDE DEF Ranges, Exact, Extended, Lasting
    <2>1. [Ranges /\ Exact /\ Extended /\ Lasting]_workforceVars
          => /\ [Ranges]_workforceVars /\ [Exact]_workforceVars
             /\ [Extended]_workforceVars /\ [Lasting]_workforceVars
      OBVIOUS
    <2> QED
      BY <2>1, PTL
  <1>4. OverlapsSpareTheRows <=>
            /\ [][Ranges]_workforceVars /\ [][Exact]_workforceVars
            /\ [][Extended]_workforceVars /\ [][Lasting]_workforceVars
    BY DEF OverlapsSpareTheRows, RangesStayOrdered, FreshAssignIsExact,
       OnlyOutdatedCallsExtend, DefaultNeverLapses
  <1> HIDE DEF Ranges, Exact, Extended, Lasting
  <1> QED
    BY <1>2, <1>3, <1>4, PTL

-----------------------------------------------------------------------------
(* Sequences, sorted and folded                                            *)

\* Whatever holds of no least number holds of none.
LEMMA LeastNumber ==
    ASSUME NEW S \in SUBSET Nat, S # {}
    PROVE  \E x \in S : \A y \in S : x <= y
  <1> DEFINE R == {p \in Nat \X Nat : p[1] < p[2]}
  <1>1. IsWellFoundedOn(R, Nat)
    BY NatLessThanWellFounded DEF OpToRel
  <1>2. PICK x \in S : \A y \in S : ~(<<y, x>> \in R)
    <2> HIDE DEF R
    <2> QED
      BY <1>1, WFMin
  <1>3. ASSUME NEW y \in S
        PROVE  x <= y
    <2>1. x \in Nat /\ y \in Nat /\ ~(<<y, x>> \in R)
      BY <1>2
    <2> QED
      BY <2>1
  <1> QED
    BY <1>3

\* What holds of 0 and is passed on by each number below n holds up to n.
LEMMA Climb ==
    ASSUME NEW n \in Nat, NEW S, 0 \in S, \A k \in Nat : k < n /\ k \in S => k + 1 \in S
    PROVE  \A k \in 0..n : k \in S
  <1> DEFINE Missing == {k \in 0..n : k \notin S}
  <1> SUFFICES ASSUME Missing # {} PROVE FALSE
    OBVIOUS
  <1>1. PICK x \in Missing : \A y \in Missing : x <= y
    <2>1. Missing \in SUBSET Nat
      OBVIOUS
    <2> HIDE DEF Missing
    <2> QED
      BY <2>1, LeastNumber
  <1>2. x \in Nat /\ x <= n /\ x \notin S /\ x # 0
    BY <1>1
  <1>3. x - 1 \in Nat /\ x - 1 < n /\ ~(x <= x - 1)
    BY <1>2
  <1>4. x - 1 \in S
    BY <1>1, <1>3
  <1>5. (x - 1) + 1 \in S
    BY <1>3, <1>4
  <1> QED
    BY <1>2, <1>5

\* A set of positions has a last one.
LEMMA MaxOf ==
    ASSUME NEW n \in Nat, NEW s \in SUBSET (1..n), s # {}
    PROVE  Max(s) \in s /\ \A y \in s : y <= Max(s)
  <1> DEFINE Gaps == {n - y : y \in s}
  <1>1. Gaps \in SUBSET Nat /\ Gaps # {}
    OBVIOUS
  <1>2. PICK g \in Gaps : \A h \in Gaps : g <= h
    <2> HIDE DEF Gaps
    <2> QED
      BY <1>1, LeastNumber
  <1>3. PICK x \in s : g = n - x
    BY <1>2
  <1>4. ASSUME NEW y \in s PROVE y <= x
    <2>1. n - x <= n - y
      BY <1>2, <1>3
    <2> QED
      BY <2>1
  <1>5. \E z \in s : \A y \in s : z >= y
    BY <1>4
  <1>6. Max(s) \in s /\ \A y \in s : Max(s) >= y
    BY <1>5, Zenon DEF Max
  <1> QED
    BY <1>6

\* The last position of a prefix.
LEMMA MaxOfPrefix ==
    ASSUME NEW k \in Nat
    PROVE  Max(1..(k + 1)) = k + 1 /\ (1..(k + 1)) \ {k + 1} = 1..k
  <1>1. Max(1..(k + 1)) \in 1..(k + 1) /\ \A y \in 1..(k + 1) : y <= Max(1..(k + 1))
    <2>1. 1..(k + 1) # {} /\ k + 1 \in Nat
      OBVIOUS
    <2> QED
      BY <2>1, MaxOf
  <1> QED
    BY <1>1

\* How a sequence is folded: w[s] is the fold of its elements at the positions s.
Folding(w, base, F, seq) ==
    w = [s \in SUBSET DOMAIN seq |->
            IF s = {} THEN base ELSE F[<<w[s \ {Max(s)}], seq[Max(s)]>>]]

\* The subsets of a set with k elements at most.
UpTo(D, k) == {s \in SUBSET D : Cardinality(s) <= k}

\* Every sequence can be folded.
LEMMA FoldExists ==
    ASSUME NEW A, NEW B, NEW base \in A, NEW F \in [A \X B -> A], NEW seq \in Seq(B)
    PROVE  \E w \in [SUBSET DOMAIN seq -> A] : Folding(w, base, F, seq)
  <1> DEFINE D == DOMAIN seq
             n == Len(seq)
             After(w, s) == IF s = {} THEN base ELSE F[<<w[s \ {Max(s)}], seq[Max(s)]>>]
             Good == {k \in Nat : \E w \in [UpTo(D, k) -> A] : \A s \in UpTo(D, k) : w[s] = After(w, s)}
  <1>1. D = 1..n /\ n \in Nat /\ IsFiniteSet(D) /\ Cardinality(D) = n
    <2>1. D = 1..n /\ n \in Nat /\ n \in Int /\ 1 \in Int
      OBVIOUS
    <2>2. IsFiniteSet(1..n) /\ Cardinality(1..n) = IF 1 > n THEN 0 ELSE n - 1 + 1
      <3> HIDE DEF n
      <3> QED
        BY <2>1, FS_Interval
    <2>3. Cardinality(1..n) = n
      <3> HIDE DEF n
      <3> QED
        BY <2>1, <2>2
    <2> QED
      BY <2>1, <2>2, <2>3
  <1>2. ASSUME NEW s \in SUBSET D, s # {}
        PROVE  /\ IsFiniteSet(s) /\ Cardinality(s) \in Nat /\ Cardinality(s) # 0
               /\ Max(s) \in s /\ Max(s) \in D /\ seq[Max(s)] \in B
               /\ Cardinality(s \ {Max(s)}) = Cardinality(s) - 1 /\ s \ {Max(s)} \in SUBSET D
    <2>1. IsFiniteSet(s) /\ Cardinality(s) \in Nat
      BY <1>1, FS_Subset, FS_CardinalityType
    <2>2. Cardinality(s) # 0
      BY <1>2, <2>1, FS_EmptySet
    <2>3. Max(s) \in s
      BY <1>1, <1>2, MaxOf
    <2>4. Cardinality(s \ {Max(s)}) = Cardinality(s) - 1
      BY <2>1, <2>3, FS_RemoveElement
    <2> QED
      BY <2>1, <2>2, <2>3, <2>4
  <1>3. 0 \in Good
    <2>1. UpTo(D, 0) = {{}}
      <3>1. ASSUME NEW s \in UpTo(D, 0), s # {} PROVE FALSE
        <4>1. s \in SUBSET D /\ Cardinality(s) <= 0
          BY DEF UpTo
        <4>2. Cardinality(s) \in Nat /\ Cardinality(s) # 0
          BY <1>2, <3>1, <4>1
        <4> QED
          BY <4>1, <4>2
      <3>2. {} \in UpTo(D, 0)
        BY FS_EmptySet DEF UpTo
      <3> QED
        BY <3>1, <3>2
    <2>2. [s \in {{}} |-> base] \in [UpTo(D, 0) -> A]
      BY <2>1
    <2>3. \A s \in UpTo(D, 0) : [x \in {{}} |-> base][s] = After([x \in {{}} |-> base], s)
      BY <2>1
    <2> QED
      BY <2>2, <2>3
  <1>4. ASSUME NEW k \in Nat, k \in Good PROVE k + 1 \in Good
    <2>1. PICK w \in [UpTo(D, k) -> A] : \A s \in UpTo(D, k) : w[s] = After(w, s)
      BY <1>4
    <2> DEFINE v == [s \in UpTo(D, k + 1) |-> IF s \in UpTo(D, k) THEN w[s] ELSE After(w, s)]
    <2>2. ASSUME NEW s \in UpTo(D, k + 1), s # {}
          PROVE  s \ {Max(s)} \in UpTo(D, k) /\ s \ {Max(s)} \in UpTo(D, k + 1)
      <3>1. s \in SUBSET D /\ Cardinality(s) <= k + 1
        BY DEF UpTo
      <3>2. Cardinality(s \ {Max(s)}) = Cardinality(s) - 1 /\ s \ {Max(s)} \in SUBSET D
            /\ Cardinality(s) \in Nat
        BY <1>2, <2>2, <3>1
      <3> QED
        BY <3>1, <3>2 DEF UpTo
    <2>3. ASSUME NEW s \in UpTo(D, k + 1) PROVE After(w, s) \in A
      <3>1. CASE s = {}
        BY <3>1
      <3>2. CASE s # {}
        <4>1. s \in SUBSET D
          BY DEF UpTo
        <4>2. seq[Max(s)] \in B
          BY <1>2, <3>2, <4>1
        <4>3. w[s \ {Max(s)}] \in A
          BY <2>2, <3>2
        <4> QED
          BY <3>2, <4>2, <4>3
      <3> QED
        BY <3>1, <3>2
    <2>4. v \in [UpTo(D, k + 1) -> A]
      <3> HIDE DEF After
      <3> QED
        BY <2>1, <2>3
    <2>5. ASSUME NEW s \in UpTo(D, k + 1) PROVE v[s] = After(v, s)
      <3>1. v[s] = After(w, s)
        <4> HIDE DEF After
        <4> QED
          BY <2>1
      <3>2. CASE s = {}
        BY <3>1, <3>2
      <3>3. CASE s # {}
        <4>1. v[s \ {Max(s)}] = w[s \ {Max(s)}]
          <5> HIDE DEF After
          <5> QED
            BY <2>2, <3>3
        <4> HIDE DEF v
        <4> QED
          BY <3>1, <3>3, <4>1
      <3> QED
        BY <3>2, <3>3
    <2> HIDE DEF v, After
    <2> QED
      BY <2>4, <2>5
  <1>5. n \in Good
    <2> HIDE DEF Good
    <2>1. \A k \in 0..n : k \in Good
      BY <1>1, <1>3, <1>4, Climb
    <2> QED
      BY <1>1, <2>1
  <1>6. UpTo(D, n) = SUBSET D
    <2>1. \A s \in SUBSET D : Cardinality(s) <= n
      BY <1>1, FS_Subset
    <2> QED
      BY <2>1 DEF UpTo
  <1>7. PICK w \in [SUBSET D -> A] : \A s \in SUBSET D : w[s] = After(w, s)
    <2> HIDE DEF After, D, n
    <2> QED
      BY <1>5, <1>6
  <1>8. w = [s \in SUBSET D |-> After(w, s)]
    <2> HIDE DEF After, D
    <2> QED
      BY <1>7
  <1> QED
    BY <1>7, <1>8 DEF Folding

-----------------------------------------------------------------------------
(* The rows of the day                                                     *)

\* What workforce says of a date.
DayInfo ==
    [isHoliday: BOOLEAN, isWeeklyOff: BOOLEAN, isWorkingDay: BOOLEAN,
     window: Windows \cup {None}, grace: Nat \cup {None}]

\* The sessions of the day are numbered, and an expectation has a start and an end
\* or neither.
DayInv ==
    /\ TypeOK
    /\ \A i \in DOMAIN session :
          session[i].id = i /\ (session[i].start = None <=> session[i].end = None)

\* The day's own variables.
DayRows ==
    /\ now \in Times /\ session \in Seq(Session) /\ correction \in Seq(Correction)
    /\ policy \in Policies
    /\ \A i \in DOMAIN session :
          session[i].id = i /\ (session[i].start = None <=> session[i].end = None)

\* Every answer of workforce is a day's info.
LEMMA InfoTyped ==
    ASSUME RowsInv, NEW e \in Employees, NEW d \in Dates, NEW info \in DayInfos(e, d)
    PROVE  info \in DayInfo
  <1>1. \A h, w \in BOOLEAN : NoWork(h, w) \in DayInfo
    BY DEF NoWork, DayInfo
  <1>2. ASSUME NEW i \in DOMAIN assignment PROVE Expected(assignment[i]) \in DayInfo
    <2>1. assignment[i] \in Assignment /\ template \in [Templates -> Template]
      BY DEF RowsInv, WorkforceTypeOK
    <2>2. assignment[i].schedule \in Templates
          /\ (assignment[i].shift # None => assignment[i].shift \in Templates)
      BY <2>1 DEF Assignment, Templates
    <2>3. \A t \in Templates : template[t].window \in Windows /\ template[t].grace \in Nat
      BY <2>1, WorkforceAssumption DEF Template
    <2> QED
      BY <2>2, <2>3 DEF Expected, DayInfo
  <1>3. CASE OnHoliday(e, d)
    BY <1>1, <1>3 DEF DayInfos
  <1>4. CASE ~OnHoliday(e, d)
    <2>1. PICK off \in WeeklyOffs(e, d) :
             info \in IF off THEN {NoWork(FALSE, TRUE)}
                      ELSE IF Covering(e, d) = {} THEN {NoWork(FALSE, FALSE)}
                      ELSE {Expected(assignment[i]) : i \in Covering(e, d)}
      BY <1>4 DEF DayInfos
    <2>2. \A i \in Covering(e, d) : i \in DOMAIN assignment
      BY DEF Covering
    <2>3. \/ info = NoWork(FALSE, TRUE) \/ info = NoWork(FALSE, FALSE)
          \/ \E i \in Covering(e, d) : info = Expected(assignment[i])
      BY <2>1
    <2> QED
      BY <1>1, <1>2, <2>2, <2>3
  <1> QED
    BY <1>3, <1>4

\* A day starts with none of its rows.
LEMMA InitDay == Init => DayRows
  <1> SUFFICES ASSUME Init PROVE DayRows
    OBVIOUS
  <1> QED
    BY WorkDayAssumption DEF Init, DayRows, Times

\* The session that a check-in adds.
LEMMA CheckInKeeps == ASSUME RowsInv, DayRows, CheckIn PROVE DayRows'
  <1>1. PICK info \in DayInfos(Worker, Today) : session' = Append(session, Captured(info))
    BY DEF CheckIn
  <1>2. info \in DayInfo
    BY <1>1, InfoTyped, WorkDayAssumption, WorkforceAssumption
  <1>3. Len(session) \in Nat /\ Len(session) + 1 \in 1..MaxSessions /\ now \in Times
    BY WorkDayAssumption DEF CheckIn, DayRows
  <1>4. Grace(info) \in Nat
    BY <1>2, WorkDayAssumption DEF Grace, DayInfo, DayRows
  <1>5. info.window # None => info.window.start \in Nat /\ info.window.end \in Nat
    BY <1>2, WorkforceAssumption DEF DayInfo
  <1>6. <<>> \in Seq(Break)
    OBVIOUS
  <1>7. Captured(info) \in Session
    BY <1>3, <1>4, <1>5, <1>6 DEF Captured, Session
  <1>8. /\ Captured(info).id = Len(session) + 1
        /\ Captured(info).start = None <=> Captured(info).end = None
    BY <1>5, WorkforceAssumption DEF Captured
  <1> DEFINE s == Captured(info)
  <1> HIDE DEF s
  <1>9. session \in Seq(Session) /\ s \in Session /\ session' = Append(session, s)
    BY <1>1, <1>7 DEF s, DayRows
  <1>10. session' \in Seq(Session)
    BY <1>9
  <1>11. ASSUME NEW i \in DOMAIN session'
         PROVE  session'[i].id = i /\ (session'[i].start = None <=> session'[i].end = None)
    <2>1. \/ i \in DOMAIN session /\ session'[i] = session[i]
          \/ i = Len(session) + 1 /\ session'[i] = s
      BY <1>9, <1>11
    <2> QED
      BY <2>1, <1>8 DEF s, DayRows
  <1> QED
    BY <1>10, <1>11 DEF CheckIn, DayRows

\* A session whose punches change keeps its number and its expectation.
LEMMA SessionChanges ==
    ASSUME DayRows, NEW i \in DOMAIN session, NEW s \in Session,
           s.id = session[i].id, s.start = session[i].start, s.end = session[i].end,
           session' = [session EXCEPT ![i] = s],
           UNCHANGED <<now, correction, policy>> \/ (UNCHANGED <<now, policy>> /\ correction' \in Seq(Correction))
    PROVE  DayRows'
  <1>1. session \in Seq(Session) /\ DOMAIN session' = DOMAIN session
    BY DEF DayRows
  <1>2. session' \in Seq(Session)
    BY <1>1
  <1>3. ASSUME NEW j \in DOMAIN session'
        PROVE  session'[j].id = j /\ (session'[j].start = None <=> session'[j].end = None)
    <2>1. session'[j] = IF j = i THEN s ELSE session[j]
      BY <1>1, <1>3
    <2> QED
      BY <1>1, <1>3, <2>1 DEF DayRows
  <1> QED
    BY <1>2, <1>3 DEF DayRows

\* A check-out closes its session.
LEMMA CheckOutKeeps == ASSUME DayRows, CheckOut PROVE DayRows'
  <1>1. PICK i \in Open : session' = [session EXCEPT ![i].out = now, ![i].punchedOut = TRUE]
    BY Zenon DEF CheckOut
  <1>2. i \in DOMAIN session /\ session[i] \in Session /\ now \in Times
    BY DEF Open, DayRows
  <1> DEFINE s == [session[i] EXCEPT !.out = now, !.punchedOut = TRUE]
  <1>3. s \in Session
    BY <1>2 DEF Session
  <1>4. s.id = session[i].id /\ s.start = session[i].start /\ s.end = session[i].end
    BY <1>2 DEF Session
  <1>5. session' = [session EXCEPT ![i] = s]
    BY <1>1, <1>2
  <1> HIDE DEF s
  <1> QED
    BY <1>2, <1>3, <1>4, <1>5, SessionChanges DEF CheckOut

\* A break starts.
LEMMA StartBreakKeeps == ASSUME DayRows, StartBreak PROVE DayRows'
  <1>1. PICK i \in Open : session' = [session EXCEPT ![i].breaks = <<[start |-> now, end |-> None]>>]
    BY Zenon DEF StartBreak
  <1>2. i \in DOMAIN session /\ session[i] \in Session /\ now \in Times
    BY DEF Open, DayRows
  <1> DEFINE b == <<[start |-> now, end |-> None]>>
             s == [session[i] EXCEPT !.breaks = b]
  <1>3. b \in Seq(Break)
    BY <1>2 DEF Break
  <1>4. session' = [session EXCEPT ![i] = s]
    BY <1>1, <1>2
  <1> HIDE DEF b
  <1>5. s \in Session
    BY <1>2, <1>3 DEF Session
  <1>6. s.id = session[i].id /\ s.start = session[i].start /\ s.end = session[i].end
    BY <1>2 DEF Session
  <1> HIDE DEF s
  <1> QED
    BY <1>2, <1>4, <1>5, <1>6, SessionChanges DEF StartBreak

\* A break ends.
LEMMA EndBreakKeeps == ASSUME DayRows, EndBreak PROVE DayRows'
  <1>1. PICK i \in Open : OpenBreak(session[i]) /\ session' = [session EXCEPT ![i].breaks[1].end = now]
    BY Zenon DEF EndBreak
  <1>2. i \in DOMAIN session /\ session[i] \in Session /\ now \in Times
    BY DEF Open, DayRows
  <1>3. session[i].breaks \in Seq(Break) /\ session[i].breaks # <<>>
    BY <1>1, <1>2 DEF Session, OpenBreak
  <1> DEFINE b == [session[i].breaks EXCEPT ![1].end = now]
             s == [session[i] EXCEPT !.breaks = b]
  <1>4. b \in Seq(Break)
    <2>1. 1 \in DOMAIN session[i].breaks /\ session[i].breaks[1] \in Break
      BY <1>3
    <2>2. [session[i].breaks[1] EXCEPT !.end = now] \in Break
      BY <1>2, <2>1 DEF Break
    <2> QED
      BY <1>3, <2>1, <2>2
  <1>5. session' = [session EXCEPT ![i] = s]
    BY <1>1, <1>2
  <1> HIDE DEF b
  <1>6. s \in Session
    BY <1>2, <1>4 DEF Session
  <1>7. s.id = session[i].id /\ s.start = session[i].start /\ s.end = session[i].end
    BY <1>2 DEF Session
  <1> HIDE DEF s
  <1> QED
    BY <1>2, <1>5, <1>6, <1>7, SessionChanges DEF EndBreak

\* What a correction may be about is a session of the day, or the one it makes up.
LEMMA TargetsAreSessions ==
    ASSUME DayRows, NEW field \in Fields, NEW punched \in BOOLEAN, NEW i \in Targets(field, punched)
    PROVE  i \in 0..MaxSessions /\ (field # "CHECK_IN" => i \in DOMAIN session)
  <1>1. \A j \in DOMAIN session : j \in 1..MaxSessions
    <2>1. \A j \in DOMAIN session : session[j] \in Session /\ session[j].id = j
      BY DEF DayRows
    <2> QED
      BY <2>1 DEF Session
  <1>2. i \in DOMAIN session \/ (i = 0 /\ field = "CHECK_IN")
    BY DEF Targets, Open, WithOpenBreak, Fields
  <1> QED
    BY <1>1, <1>2, WorkDayAssumption

\* A request adds a correction.
LEMMA RequestCorrectionKeeps == ASSUME DayRows, RequestCorrection PROVE DayRows'
  <1>1. PICK field \in Fields, punched \in BOOLEAN, value \in 0..now :
          \E i \in Targets(field, punched) :
             correction' = Append(correction,
                   [field |-> field, target |-> i, punched |-> punched, value |-> value,
                    status |-> "PENDING"])
    BY Zenon DEF RequestCorrection
  <1>2. PICK i \in Targets(field, punched) :
             correction' = Append(correction,
                   [field |-> field, target |-> i, punched |-> punched, value |-> value,
                    status |-> "PENDING"])
    BY <1>1
  <1>3. i \in 0..MaxSessions
    BY TargetsAreSessions
  <1>4. value \in Times
    BY WorkDayAssumption DEF DayRows, Times
  <1>5. correction' \in Seq(Correction)
    <2> DEFINE c == [field |-> field, target |-> i, punched |-> punched, value |-> value,
                     status |-> "PENDING"]
    <2>1. c \in Correction
      BY <1>3, <1>4 DEF Correction
    <2>2. correction' = Append(correction, c) /\ correction \in Seq(Correction)
      BY <1>2 DEF DayRows
    <2> HIDE DEF c
    <2> QED
      BY <2>1, <2>2
  <1> QED
    BY <1>5 DEF RequestCorrection, DayRows

\* An approved correction is still one.
LEMMA ApproveKeeps ==
    ASSUME DayRows, NEW k \in DOMAIN correction, NEW i \in 0..MaxSessions, Approve(k, i)
    PROVE  correction' \in Seq(Correction)
  <1>1. correction \in Seq(Correction) /\ correction[k] \in Correction
    BY DEF DayRows
  <1> DEFINE c == [correction[k] EXCEPT !.status = "APPROVED", !.target = i]
  <1>2. c \in Correction
    BY <1>1 DEF Correction
  <1>3. correction' = [correction EXCEPT ![k] = c]
    BY <1>1 DEF Approve
  <1> HIDE DEF c
  <1> QED
    BY <1>1, <1>2, <1>3

\* An approval changes a correction and closes a session at most.
LEMMA ApproveCorrectionKeeps == ASSUME DayRows, ApproveCorrection PROVE DayRows'
  <1>1. PICK k \in Live({"PENDING"}) :
          LET c == correction[k] IN
          \/ /\ c.punched \/ c.field = "CHECK_IN"
             /\ Approve(k, c.target) /\ UNCHANGED session
          \/ /\ ~c.punched /\ c.field = "CHECK_OUT"
             /\ \E i \in Open : /\ Approve(k, i)
                                /\ session' = [session EXCEPT ![i].out = c.value]
          \/ /\ ~c.punched /\ c.field = "BREAK_END"
             /\ \E i \in Targets("BREAK_END", FALSE) : Approve(k, i) /\ UNCHANGED session
    BY Zenon DEF ApproveCorrection
  <1>2. k \in DOMAIN correction /\ correction[k] \in Correction
    BY DEF Live, DayRows
  <1>3. UNCHANGED <<now, policy>>
    BY DEF ApproveCorrection
  <1>4. \A j \in DOMAIN session : j \in 0..MaxSessions
    <2>1. \A j \in DOMAIN session : session[j] \in Session /\ session[j].id = j
      BY DEF DayRows
    <2> QED
      BY <2>1 DEF Session
  <1>5. CASE Approve(k, correction[k].target) /\ UNCHANGED session
    <2>1. correction[k].target \in 0..MaxSessions
      BY <1>2 DEF Correction
    <2> QED
      BY <1>2, <1>3, <1>5, <2>1, ApproveKeeps DEF DayRows
  <1>6. CASE \E i \in Open : Approve(k, i) /\ session' = [session EXCEPT ![i].out = correction[k].value]
    <2>1. PICK i \in Open : Approve(k, i) /\ session' = [session EXCEPT ![i].out = correction[k].value]
      BY <1>6
    <2>2. i \in DOMAIN session /\ session[i] \in Session /\ correction[k].value \in Times
      BY <1>2 DEF Open, DayRows, Correction
    <2> DEFINE s == [session[i] EXCEPT !.out = correction[k].value]
    <2>3. s \in Session
      BY <2>2 DEF Session
    <2>4. s.id = session[i].id /\ s.start = session[i].start /\ s.end = session[i].end
      BY <2>2 DEF Session
    <2>5. session' = [session EXCEPT ![i] = s]
      BY <2>1, <2>2
    <2>6. correction' \in Seq(Correction)
      BY <1>2, <1>4, <2>1, <2>2, ApproveKeeps
    <2> HIDE DEF s
    <2> QED
      BY <1>3, <2>2, <2>3, <2>4, <2>5, <2>6, SessionChanges
  <1>7. CASE \E i \in Targets("BREAK_END", FALSE) : Approve(k, i) /\ UNCHANGED session
    <2>1. PICK i \in Targets("BREAK_END", FALSE) : Approve(k, i) /\ UNCHANGED session
      BY <1>7
    <2>2. i \in 0..MaxSessions
      BY TargetsAreSessions DEF Fields
    <2> QED
      BY <1>2, <1>3, <2>1, <2>2, ApproveKeeps DEF DayRows
  <1> QED
    BY <1>1, <1>5, <1>6, <1>7

\* A rejected correction is still one.
LEMMA RejectCorrectionKeeps == ASSUME DayRows, RejectCorrection PROVE DayRows'
  <1>1. PICK k \in Live({"PENDING"}) : correction' = [correction EXCEPT ![k].status = "REJECTED"]
    BY Zenon DEF RejectCorrection
  <1>2. k \in DOMAIN correction /\ correction[k] \in Correction /\ correction \in Seq(Correction)
    BY DEF Live, DayRows
  <1> DEFINE c == [correction[k] EXCEPT !.status = "REJECTED"]
  <1>3. c \in Correction
    BY <1>2 DEF Correction
  <1>4. correction' = [correction EXCEPT ![k] = c]
    BY <1>1, <1>2
  <1>5. correction' \in Seq(Correction)
    <2> HIDE DEF c
    <2> QED
      BY <1>2, <1>3, <1>4
  <1> QED
    BY <1>5 DEF RejectCorrection, DayRows

\* Every step keeps the rows of the day.
LEMMA DayKeeps == ASSUME RowsInv, DayRows, [Next]_vars PROVE DayRows'
  <1>1. CASE DayStep
    <2>1. CASE Tick
      BY <2>1, WorkDayAssumption DEF Tick, DayRows, Times
    <2> QED
      BY <1>1, <2>1, CheckInKeeps, CheckOutKeeps, StartBreakKeeps, EndBreakKeeps,
         RequestCorrectionKeeps, ApproveCorrectionKeeps, RejectCorrectionKeeps DEF DayStep
  <1>2. CASE UNCHANGED dayVars
    BY <1>2 DEF dayVars, DayRows
  <1> QED
    BY <1>1, <1>2, Zenon DEF Next, vars

\* Rows that are typed make the day's invariant.
LEMMA RowsMakeDay == ASSUME RowsInv, DayRows PROVE DayInv
  BY DEF RowsInv, DayRows, DayInv, TypeOK

\* The rows of workforce and of the day stay what they are.
LEMMA DayInvariant == Spec => [](RowsInv /\ DayRows)
  <1>1. Init => RowsInv /\ DayRows
    BY InitRows, InitDay
  <1>2. RowsInv /\ DayRows /\ [Next]_vars => (RowsInv /\ DayRows)'
    BY StepKeeps, DayKeeps
  <1> QED
    BY <1>1, <1>2, PTL DEF Spec

\* The rows of workforce, the day's sessions and its corrections are well formed,
\* whatever the calls and punches interleave.
THEOREM DayTypeCorrect == Spec => []TypeOK
  <1>1. RowsInv /\ DayRows => TypeOK
    BY DEF RowsInv, DayRows, TypeOK
  <1> QED
    BY <1>1, DayInvariant, PTL

-----------------------------------------------------------------------------
(* The sessions in the order of their check-ins                            *)

\* Sessions that may be sorted: each has a check-in and a number, and no two have
\* both in common.
Sortable(sessions) ==
    /\ IsFiniteSet(sessions)
    /\ \A s \in sessions : s.in \in Nat /\ s.id \in Nat
    /\ \A s, t \in sessions : s.in = t.in /\ s.id = t.id => s = t

\* Among such sessions one comes first.
LEMMA FirstOf ==
    ASSUME NEW sessions, Sortable(sessions), sessions # {}
    PROVE  \E s \in sessions : \A t \in sessions \ {s} : DC!BeforeOf(s, t)
  <1>1. PICK i \in {s.in : s \in sessions} : \A j \in {s.in : s \in sessions} : i <= j
    <2>1. {s.in : s \in sessions} \in SUBSET Nat /\ {s.in : s \in sessions} # {}
      BY DEF Sortable
    <2> QED
      BY <2>1, LeastNumber
  <1> DEFINE early == {s \in sessions : s.in = i}
  <1>2. PICK k \in {s.id : s \in early} : \A j \in {s.id : s \in early} : k <= j
    <2>1. {s.id : s \in early} \in SUBSET Nat /\ {s.id : s \in early} # {}
      BY DEF Sortable
    <2> QED
      BY <2>1, LeastNumber
  <1>3. PICK s \in early : s.id = k
    BY <1>2
  <1>4. ASSUME NEW t \in sessions \ {s} PROVE DC!BeforeOf(s, t)
    <2>1. s.in = i /\ s \in sessions /\ t \in sessions /\ s # t
      BY <1>3
    <2>2. i <= t.in /\ i \in Nat /\ t.in \in Nat /\ s.id \in Nat /\ t.id \in Nat
      BY <1>1, <2>1 DEF Sortable
    <2>3. t.in = i => k <= t.id /\ t.id # k
      BY <1>2, <1>3, <2>1 DEF Sortable
    <2> QED
      BY <1>3, <2>1, <2>2, <2>3 DEF DC!BeforeOf
  <1> QED
    BY <1>3, <1>4

\* A sorted sequence of some sessions.
InCheckInOrder(seq) == \A m, n \in DOMAIN seq : m < n => DC!BeforeOf(seq[m], seq[n])

\* Such sessions can be put in the order of their check-ins.
LEMMA SortedExists ==
    ASSUME NEW sessions, Sortable(sessions)
    PROVE  \E seq \in [1..Cardinality(sessions) -> sessions] : InCheckInOrder(seq)
  <1> DEFINE Good == {k \in Nat : \A T \in SUBSET sessions :
                                    Cardinality(T) = k => \E seq \in [1..k -> T] : InCheckInOrder(seq)}
  <1>1. \A T \in SUBSET sessions : IsFiniteSet(T) /\ Cardinality(T) \in Nat /\ Sortable(T)
    <2> SUFFICES ASSUME NEW T \in SUBSET sessions
                 PROVE  IsFiniteSet(T) /\ Cardinality(T) \in Nat /\ Sortable(T)
      OBVIOUS
    <2>1. IsFiniteSet(T)
      BY FS_Subset DEF Sortable
    <2>2. Cardinality(T) \in Nat
      BY <2>1, FS_CardinalityType
    <2> QED
      BY <2>1, <2>2 DEF Sortable
  <1>2. 0 \in Good
    <2> SUFFICES ASSUME NEW T \in SUBSET sessions
                 PROVE  \E seq \in [1..0 -> T] : InCheckInOrder(seq)
      OBVIOUS
    <2>1. [x \in 1..0 |-> CHOOSE y \in T : TRUE] \in [1..0 -> T]
      OBVIOUS
    <2>2. InCheckInOrder([x \in 1..0 |-> CHOOSE y \in T : TRUE])
      BY DEF InCheckInOrder
    <2> QED
      BY <2>1, <2>2
  <1>3. ASSUME NEW k \in Nat, k \in Good PROVE k + 1 \in Good
    <2> SUFFICES ASSUME NEW T \in SUBSET sessions, Cardinality(T) = k + 1
                 PROVE  \E seq \in [1..(k + 1) -> T] : InCheckInOrder(seq)
      OBVIOUS
    <2>1. T # {}
      <3>1. Cardinality(T) # 0
        OBVIOUS
      <3> QED
        BY <3>1, FS_EmptySet
    <2>2. PICK s \in T : \A t \in T \ {s} : DC!BeforeOf(s, t)
      <3>1. Sortable(T)
        BY <1>1
      <3> QED
        BY <2>1, <3>1, FirstOf
    <2>3. Cardinality(T \ {s}) = k
      <3>1. IsFiniteSet(T)
        BY <1>1
      <3>2. Cardinality(T \ {s}) = Cardinality(T) - 1
        BY <2>2, <3>1, FS_RemoveElement
      <3> QED
        BY <3>2
    <2>4. PICK rest \in [1..k -> T \ {s}] : InCheckInOrder(rest)
      <3>1. T \ {s} \in SUBSET sessions
        OBVIOUS
      <3> QED
        BY <1>3, <2>3, <3>1
    <2> DEFINE seq == [i \in 1..(k + 1) |-> IF i = 1 THEN s ELSE rest[i - 1]]
    <2>5. \A i \in 1..(k + 1) : i # 1 => i - 1 \in 1..k
      OBVIOUS
    <2>6. seq \in [1..(k + 1) -> T]
      BY <2>2, <2>4, <2>5
    <2>7. ASSUME NEW m \in 1..(k + 1), NEW n \in 1..(k + 1), m < n
          PROVE  DC!BeforeOf(seq[m], seq[n])
      <3>1. n # 1 /\ seq[n] = rest[n - 1] /\ n - 1 \in 1..k
        BY <2>5, <2>7
      <3>2. CASE m = 1
        <4>1. seq[m] = s /\ seq[n] \in T \ {s}
          BY <2>4, <3>1, <3>2
        <4> QED
          BY <2>2, <4>1
      <3>3. CASE m # 1
        <4>1. seq[m] = rest[m - 1] /\ m - 1 \in 1..k /\ m - 1 < n - 1
          BY <2>5, <2>7, <3>3
        <4> QED
          BY <2>4, <3>1, <4>1 DEF InCheckInOrder
      <3> QED
        BY <3>2, <3>3
    <2>8. InCheckInOrder(seq)
      <3>1. DOMAIN seq = 1..(k + 1)
        OBVIOUS
      <3> HIDE DEF seq
      <3> QED
        BY <2>7, <3>1 DEF InCheckInOrder
    <2> QED
      BY <2>6, <2>8
  <1>4. Cardinality(sessions) \in Nat
    BY <1>1
  <1>5. Cardinality(sessions) \in Good
    <2> HIDE DEF Good
    <2>1. \A k \in 0..Cardinality(sessions) : k \in Good
      BY <1>2, <1>3, <1>4, Climb
    <2> QED
      BY <1>4, <2>1
  <1> QED
    BY <1>5

\* The calculation counts a set as this module does.
LEMMA SameCardinality == ASSUME NEW S PROVE DC!Cardinality(S) = Cardinality(S)
  BY DEF DC!Cardinality, Cardinality

\* ByCheckIn sorts them.
LEMMA ByCheckInSorts ==
    ASSUME NEW sessions, Sortable(sessions)
    PROVE  /\ DC!ByCheckIn(sessions) \in [1..Cardinality(sessions) -> sessions]
           /\ InCheckInOrder(DC!ByCheckIn(sessions))
           /\ DC!ByCheckIn(sessions) \in Seq(sessions)
           /\ sessions # {} => DC!ByCheckIn(sessions) # <<>>
  <1> DEFINE n == Cardinality(sessions)
             seq == DC!ByCheckIn(sessions)
  <1>1. \E q \in [1..n -> sessions] : InCheckInOrder(q)
    BY SortedExists
  <1>2. seq \in [1..n -> sessions] /\ InCheckInOrder(seq)
    <2>1. DC!Cardinality(sessions) = n
      BY SameCardinality
    <2>2. seq = CHOOSE q \in [1..n -> sessions] : InCheckInOrder(q)
      BY <2>1 DEF DC!ByCheckIn, InCheckInOrder
    <2> HIDE DEF seq, n
    <2> QED
      BY <1>1, <2>2, Zenon
  <1>3. n \in Nat
    BY FS_CardinalityType DEF Sortable
  <1> HIDE DEF n, seq
  <1>4. seq \in Seq(sessions) /\ Len(seq) = n
    BY <1>2, <1>3
  <1>5. sessions # {} => n # 0
    BY FS_EmptySet DEF Sortable, n
  <1> QED
    BY <1>2, <1>4, <1>5 DEF n, seq

-----------------------------------------------------------------------------
(* History keeps its numbers                                               *)

\* A session with no correction of its own.
Uncorrected(s) == DC!FoldLeft(LAMBDA x, c : DC!Applied(c, x), s, DC!SetToSeq({}))

\* It stays as it is.
LEMMA NoCorrections ==
    ASSUME NEW s
    PROVE  Uncorrected(s) = s
  <1>1. Cardinality({}) = 0
    BY FS_EmptySet, Zenon
  <1>2. DC!SetToSeq({}) \in [1..0 -> {}]
    <2>1. \E f \in [1..0 -> {}] : DC!IsInjective(f)
      <3>1. [x \in 1..0 |-> x] \in [1..0 -> {}]
        OBVIOUS
      <3>2. DC!IsInjective([x \in 1..0 |-> x])
        BY DEF DC!IsInjective
      <3> QED
        BY <3>1, <3>2
    <2>2. DC!SetToSeq({}) = CHOOSE f \in [1..0 -> {}] : DC!IsInjective(f)
      BY <1>1, SameCardinality DEF DC!SetToSeq
    <2> QED
      BY <2>1, <2>2, Zenon
  <1>3. DOMAIN DC!SetToSeq({}) = {}
    BY <1>2
  <1> QED
    BY <1>3 DEF Uncorrected, DC!FoldLeft, DC!MapThenFoldSet

\* Without an approved correction the sessions are calculated with as they are.
LEMMA NothingApplied ==
    ASSUME Live({"APPROVED"}) = {}, NEW info
    PROVE  Applied(info) = Range(session)
  <1>1. {correction[k] : k \in Live({"APPROVED"})} = {}
    OBVIOUS
  <1>2. \A s, i : DC!ApplyCorrectionsToSessions(s, {}, i) =
                     {Uncorrected(y) : y \in s}
    BY DEF Uncorrected, DC!ApplyCorrectionsToSessions
  <1>3. \A s, i : DC!ApplyCorrectionsToSessions(s, {}, i) = s
    BY <1>2, NoCorrections
  <1> QED
    BY <1>1, <1>3 DEF Applied

\* The sessions of the day can be sorted.
LEMMA SessionsSort == ASSUME DayRows PROVE Sortable(Range(session))
  <1>1. session \in [1..Len(session) -> Session] /\ Len(session) \in Nat
    BY DEF DayRows
  <1>2. ASSUME NEW s \in Range(session) PROVE s.in \in Nat /\ s.id \in Nat
    BY <1>1, <1>2, WorkDayAssumption DEF Range, Session, Times
  <1>3. ASSUME NEW s \in Range(session), NEW t \in Range(session), s.id = t.id PROVE s = t
    BY <1>3 DEF Range, DayRows
  <1>4. IsFiniteSet(Range(session))
    <2>1. IsFiniteSet(1..Len(session))
      BY <1>1, FS_Interval
    <2>2. session \in Surjection(1..Len(session), Range(session))
      BY <1>1 DEF Surjection, Range
    <2> QED
      BY <2>1, <2>2, FS_Surjection
  <1> QED
    BY <1>2, <1>3, <1>4 DEF Sortable

\* The numbers of sessions that there are do not depend on what workforce says now.
LEMMA NumbersOfSessions ==
    ASSUME DayRows, session # <<>>, Live({"APPROVED"}) = {}, NEW i, NEW j
    PROVE  Numbers(j) = Numbers(i)
  <1> DEFINE A == Range(session)
             ordered == DC!ByCheckIn(A)
             periods == DC!NormalizeExpectationPeriods(ordered)
  <1>1. Applied(i) = A /\ Applied(j) = A
    BY NothingApplied
  <1>2. ordered # <<>>
    <2>1. A # {}
      BY DEF Range, DayRows
    <2> QED
      BY <2>1, SessionsSort, ByCheckInSorts
  <1> HIDE DEF A, ordered, periods
  <1>3. DC!ScheduledMinutes(ordered, periods, i) = DC!PeriodMinutes(periods)
        /\ DC!ScheduledMinutes(ordered, periods, j) = DC!PeriodMinutes(periods)
    BY <1>2 DEF DC!ScheduledMinutes
  <1>4. \A info \in {i, j} :
           /\ Result(info) = DC!CalculateDailyAttendance(A, info, policy)
           /\ DC!ScheduledMinutes(ordered, periods, info) = DC!PeriodMinutes(periods)
    BY <1>1, <1>3 DEF Result
  <1> QED
    BY <1>4 DEF Numbers, DC!CalculateDailyAttendance, ordered, periods

\* Captured expectations protect history: once somebody has checked in, no later
\* change of schedules, shifts, assignments, weekly offs or holidays changes the
\* numbers of a day without approved corrections.
THEOREM HistoryKept == Spec => HistoryKeepsItsNumbers
  <1>1. RowsInv /\ DayRows /\ [Next]_vars =>
          [session # <<>> /\ dayVars' = dayVars /\ Live({"APPROVED"}) = {} =>
             \A i \in DayInfos(Worker, Today), j \in DayInfos(Worker, Today)' :
                Numbers(j) = Numbers(i)]_vars
    BY NumbersOfSessions
  <1> QED
    BY <1>1, DayInvariant, PTL DEF Spec, HistoryKeepsItsNumbers

-----------------------------------------------------------------------------
(* The sessions as they are corrected                                      *)

\* The sessions with the number and the expectation of s.
Like(s) == {r \in Session : r.id = s.id /\ r.start = s.start /\ r.end = s.end}

\* The session s with some corrections of it.
CorrectedBy(s, seq) == DC!FoldLeft(LAMBDA x, c : DC!Applied(c, x), s, seq)

\* A correction moves a punch of a session and leaves its number and expectation.
LEMMA AppliedIsLike ==
    ASSUME NEW s, NEW r \in Like(s), NEW c \in Correction
    PROVE  DC!Applied(c, r) \in Like(s)
  <1>1. r \in Session /\ r.id = s.id /\ r.start = s.start /\ r.end = s.end
    BY DEF Like
  <1>2. c.value \in Times
    BY DEF Correction
  <1>3. CASE c.field = "CHECK_IN"
    BY <1>1, <1>2, <1>3 DEF DC!Applied, Like, Session
  <1>4. CASE c.field = "CHECK_OUT"
    BY <1>1, <1>2, <1>4 DEF DC!Applied, Like, Session
  <1>5. CASE c.field \notin {"CHECK_IN", "CHECK_OUT"} /\ r.breaks = <<>>
    BY <1>5 DEF DC!Applied
  <1>6. CASE c.field \notin {"CHECK_IN", "CHECK_OUT"} /\ r.breaks # <<>>
    <2>1. r.breaks \in Seq(Break) /\ 1 \in DOMAIN r.breaks /\ r.breaks[1] \in Break
      BY <1>1, <1>6 DEF Session
    <2> DEFINE b == [r.breaks EXCEPT ![1].start = c.value]
               d == [r.breaks EXCEPT ![1].end = c.value]
    <2>2. DC!Applied(c, r) = IF c.field = "BREAK_START" THEN [r EXCEPT !.breaks = b]
                             ELSE [r EXCEPT !.breaks = d]
      BY <1>1, <1>6 DEF DC!Applied, Session
    <2>3. [r.breaks[1] EXCEPT !.start = c.value] \in Break
          /\ [r.breaks[1] EXCEPT !.end = c.value] \in Break
      BY <1>2, <2>1 DEF Break
    <2>4. b \in Seq(Break) /\ d \in Seq(Break)
      BY <2>1, <2>3
    <2> HIDE DEF b, d
    <2>5. [r EXCEPT !.breaks = b] \in Like(s) /\ [r EXCEPT !.breaks = d] \in Like(s)
      BY <1>1, <2>4 DEF Like, Session
    <2> QED
      BY <2>2, <2>5
  <1> QED
    BY <1>3, <1>4, <1>5, <1>6

\* So do any number of them, one after the other.
LEMMA CorrectedIsLike ==
    ASSUME NEW s \in Session, NEW seq \in Seq(Correction)
    PROVE  CorrectedBy(s, seq) \in Like(s)
  <1> DEFINE F == [z \in Like(s) \X Correction |-> DC!Applied(z[2], z[1])]
             After(w) == [t \in SUBSET DOMAIN seq |->
                            IF t = {} THEN s
                            ELSE DC!Applied(seq[Max(t)], w[t \ {Max(t)}])]
             w == CHOOSE x : x = After(x)
             n == Len(seq)
  <1>1. CorrectedBy(s, seq) = w[DOMAIN seq]
    BY DEF CorrectedBy, DC!FoldLeft, DC!MapThenFoldSet, DC!Max, Max
  <1>2. s \in Like(s)
    BY DEF Like
  <1>3. F \in [Like(s) \X Correction -> Like(s)]
    BY AppliedIsLike
  <1>4. PICK v \in [SUBSET DOMAIN seq -> Like(s)] : Folding(v, s, F, seq)
    <2> HIDE DEF F
    <2> QED
      BY <1>2, <1>3, FoldExists
  <1>5. n \in Nat /\ DOMAIN seq = 1..n /\ \A k \in 1..n : seq[k] \in Correction
    OBVIOUS
  <1>6. ASSUME NEW t \in SUBSET DOMAIN seq, t # {}
        PROVE  seq[Max(t)] \in Correction /\ t \ {Max(t)} \in SUBSET DOMAIN seq
    <2>1. Max(t) \in t
      BY <1>5, <1>6, MaxOf
    <2> QED
      BY <1>5, <2>1
  <1>7. v = After(v)
    <2>1. ASSUME NEW t \in SUBSET DOMAIN seq, t # {}
          PROVE  F[<<v[t \ {Max(t)}], seq[Max(t)]>>] = DC!Applied(seq[Max(t)], v[t \ {Max(t)}])
      BY <1>4, <1>6, <2>1
    <2> HIDE DEF F
    <2> QED
      BY <1>4, <2>1 DEF Folding
  <1>8. w = After(w)
    <2> HIDE DEF After
    <2> QED
      BY <1>7, Zenon
  <1> DEFINE S == {k \in Nat : k <= n => w[1..k] \in Like(s)}
  <1>9. 0 \in S
    <2>1. 1..0 = {} /\ {} \in SUBSET DOMAIN seq
      OBVIOUS
    <2>2. w[{}] = s
      <3> HIDE DEF w
      <3> QED
        BY <1>8
    <2> HIDE DEF w
    <2> QED
      BY <1>2, <2>1, <2>2
  <1>10. ASSUME NEW k \in Nat, k \in S PROVE k + 1 \in S
    <2> SUFFICES ASSUME k + 1 <= n PROVE w[1..(k + 1)] \in Like(s)
      OBVIOUS
    <2>1. w[1..k] \in Like(s)
      BY <1>5, <1>10
    <2>2. 1..(k + 1) \in SUBSET DOMAIN seq /\ 1..(k + 1) # {} /\ k + 1 \in 1..n
      BY <1>5
    <2>3. Max(1..(k + 1)) = k + 1 /\ (1..(k + 1)) \ {k + 1} = 1..k
      BY MaxOfPrefix
    <2>4. w[1..(k + 1)] = DC!Applied(seq[k + 1], w[1..k])
      <3> HIDE DEF w
      <3> QED
        BY <1>8, <2>2, <2>3
    <2> HIDE DEF w
    <2> QED
      BY <1>5, <2>1, <2>2, <2>4, AppliedIsLike
  <1>11. \A k \in 0..n : k \in S
    <2> HIDE DEF S
    <2> QED
      BY <1>5, <1>9, <1>10, Climb
  <1>12. w[1..n] \in Like(s)
    <2> HIDE DEF w
    <2> QED
      BY <1>5, <1>11
  <1> QED
    BY <1>1, <1>5, <1>12

\* A finite set of corrections is a sequence of them in some order.
LEMMA CorrectionsInSomeOrder ==
    ASSUME NEW C \in SUBSET Correction, IsFiniteSet(C)
    PROVE  DC!SetToSeq(C) \in Seq(Correction)
  <1>1. Cardinality(C) \in Nat /\ ExistsBijection(1..Cardinality(C), C)
    BY FS_CardinalityType
  <1>2. \E f \in [1..Cardinality(C) -> C] : DC!IsInjective(f)
    BY <1>1 DEF ExistsBijection, Bijection, Injection, IsInjective, DC!IsInjective
  <1>3. DC!SetToSeq(C) = CHOOSE f \in [1..Cardinality(C) -> C] : DC!IsInjective(f)
    BY SameCardinality DEF DC!SetToSeq
  <1>4. DC!SetToSeq(C) \in [1..Cardinality(C) -> C]
    BY <1>2, <1>3, Zenon
  <1> QED
    BY <1>1, <1>4

-----------------------------------------------------------------------------
(* The sessions the day is calculated from                                 *)

\* The approved corrections.
Approved == {correction[k] : k \in Live({"APPROVED"})}

\* The corrections of one session.
Own(s) == {c \in Approved : c.target # 0 /\ c.target = s.id}

\* A session with every approved correction of it.
Corrected(s) == CorrectedBy(s, DC!SetToSeq(Own(s)))

\* The info of the day with the grace that is applied to it.
WithGrace(info) == [info EXCEPT !.grace = Grace(info)]

\* The sessions that corrections make up.
MadeUp(info) == {DC!Synthetic(c, WithGrace(info)) : c \in {x \in Approved : x.target = 0}}

\* Corrections are applied to the sessions that there are or that they make up.
LEMMA WhatIsApplied ==
    ASSUME NEW info
    PROVE  Applied(info) = {Corrected(s) : s \in Range(session) \cup MadeUp(info)}
  BY DEF Applied, DC!ApplyCorrectionsToSessions, Corrected, CorrectedBy, Own, MadeUp, WithGrace, Approved

\* There are finitely many approved corrections.
LEMMA ApprovedFinite == ASSUME DayRows PROVE IsFiniteSet(Approved) /\ Approved \in SUBSET Correction
  <1>1. correction \in [1..Len(correction) -> Correction] /\ Len(correction) \in Nat
    BY DEF DayRows
  <1>2. Live({"APPROVED"}) \in SUBSET (1..Len(correction))
    BY <1>1 DEF Live
  <1>3. IsFiniteSet(Live({"APPROVED"}))
    <2>1. IsFiniteSet(1..Len(correction))
      BY <1>1, FS_Interval
    <2> QED
      BY <1>2, <2>1, FS_Subset
  <1> DEFINE f == [k \in Live({"APPROVED"}) |-> correction[k]]
  <1>4. f \in Surjection(Live({"APPROVED"}), Approved)
    BY DEF Surjection, Approved
  <1> HIDE DEF f
  <1>5. IsFiniteSet(Approved)
    BY <1>3, <1>4, FS_Surjection
  <1> QED
    BY <1>1, <1>2, <1>5 DEF Approved

\* A session that a correction makes up has its value as check-in and what workforce
\* says as expectation.
LEMMA MadeUpIs ==
    ASSUME DayRows, NEW info \in DayInfo, NEW s \in MadeUp(info)
    PROVE  /\ s.id = 0 /\ s.in \in Times
           /\ s.start = None <=> s.end = None
           /\ s.start # None => s.start \in Nat /\ s.end \in Nat
           /\ \A t \in MadeUp(info) : s.in = t.in => s = t
           /\ Corrected(s) = s
  <1> DEFINE g == WithGrace(info)
  <1>1. g.window = info.window
    BY DEF WithGrace, DayInfo
  <1>2. info.window \in Windows \cup {None}
    BY DEF DayInfo
  <1> HIDE DEF g
  <1>3. PICK c \in Approved : s = DC!Synthetic(c, g)
    BY DEF MadeUp, g
  <1>4. c.value \in Times
    BY ApprovedFinite DEF Correction
  <1>5. s.id = 0 /\ s.in = c.value
    BY <1>3 DEF DC!Synthetic
  <1>6. /\ s.start = IF info.window = None THEN None ELSE info.window.start
        /\ s.end = IF info.window = None THEN None ELSE info.window.end
    BY <1>1, <1>3 DEF DC!Synthetic
  <1>7. info.window # None =>
          info.window.start \in Nat /\ info.window.end \in Nat
          /\ info.window.start # None /\ info.window.end # None
    BY <1>2, WorkforceAssumption
  <1>8. ASSUME NEW t \in MadeUp(info), s.in = t.in PROVE s = t
    <2>1. PICK d \in Approved : t = DC!Synthetic(d, g)
      BY DEF MadeUp, g
    <2>2. c.value = d.value
      BY <1>3, <1>8, <2>1 DEF DC!Synthetic
    <2> QED
      BY <1>3, <2>1, <2>2 DEF DC!Synthetic
  <1>9. Corrected(s) = s
    <2>1. Own(s) = {}
      BY <1>5 DEF Own
    <2>2. Uncorrected(s) = CorrectedBy(s, DC!SetToSeq({}))
      BY DEF CorrectedBy, Uncorrected
    <2>3. Uncorrected(s) = s
      BY NoCorrections
    <2> QED
      BY <2>1, <2>2, <2>3 DEF Corrected
  <1> QED
    BY <1>4, <1>5, <1>6, <1>7, <1>8, <1>9

\* A session of the day keeps its number and its expectation.
LEMMA OfTheDayIs ==
    ASSUME DayRows, NEW s \in Range(session)
    PROVE  /\ Corrected(s).id = s.id /\ s.id \in Nat \ {0} /\ Corrected(s).in \in Times
           /\ Corrected(s).start = None <=> Corrected(s).end = None
           /\ Corrected(s).start # None => Corrected(s).start \in Nat /\ Corrected(s).end \in Nat
           /\ \A t \in Range(session) : s.id = t.id => s = t
  <1>1. session \in Seq(Session)
    BY DEF DayRows
  <1>2. PICK i \in DOMAIN session : s = session[i]
    BY DEF Range
  <1>3. s \in Session /\ s.id = i /\ (s.start = None <=> s.end = None)
    BY <1>1, <1>2 DEF DayRows
  <1>4. Own(s) \in SUBSET Correction /\ IsFiniteSet(Own(s))
    BY ApprovedFinite, FS_Subset DEF Own
  <1>5. Corrected(s) \in Like(s)
    BY <1>3, <1>4, CorrectionsInSomeOrder, CorrectedIsLike DEF Corrected
  <1>6. Corrected(s) \in Session /\ Corrected(s).id = s.id /\ Corrected(s).start = s.start
        /\ Corrected(s).end = s.end
    BY <1>5 DEF Like
  <1>7. Corrected(s).in \in Times
        /\ Corrected(s).start \in Nat \cup {None} /\ Corrected(s).end \in Nat \cup {None}
    BY <1>6 DEF Session
  <1>8. s.id \in Nat \ {0}
    BY <1>3, WorkDayAssumption DEF Session
  <1>9. \A t \in Range(session) : s.id = t.id => s = t
    BY <1>2, <1>3 DEF Range, DayRows
  <1> QED
    BY <1>3, <1>6, <1>7, <1>8, <1>9

\* The sessions that the day is calculated from can be sorted, and each has an
\* expectation with a start and an end or none.
LEMMA AppliedSorts ==
    ASSUME DayRows, NEW info \in DayInfo
    PROVE  /\ Sortable(Applied(info))
           /\ \A r \in Applied(info) :
                 /\ r.in \in Nat
                 /\ r.start # None => r.start \in Nat /\ r.end \in Nat
  <1> DEFINE all == Range(session) \cup MadeUp(info)
  <1>1. Applied(info) = {Corrected(s) : s \in all}
    BY WhatIsApplied
  <1>2. ASSUME NEW s \in all
        PROVE  /\ Corrected(s).in \in Nat /\ Corrected(s).id \in Nat
               /\ Corrected(s).start # None =>
                     Corrected(s).start \in Nat /\ Corrected(s).end \in Nat
    <2>1. \A x \in Times : x \in Nat
      BY WorkDayAssumption DEF Times
    <2>2. CASE s \in Range(session)
      BY <2>1, <2>2, OfTheDayIs
    <2>3. CASE s \in MadeUp(info)
      BY <2>1, <2>3, MadeUpIs
    <2> QED
      BY <2>2, <2>3
  <1>3. ASSUME NEW s \in all, NEW t \in all,
               Corrected(s).id = Corrected(t).id, Corrected(s).in = Corrected(t).in
        PROVE  s = t
    <2>1. CASE s \in Range(session) /\ t \in Range(session)
      BY <1>3, <2>1, OfTheDayIs
    <2>2. CASE s \in MadeUp(info) /\ t \in MadeUp(info)
      BY <1>3, <2>2, MadeUpIs
    <2>3. CASE s \in Range(session) /\ t \in MadeUp(info)
      BY <1>3, <2>3, OfTheDayIs, MadeUpIs
    <2>4. CASE s \in MadeUp(info) /\ t \in Range(session)
      BY <1>3, <2>4, OfTheDayIs, MadeUpIs
    <2> QED
      BY <2>1, <2>2, <2>3, <2>4
  <1>4. IsFiniteSet(all)
    <2>1. IsFiniteSet(Range(session))
      BY SessionsSort DEF Sortable
    <2> DEFINE X == {x \in Approved : x.target = 0}
               f == [c \in X |-> DC!Synthetic(c, WithGrace(info))]
    <2>2. IsFiniteSet(X)
      BY ApprovedFinite, FS_Subset
    <2>3. f \in Surjection(X, MadeUp(info))
      BY DEF Surjection, MadeUp
    <2> HIDE DEF X, f
    <2>4. IsFiniteSet(MadeUp(info))
      BY <2>2, <2>3, FS_Surjection
    <2> QED
      BY <2>1, <2>4, FS_Union
  <1> HIDE DEF all
  <1>5. IsFiniteSet(Applied(info))
    <2> DEFINE f == [s \in all |-> Corrected(s)]
    <2>1. f \in Surjection(all, Applied(info))
      BY <1>1 DEF Surjection
    <2> HIDE DEF f
    <2> QED
      BY <1>4, <2>1, FS_Surjection
  <1>6. \A r \in Applied(info) : r.in \in Nat /\ r.id \in Nat
          /\ (r.start # None => r.start \in Nat /\ r.end \in Nat)
    BY <1>1, <1>2
  <1>7. \A r, u \in Applied(info) : r.in = u.in /\ r.id = u.id => r = u
    BY <1>1, <1>3
  <1> QED
    BY <1>5, <1>6, <1>7 DEF Sortable

-----------------------------------------------------------------------------
(* The expectations of a day                                               *)

\* Firsts of runs with the same expectation, in the order of their check-ins and
\* before what is still to come of the day from k on.
FirstsUpTo(firsts, ordered, k) ==
    /\ \A i \in DOMAIN firsts : firsts[i].start # None
    /\ \A i, j \in DOMAIN firsts : i < j => firsts[i].in <= firsts[j].in
    /\ \A i \in DOMAIN firsts, n \in DOMAIN ordered : k < n => firsts[i].in <= ordered[n].in

\* One more session is the first of a run or is not.
LEMMA OneMore ==
    ASSUME NEW A, \A r \in A : r.in \in Nat, NEW ordered \in Seq(A), InCheckInOrder(ordered),
           NEW k \in Nat, k + 1 \in DOMAIN ordered,
           NEW firsts \in Seq(A), FirstsUpTo(firsts, ordered, k),
           NEW more \in {firsts, Append(firsts, ordered[k + 1])},
           ordered[k + 1].start = None => more = firsts
    PROVE  more \in Seq(A) /\ FirstsUpTo(more, ordered, k + 1)
  <1> DEFINE s == ordered[k + 1]
  <1>1. s \in A /\ s.in \in Nat
    OBVIOUS
  <1>2. \A n \in DOMAIN ordered : k + 1 < n => s.in <= ordered[n].in
    <2> SUFFICES ASSUME NEW n \in DOMAIN ordered, k + 1 < n PROVE s.in <= ordered[n].in
      OBVIOUS
    <2>1. DC!BeforeOf(s, ordered[n])
      BY DEF InCheckInOrder
    <2>2. ordered[n] \in A /\ ordered[n].in \in Nat
      OBVIOUS
    <2> HIDE DEF s
    <2> QED
      BY <1>1, <2>1, <2>2 DEF DC!BeforeOf
  <1>3. \A n \in DOMAIN ordered : n \in Nat
    OBVIOUS
  <1>4. CASE more = firsts
    <2>1. \A n \in DOMAIN ordered : k + 1 < n => k < n
      BY <1>3
    <2> QED
      BY <1>4, <2>1 DEF FirstsUpTo
  <1>5. CASE more # firsts
    <2>1. more = Append(firsts, s) /\ s.start # None
      BY <1>5
    <2>2. ASSUME NEW i \in DOMAIN more
          PROVE  (i \in DOMAIN firsts /\ more[i] = firsts[i]) \/ (i = Len(firsts) + 1 /\ more[i] = s)
      BY <1>1, <2>1
    <2>3. \A i \in DOMAIN firsts : firsts[i].in <= s.in
      BY DEF FirstsUpTo
    <2> HIDE DEF s
    <2>4. more \in Seq(A)
      BY <1>1, <2>1
    <2>5. \A i \in DOMAIN more : more[i].start # None
      BY <2>1, <2>2 DEF FirstsUpTo
    <2>6. ASSUME NEW i \in DOMAIN more, NEW j \in DOMAIN more, i < j
          PROVE  more[i].in <= more[j].in
      <3>1. i \in DOMAIN firsts /\ more[i] = firsts[i]
        <4>1. i \in Nat /\ j \in Nat /\ j <= Len(firsts) + 1 /\ Len(firsts) \in Nat
          BY <2>1, <2>4, <1>1
        <4>2. i # Len(firsts) + 1
          BY <2>6, <4>1
        <4> QED
          BY <2>2, <4>2
      <3>2. CASE j \in DOMAIN firsts /\ more[j] = firsts[j]
        BY <2>6, <3>1, <3>2 DEF FirstsUpTo
      <3>3. CASE more[j] = s
        BY <2>3, <3>1, <3>3
      <3> QED
        BY <2>2, <3>2, <3>3
    <2>7. ASSUME NEW i \in DOMAIN more, NEW n \in DOMAIN ordered, k + 1 < n
          PROVE  more[i].in <= ordered[n].in
      <3>1. CASE i \in DOMAIN firsts /\ more[i] = firsts[i]
        <4>1. k < n
          BY <1>3, <2>7
        <4> QED
          BY <3>1, <4>1 DEF FirstsUpTo
      <3>2. CASE more[i] = s
        BY <1>2, <2>7, <3>2
      <3> QED
        BY <2>2, <3>1, <3>2
    <2> QED
      BY <2>4, <2>5, <2>6, <2>7 DEF FirstsUpTo
  <1> QED
    BY <1>4, <1>5

\* Distinct yields the firsts of runs, in the order of their check-ins.
LEMMA DistinctOrdered ==
    ASSUME NEW A, \A r \in A : r.in \in Nat, NEW ordered \in Seq(A), InCheckInOrder(ordered)
    PROVE  /\ DC!Distinct(ordered) \in Seq(A)
           /\ FirstsUpTo(DC!Distinct(ordered), ordered, Len(ordered))
  <1> DEFINE step(firsts, s) ==
                IF s.start = None \/ (firsts # <<>> /\ DC!SameExpectation(DC!Last(firsts), s))
                THEN firsts ELSE Append(firsts, s)
             F == [z \in Seq(A) \X A |-> step(z[1], z[2])]
             After(w) == [t \in SUBSET DOMAIN ordered |->
                            IF t = {} THEN <<>>
                            ELSE step(w[t \ {Max(t)}], ordered[Max(t)])]
             w == CHOOSE x : x = After(x)
             n == Len(ordered)
  <1>1. DC!Distinct(ordered) = w[DOMAIN ordered]
    BY DEF DC!Distinct, DC!FoldLeft, DC!MapThenFoldSet, DC!Max, Max
  <1>2. <<>> \in Seq(A)
    OBVIOUS
  <1>3. \A f \in Seq(A), s \in A : step(f, s) \in Seq(A)
    OBVIOUS
  <1>4. \A f, s : step(f, s) \in {f, Append(f, s)} /\ (s.start = None => step(f, s) = f)
    OBVIOUS
  <1> HIDE DEF step
  <1>5. F \in [Seq(A) \X A -> Seq(A)]
    BY <1>3
  <1>6. PICK v \in [SUBSET DOMAIN ordered -> Seq(A)] : Folding(v, <<>>, F, ordered)
    <2> HIDE DEF F
    <2> QED
      BY <1>2, <1>5, FoldExists
  <1>7. n \in Nat /\ DOMAIN ordered = 1..n /\ \A k \in 1..n : ordered[k] \in A
    OBVIOUS
  <1>8. ASSUME NEW t \in SUBSET DOMAIN ordered, t # {}
        PROVE  ordered[Max(t)] \in A /\ t \ {Max(t)} \in SUBSET DOMAIN ordered
    <2>1. Max(t) \in t
      BY <1>7, <1>8, MaxOf
    <2> QED
      BY <1>7, <2>1
  <1>9. v = After(v)
    <2>1. ASSUME NEW t \in SUBSET DOMAIN ordered, t # {}
          PROVE  F[<<v[t \ {Max(t)}], ordered[Max(t)]>>] = step(v[t \ {Max(t)}], ordered[Max(t)])
      BY <1>6, <1>8, <2>1
    <2> HIDE DEF F
    <2> QED
      BY <1>6, <2>1 DEF Folding
  <1>10. w = After(w)
    <2> HIDE DEF After
    <2> QED
      BY <1>9, Zenon
  <1> DEFINE S == {k \in Nat : k <= n => w[1..k] \in Seq(A) /\ FirstsUpTo(w[1..k], ordered, k)}
  <1>11. 0 \in S
    <2>1. 1..0 = {} /\ {} \in SUBSET DOMAIN ordered
      OBVIOUS
    <2>2. w[{}] = <<>>
      <3> HIDE DEF w
      <3> QED
        BY <1>10
    <2>3. FirstsUpTo(<<>>, ordered, 0)
      BY DEF FirstsUpTo
    <2> HIDE DEF w
    <2> QED
      BY <1>2, <2>1, <2>2, <2>3
  <1>12. ASSUME NEW k \in Nat, k \in S PROVE k + 1 \in S
    <2> SUFFICES ASSUME k + 1 <= n
                 PROVE  w[1..(k + 1)] \in Seq(A) /\ FirstsUpTo(w[1..(k + 1)], ordered, k + 1)
      OBVIOUS
    <2>1. w[1..k] \in Seq(A) /\ FirstsUpTo(w[1..k], ordered, k)
      BY <1>7, <1>12
    <2>2. 1..(k + 1) \in SUBSET DOMAIN ordered /\ 1..(k + 1) # {} /\ k + 1 \in DOMAIN ordered
      BY <1>7
    <2>3. Max(1..(k + 1)) = k + 1 /\ (1..(k + 1)) \ {k + 1} = 1..k
      BY MaxOfPrefix
    <2>4. w[1..(k + 1)] = step(w[1..k], ordered[k + 1])
      <3> HIDE DEF w
      <3> QED
        BY <1>10, <2>2, <2>3
    <2> HIDE DEF w
    <2>5. PICK firsts, more : firsts = w[1..k] /\ more = w[1..(k + 1)]
      OBVIOUS
    <2>6. more \in {firsts, Append(firsts, ordered[k + 1])}
          /\ (ordered[k + 1].start = None => more = firsts)
      BY <1>4, <2>4, <2>5
    <2>7. firsts \in Seq(A) /\ FirstsUpTo(firsts, ordered, k)
      BY <2>1, <2>5
    <2>8. more \in Seq(A) /\ FirstsUpTo(more, ordered, k + 1)
      BY <2>2, <2>6, <2>7, OneMore
    <2> QED
      BY <2>5, <2>8
  <1>13. \A k \in 0..n : k \in S
    <2> HIDE DEF S
    <2> QED
      BY <1>7, <1>11, <1>12, Climb
  <1>14. w[1..n] \in Seq(A) /\ FirstsUpTo(w[1..n], ordered, n)
    <2> HIDE DEF w
    <2> QED
      BY <1>7, <1>13
  <1> QED
    BY <1>1, <1>7, <1>14

\* The periods of a day are those of its distinct expectations.
LEMMA PeriodsOf ==
    ASSUME NEW A, NEW ordered, DC!Distinct(ordered) \in Seq(A)
    PROVE  LET p == DC!NormalizeExpectationPeriods(ordered)
               q == DC!Distinct(ordered)
           IN /\ Len(p) = Len(q) /\ DOMAIN p = 1..Len(q) /\ Len(q) \in Nat
              /\ \A n \in 1..Len(q) :
                    /\ p[n].start = q[n].start /\ p[n].in = q[n].in
                    /\ p[n].operativeEnd = DC!OperativeEnd(q, n)
  <1> DEFINE q == DC!Distinct(ordered)
             p == DC!NormalizeExpectationPeriods(ordered)
             period(n) == [start |-> q[n].start, end |-> q[n].end, grace |-> q[n].grace,
                           operativeEnd |-> DC!OperativeEnd(q, n), in |-> q[n].in]
  <1>1. Len(q) \in Nat /\ DOMAIN q = 1..Len(q)
    OBVIOUS
  <1>2. p = [n \in DOMAIN q |-> period(n)]
    BY DEF DC!NormalizeExpectationPeriods
  <1> HIDE DEF p, q
  <1>3. p \in [1..Len(q) -> {period(n) : n \in 1..Len(q)}]
    BY <1>1, <1>2
  <1>4. Len(p) = Len(q) /\ DOMAIN p = 1..Len(q)
    BY <1>1, <1>3
  <1>5. ASSUME NEW n \in 1..Len(q)
        PROVE  /\ p[n].start = q[n].start /\ p[n].in = q[n].in
               /\ p[n].operativeEnd = DC!OperativeEnd(q, n)
    BY <1>1, <1>2
  <1> QED
    BY <1>1, <1>4, <1>5 DEF p, q

\* A minute that comes before the next expectation was captured is not in a later
\* period whose expectation nobody was late for.
LEMMA CountedOnce ==
    ASSUME DayRows, NEW info \in DayInfo,
           \A n \in 2..Len(Periods(info)) : Periods(info)[n].in <= Periods(info)[n].start,
           NEW m \in DOMAIN Periods(info), NEW n \in DOMAIN Periods(info), m < n,
           NEW t \in Int, Periods(info)[m].start <= t, t < Periods(info)[m].operativeEnd,
           Periods(info)[n].start <= t
    PROVE  FALSE
  <1> DEFINE A == Applied(info)
             ordered == DC!ByCheckIn(A)
             q == DC!Distinct(ordered)
             p == Periods(info)
  <1>1. Sortable(A) /\ \A r \in A : r.in \in Nat /\ (r.start # None => r.start \in Nat /\ r.end \in Nat)
    BY AppliedSorts
  <1>2. ordered \in Seq(A) /\ InCheckInOrder(ordered)
    BY <1>1, ByCheckInSorts
  <1>3. q \in Seq(A) /\ FirstsUpTo(q, ordered, Len(ordered))
    <2> HIDE DEF ordered, A
    <2> QED
      BY <1>1, <1>2, DistinctOrdered
  <1>4. /\ Len(p) = Len(q) /\ DOMAIN p = 1..Len(q) /\ Len(q) \in Nat
        /\ \A k \in 1..Len(q) : /\ p[k].start = q[k].start /\ p[k].in = q[k].in
                                /\ p[k].operativeEnd = DC!OperativeEnd(q, k)
    BY <1>3, PeriodsOf DEF Periods
  <1> HIDE DEF q, ordered, A, p
  <1>5. m \in 1..Len(q) /\ n \in 1..Len(q) /\ m + 1 \in 1..Len(q) /\ m + 1 <= n /\ m # Len(q)
        /\ n \in 2..Len(q)
    BY <1>4 DEF p
  <1>6. q[m] \in A /\ q[n] \in A /\ q[m + 1] \in A
    BY <1>3, <1>5
  <1>7. \A k \in 1..Len(q) : q[k].start # None
    BY <1>3 DEF FirstsUpTo
  <1>8. q[m].start \in Nat /\ q[m].end \in Nat /\ q[m + 1].in \in Nat /\ q[n].in \in Nat
        /\ q[n].start \in Nat
    BY <1>1, <1>5, <1>6, <1>7
  <1>9. q[m + 1].in <= q[n].in
    <2>1. CASE m + 1 = n
      BY <1>8, <2>1
    <2>2. CASE m + 1 # n
      <3>1. m + 1 < n /\ m + 1 \in DOMAIN q /\ n \in DOMAIN q
        BY <1>3, <1>5, <2>2
      <3> QED
        BY <1>3, <3>1 DEF FirstsUpTo
    <2> QED
      BY <2>1, <2>2
  <1>10. q[n].in <= q[n].start
    BY <1>4, <1>5 DEF p
  <1>11. t < q[m + 1].in
    <2>1. q[m].start <= t /\ t < DC!OperativeEnd(q, m)
      BY <1>4, <1>5 DEF p
    <2>2. DC!OperativeEnd(q, m) = DC!Later(q[m].start, DC!Earlier(q[m].end, q[m + 1].in))
      BY <1>5 DEF DC!OperativeEnd
    <2> QED
      BY <1>8, <2>1, <2>2 DEF DC!Later, DC!Earlier
  <1>12. q[n].start <= t
    BY <1>4, <1>5 DEF p
  <1> QED
    BY <1>8, <1>9, <1>10, <1>11, <1>12

\* No scheduled minute of a day is counted twice, provided nobody is late for an
\* expectation that changed during the day: whatever the sessions, their
\* corrections and what workforce says now.
THEOREM MinutesCountedOnce == Spec => []MinutesCountedOnceUnlessLate
  <1>1. ASSUME RowsInv, DayRows PROVE MinutesCountedOnceUnlessLate
    <2> SUFFICES ASSUME NEW info \in DayInfos(Worker, Today),
                        \A n \in 2..Len(Periods(info)) : Periods(info)[n].in <= Periods(info)[n].start,
                        NEW m \in DOMAIN Periods(info), NEW n \in DOMAIN Periods(info), m < n,
                        NEW t \in {t \in Periods(info)[m].start..Periods(info)[n].end :
                                     Periods(info)[m].start <= t /\ t < Periods(info)[m].operativeEnd}
                                  \cap {t \in Periods(info)[n].start..Periods(info)[n].end :
                                          t < Periods(info)[n].operativeEnd}
                 PROVE  FALSE
      BY DEF MinutesCountedOnceUnlessLate
    <2>1. info \in DayInfo
      BY <1>1, InfoTyped, WorkDayAssumption, WorkforceAssumption
    <2>2. t \in Int /\ Periods(info)[m].start <= t /\ t < Periods(info)[m].operativeEnd
          /\ Periods(info)[n].start <= t
      OBVIOUS
    <2> QED
      BY <1>1, <2>1, <2>2, CountedOnce
  <1> QED
    BY <1>1, DayInvariant, PTL

=============================================================================
