-------------------------- MODULE Employees_proofs --------------------------
(***************************************************************************)
(* What Employees keeps for every value of the constants: employee numbers *)
(* are unique and without gaps; the status that the scheduled job          *)
(* reconstructs from the history is the one an employee had when the work  *)
(* date ended, unless a change straddled that moment; and what a call has  *)
(* checked before it writes (a manager's being active, the tasks of a      *)
(* checklist, the way up from a new superior) still holds when it writes,  *)
(* unless another call has written since.                                  *)
(***************************************************************************)
EXTENDS Employees, FiniteSetTheorems, FunctionTheorems, SequenceTheorems, WellFoundedInduction, TLAPS

-----------------------------------------------------------------------------
(* The inductive invariants                                                *)

\* What a request is about, and what it has established by its stage.
Stage(q) ==
    /\ q.pc \in {"new", "over", "lost"} <=> q.op = "NONE"
    /\ q.op \in {"ASSIGN", "PLACE", "CREATE", "STATUS", "ARCHIVE", "START", "TASK"}
          => q.subject \in People
    /\ q.op \in {"MOVE", "SWITCH"} => q.subject \in Units
    /\ q.op \in {"ASSIGN", "CREATE"} => q.to \in People \cup {None}
    /\ q.op \in {"PLACE", "MOVE"} => q.to \in Units \cup {None}
    /\ q.op = "STATUS" => q.to \in Statuses
    /\ q.op = "TASK" => q.to \in Tasks
    /\ q.pc = "read" => q.op \in {"ASSIGN", "PLACE", "STATUS", "ARCHIVE", "START", "TASK"}
    /\ q.pc = "scope" => q.op \in {"ASSIGN", "PLACE"}
    /\ q.pc = "manager" => q.op \in {"ASSIGN", "CREATE"} /\ q.to \in People
    /\ q.pc = "walk" => \/ q.op = "ASSIGN" /\ q.at \in People
                        \/ q.op = "MOVE" /\ q.at \in Units
    /\ q.pc = "begin" => q.op \in {"ASSIGN", "PLACE", "STATUS"}
    /\ q.pc = "count" => q.op = "ARCHIVE"
    /\ q.pc = "commit" => q.op \in {"ASSIGN", "PLACE", "STATUS", "ARCHIVE"}
    /\ q.pc \in {"issue", "insert"} => q.op = "CREATE"
    /\ q.pc \in {"find", "progress"} => q.op \in {"START", "TASK"}
    /\ q.pc \in {"checklist", "tasks"} => q.op = "START"
    /\ q.pc \in {"toggle", "remaining", "stamp", "settle"} => q.op = "TASK"
    /\ q.pc = "occupied" => q.op = "SWITCH"
    /\ q.pc = "write" => q.op \in {"MOVE", "SWITCH"}

Stages ==
    \A c \in Calls :
        /\ Stage(call[c])
        /\ call[c].pc = "toggle" => call[c].to \in checklist[call[c].subject].tasks

TypeInv == TypeOK /\ Stages

\* Only one creation at a time has a number that is not yet anybody's.
NumberInv ==
    /\ NumbersUniqueAndGapless
    /\ \A c, d \in Calls : call[c].pc = "insert" /\ call[d].pc = "insert" => c = d

\* A row that is not visible yet is the one row of a transaction in flight, and
\* says what that transaction is about.
WrittenBy(h, q) ==
    /\ q.pc \in {"commit", "insert"}
    /\ h.event = "STATUS" <=> q.op = "STATUS"
    /\ q.op = "STATUS" => h.employee = q.subject

RowInv ==
    /\ \A i \in DOMAIN history :
          history[i].by # None => WrittenBy(history[i], call[history[i].by])
    /\ \A i, j \in DOMAIN history :
          history[i].by # None /\ history[i].by = history[j].by => i = j
    /\ \A c \in Calls : call[c].pc = "commit" /\ call[c].op = "STATUS" =>
          \E i \in DOMAIN history : history[i].by = c

\* No row is late before the day has ended; afterwards a change that did not
\* straddle the end writes one that is.
LateInv ==
    /\ ~dayEnd.passed => \A i \in DOMAIN history : ~history[i].late
    /\ dayEnd.passed => \A i \in DOMAIN history :
          history[i].by # None /\ history[i].event = "STATUS" =>
             history[i].late \/ history[i].employee \in dayEnd.straddled

\* Whatever has read a status other than the one at the end of the day has read it
\* after a later change became visible, and is recorded after that change.
DayInv ==
    dayEnd.passed => \A e \in People \ dayEnd.straddled :
        /\ employee[e].status = dayEnd.status[e] \/ LaterChanges(e) # {}
        /\ \A c \in Calls :
              call[c].pc = "begin" /\ call[c].op = "STATUS" /\ call[c].subject = e =>
                 call[c].seen = dayEnd.status[e] \/ LaterChanges(e) # {}
        /\ \A i \in DOMAIN history :
              history[i].employee = e /\ history[i].event = "STATUS" /\ history[i].late =>
                 \/ history[i].before = dayEnd.status[e]
                 \/ \E j \in LaterChanges(e) : j < i

HistoryInv == RowInv /\ LateInv /\ DayInv

\* What the checks of a call have found still holds, unless somebody else has
\* written since: its manager is not archived, it archives nobody whom somebody
\* active reports to, and the onboarding status and the tasks are as it read them.
Founded(q) ==
    LET l == checklist[q.subject] IN
    ~q.outdated =>
        /\ /\ q.op \in {"ASSIGN", "CREATE"} /\ q.to # None
           /\ q.pc \in {"walk", "begin", "commit", "issue", "insert"}
           => ~employee[q.to].archived
        /\ q.op = "ARCHIVE" /\ q.pc = "commit" =>
              \A e \in Present : employee[e].manager = q.subject => employee[e].archived
        /\ q.op = "TASK" /\ q.pc \in {"find", "toggle", "remaining"} =>
              q.seen = employee[q.subject].onboarding
        /\ q.op = "TASK" /\ q.pc \in {"toggle", "remaining", "progress", "stamp", "settle"} =>
              q.to \in l.tasks
        /\ q.op = "TASK" /\ q.pc = "progress" => l.done # l.tasks
        /\ q.op = "TASK" /\ q.pc \in {"stamp", "settle"} => l.done = l.tasks

CheckInv == \A c \in Calls : Founded(call[c])

\* The part of the chain that a call has walked holds its new superior and not its
\* subject, and, once the walk is over, leads nowhere else.
Chain(q) == q.visited \cup {q.at}

Walked(q) ==
  /\ q.pc \in {"read", "scope", "manager"} => q.visited = {}
  /\ /\ ~q.outdated /\ q.op \in {"ASSIGN", "MOVE"} /\ q.to # None
     /\ q.pc \in {"walk", "begin", "commit", "write"}
     =>  /\ Chain(q) \subseteq (IF q.op = "ASSIGN" THEN People ELSE Units)
         /\ q.to \in Chain(q) /\ q.subject \notin Chain(q)
         /\ \A x \in q.visited : Up(x) \in Chain(q) \cup {None}
         /\ q.pc # "walk" => Up(q.at) \in Chain(q) \cup {None}

WalkInv == \A c \in Calls : Walked(call[c])

\* Whoever is a manager, or is to become one, has a record.
ManagerInv ==
    /\ \A e \in People : employee[e].manager \in Present \cup {None}
    /\ \A c \in Calls : call[c].op \in {"ASSIGN", "CREATE"} => call[c].to \in Present \cup {None}

-----------------------------------------------------------------------------
(* Initial states                                                          *)

\* The numbers that the records of the start are given: 1 to as many as there are.
LEMMA Numbering ==
    LET n == CHOOSE m \in [Hired -> 1..Cardinality(Hired)] : IsInjective(m)
    IN  /\ n \in [Hired -> 1..Cardinality(Hired)]
        /\ \A d, e \in Hired : n[d] = n[e] => d = e
        /\ \A k \in 1..Cardinality(Hired) : \E e \in Hired : n[e] = k
        /\ Cardinality(Hired) \in Nat
  <1> DEFINE size == Cardinality(Hired)
             n == CHOOSE m \in [Hired -> 1..size] : IsInjective(m)
  <1>1. IsFiniteSet(Hired)
    BY PeopleAssumption, FS_Subset
  <1>2. size \in Nat /\ ExistsBijection(1..size, Hired)
    BY <1>1, FS_CardinalityType
  <1>3. ExistsBijection(Hired, 1..size)
    BY <1>2, Fun_ExistsBijSymmetric
  <1>4. PICK f : f \in Bijection(Hired, 1..size)
    BY <1>3 DEF ExistsBijection
  <1>5. f \in [Hired -> 1..size] /\ IsInjective(f)
    BY <1>4 DEF Bijection, Injection
  <1>6. n \in [Hired -> 1..size] /\ IsInjective(n)
    BY <1>5
  <1>7. n \in Injection(Hired, 1..size)
    BY <1>6 DEF Injection
  <1>8. IsFiniteSet(1..size) /\ Cardinality(1..size) = size
    BY <1>2, FS_Interval
  <1>9. n \in Surjection(Hired, 1..size)
    BY <1>7, <1>8, FS_Injection
  <1> HIDE DEF n, size
  <1>10. \A k \in 1..size : \E e \in Hired : n[e] = k
    BY <1>9 DEF Surjection
  <1>11. \A d, e \in Hired : n[d] = n[e] => d = e
    BY <1>6 DEF IsInjective
  <1> QED
    BY <1>2, <1>6, <1>10, <1>11 DEF n, size

\* A slot that no request uses, one whose request is over and one whose has died.
LEMMA FreshTyped ==
    /\ Fresh \in Call /\ Stage(Fresh) /\ Fresh.pc = "new"
    /\ Over \in Call /\ Stage(Over) /\ Over.pc = "over" /\ Over.op = "NONE"
    /\ LET lost == [Fresh EXCEPT !.pc = "lost"]
       IN lost \in Call /\ Stage(lost) /\ lost.pc = "lost" /\ lost.op = "NONE"
  <1>1. Fresh \in Call
    BY DEF Fresh, Call, Pcs
  <1>2. Stage(Fresh) /\ Fresh.pc = "new"
    BY DEF Fresh, Stage
  <1>3. Over \in Call
    BY <1>1 DEF Over, Call, Pcs
  <1>4. Stage(Over) /\ Over.pc = "over" /\ Over.op = "NONE"
    BY DEF Over, Fresh, Stage
  <1> DEFINE lost == [Fresh EXCEPT !.pc = "lost"]
  <1>5. lost \in Call
    BY <1>1 DEF Call, Pcs
  <1>6. Stage(lost) /\ lost.pc = "lost" /\ lost.op = "NONE"
    BY DEF Fresh, Stage
  <1> QED
    BY <1>1, <1>2, <1>3, <1>4, <1>5, <1>6

\* The initial states are typed, and their numbers are unique and without gaps.
LEMMA InitRight == Init => TypeInv /\ NumberInv /\ HistoryInv
  <1> SUFFICES ASSUME Init PROVE TypeInv /\ NumberInv /\ HistoryInv
    OBVIOUS
  <1> DEFINE number == CHOOSE n \in [Hired -> 1..Cardinality(Hired)] : IsInjective(n)
             begun(s, e) == s.done # {None} /\ e \in Subjects["TASK"]
  <1>1. PICK s \in Starts :
          /\ employee = [e \in People |->
               [present |-> e \in Hired, number |-> IF e \in Hired THEN number[e] ELSE 0,
                manager |-> s.manager[e], unit |-> NoPlacement, status |-> "ACTIVE",
                archived |-> FALSE,
                onboarding |-> IF ~begun(s, e) THEN "DRAFT"
                               ELSE IF s.done = Tasks THEN "COMPLETED" ELSE "IN_PROGRESS"]]
          /\ checklist = [e \in People |->
               IF begun(s, e) THEN [created |-> TRUE, tasks |-> Tasks, done |-> s.done,
                                    stamped |-> s.done = Tasks]
               ELSE NoChecklist]
    BY DEF Init
  <1>2. /\ counter = Cardinality(Hired) + 1 /\ history = <<>>
        /\ unit = [u \in Units |-> [active |-> TRUE, parent |-> None]]
        /\ call = [c \in Calls |-> Fresh]
        /\ dayEnd = [passed |-> FALSE, status |-> [e \in People |-> "ACTIVE"], straddled |-> {}]
    BY DEF Init
  <1>3. /\ number \in [Hired -> 1..Cardinality(Hired)]
        /\ \A d, e \in Hired : number[d] = number[e] => d = e
        /\ \A k \in 1..Cardinality(Hired) : \E e \in Hired : number[e] = k
        /\ Cardinality(Hired) \in Nat
    BY Numbering
  <1> HIDE DEF number
  <1>4. /\ s.manager \in [People -> Hired \cup {None}]
        /\ s.done \in (SUBSET Tasks) \cup {{None}}
    BY PeopleAssumption
  <1>5. ASSUME NEW e \in People
        PROVE  /\ employee[e] \in Employee
               /\ employee[e].present <=> e \in Hired
               /\ e \in Hired => employee[e].number = number[e]
               /\ checklist[e] \in Checklist /\ checklist[e].done \subseteq checklist[e].tasks
    <2> DEFINE here == e \in Hired
               num == IF e \in Hired THEN number[e] ELSE 0
               stage == IF ~begun(s, e) THEN "DRAFT"
                        ELSE IF s.done = Tasks THEN "COMPLETED" ELSE "IN_PROGRESS"
               no == FALSE
               row == [present |-> here, number |-> num, manager |-> s.manager[e],
                       unit |-> NoPlacement, status |-> "ACTIVE", archived |-> no,
                       onboarding |-> stage]
    <2>1. here \in BOOLEAN /\ no \in BOOLEAN
      OBVIOUS
    <2>2. num \in Nat /\ stage \in OnboardingStatuses
      BY <1>3 DEF OnboardingStatuses
    <2>3. NoPlacement \in [Kinds -> Units \cup {None}]
      BY DEF NoPlacement
    <2>4. employee[e] = row
      BY <1>1
    <2>5. s.manager[e] \in People \cup {None} /\ "ACTIVE" \in Statuses
      BY <1>4, PeopleAssumption
    <2>6. e \in Hired => num = number[e]
      OBVIOUS
    <2>7. here <=> e \in Hired
      OBVIOUS
    <2> HIDE DEF here, num, stage, no
    <2>8. employee[e] \in Employee /\ (employee[e].present <=> here) /\ employee[e].number = num
      BY <2>1, <2>2, <2>3, <2>4, <2>5 DEF Employee
    <2>9. checklist[e] \in Checklist /\ checklist[e].done \subseteq checklist[e].tasks
      <3> DEFINE full == s.done = Tasks
                 yes == TRUE
                 list == [created |-> yes, tasks |-> Tasks, done |-> s.done, stamped |-> full]
      <3>1. full \in BOOLEAN /\ yes \in BOOLEAN
        OBVIOUS
      <3>2. checklist[e] = IF begun(s, e) THEN list ELSE NoChecklist
        BY <1>1
      <3> HIDE DEF full, yes
      <3>3. CASE begun(s, e)
        <4>1. s.done \in SUBSET Tasks
          BY <1>4, <3>3
        <4>2. list \in Checklist /\ list.done \subseteq list.tasks
          BY <3>1, <4>1 DEF Checklist
        <4> QED
          BY <3>2, <3>3, <4>2
      <3>4. CASE ~begun(s, e)
        <4>1. NoChecklist \in Checklist /\ NoChecklist.done \subseteq NoChecklist.tasks
          BY DEF NoChecklist, Checklist
        <4> QED
          BY <3>2, <3>4, <4>1
      <3> QED
        BY <3>3, <3>4
    <2> QED
      BY <2>6, <2>7, <2>8, <2>9
  <1>6. employee \in [People -> Employee] /\ checklist \in [People -> Checklist]
    <2>1. employee = [e \in People |-> employee[e]] /\ checklist = [e \in People |-> checklist[e]]
      BY <1>1
    <2> QED
      BY <1>5, <2>1
  <1>7. unit \in [Units -> Unit]
    BY <1>2 DEF Unit
  <1>8. call \in [Calls -> Call] /\ \A c \in Calls : Stage(call[c]) /\ call[c].pc = "new"
    BY <1>2, FreshTyped
  <1>9. /\ dayEnd \in [passed: BOOLEAN, status: [People -> Statuses], straddled: SUBSET People]
        /\ ~dayEnd.passed
    BY <1>2, PeopleAssumption
  <1>10. history \in Seq(HistoryRow) /\ DOMAIN history = {}
    BY <1>2
  <1>11. TypeInv
    <2>1. counter \in Nat \ {0}
      BY <1>2, <1>3
    <2>2. TypeOK
      BY <1>5, <1>6, <1>7, <1>8, <1>9, <1>10, <2>1 DEF TypeOK
    <2>3. Stages
      BY <1>8 DEF Stages
    <2> QED
      BY <2>2, <2>3 DEF TypeInv
  <1>12. NumberInv
    <2>1. Present = Hired
      BY <1>5, PeopleAssumption DEF Present
    <2>2. {employee[e].number : e \in Present} = 1..(counter - 1)
      <3>1. counter - 1 = Cardinality(Hired)
        BY <1>2, <1>3
      <3>2. \A e \in Present : employee[e].number = number[e]
        BY <1>5, <2>1, PeopleAssumption
      <3> QED
        BY <1>3, <2>1, <3>1, <3>2
    <2>3. \A d, e \in Present : employee[d].number = employee[e].number => d = e
      BY <1>3, <1>5, <2>1, PeopleAssumption
    <2> QED
      BY <1>8, <2>2, <2>3 DEF NumberInv, NumbersUniqueAndGapless
  <1>13. HistoryInv
    BY <1>8, <1>9, <1>10 DEF HistoryInv, RowInv, LateInv, DayInv
  <1> QED
    BY <1>11, <1>12, <1>13

-----------------------------------------------------------------------------
(* What the steps are made of                                              *)

\* A call that another one's write leaves as it is but for what it knows of it.
Same(p, q) ==
    /\ q.pc = p.pc /\ q.op = p.op /\ q.subject = p.subject /\ q.to = p.to
    /\ q.seen = p.seen /\ q.at = p.at /\ q.visited = p.visited /\ q.number = p.number

\* One call goes on, the others stay where they are.
MovesTo(c, q) ==
    /\ call' \in [Calls -> Call] /\ call'[c] = q
    /\ \A d \in Calls \ {c} : Same(call[d], call'[d])

\* Whether or not the others are told.
LEMMA Moved ==
    ASSUME TypeInv, NEW c \in Calls, NEW q \in Call, Become(c, q) \/ WriteAs(c, q)
    PROVE  MovesTo(c, q)
  <1>1. CASE Become(c, q)
    BY <1>1 DEF Become, MovesTo, Same, TypeInv, TypeOK
  <1>2. CASE WriteAs(c, q)
    <2> DEFINE told(d) == call[d].outdated \/ (HasChecked(d) /\ Concern(call[d].op) = Concern(call[c].op))
               other(d) == [call[d] EXCEPT !.outdated = told(d)]
    <2>1. call' = [d \in Calls |-> IF d = c THEN q ELSE other(d)]
      BY <1>2 DEF WriteAs
    <2>2. ASSUME NEW d \in Calls
          PROVE  other(d) \in Call /\ Same(call[d], other(d))
      <3>1. call[d] \in Call
        BY DEF TypeInv, TypeOK
      <3>2. told(d) \in BOOLEAN
        BY <3>1 DEF Call, HasChecked
      <3> HIDE DEF told
      <3> QED
        BY <3>1, <3>2 DEF Call, Same
    <2> HIDE DEF other
    <2> QED
      BY <2>1, <2>2 DEF MovesTo
  <1> QED
    BY <1>1, <1>2

\* A transaction writes the row of the history that it is dated with.
LEMMA DatedRows ==
    ASSUME TypeInv, NEW c \in Calls, NEW event, Dated(c, event), call[c].subject \in People,
           event \in {"CREATED", "MANAGER", "PLACEMENT", "STATUS", "ARCHIVED"}
    PROVE  /\ history' \in Seq(HistoryRow) /\ Len(history') = Len(history) + 1
           /\ \A i \in 1..Len(history) : history'[i] = history[i]
           /\ LET row == history'[Len(history) + 1]
              IN /\ row.employee = call[c].subject /\ row.event = event
                 /\ row.before = call[c].seen /\ row.late = dayEnd.passed /\ row.by = c
  <1> DEFINE row == [employee |-> call[c].subject, event |-> event, before |-> call[c].seen,
                     late |-> dayEnd.passed, by |-> c]
  <1>1. history' = Append(history, row) /\ history \in Seq(HistoryRow)
    BY DEF Dated, TypeInv, TypeOK
  <1>2. row \in HistoryRow
    BY DEF TypeInv, TypeOK, HistoryRow, Call
  <1>3. /\ row.employee = call[c].subject /\ row.event = event
        /\ row.before = call[c].seen /\ row.late = dayEnd.passed /\ row.by = c
    OBVIOUS
  <1> HIDE DEF row
  <1> QED
    BY <1>1, <1>2, <1>3, AppendProperties

\* A row that a commit makes visible.
Shows(h, g) ==
    /\ g.employee = h.employee /\ g.event = h.event /\ g.before = h.before /\ g.late = h.late

\* A commit makes its row visible and leaves the others alone.
LEMMA VisibleRows ==
    ASSUME TypeInv, NEW c \in Calls, Visible(c)
    PROVE  /\ history' \in Seq(HistoryRow) /\ Len(history') = Len(history)
           /\ \A i \in 1..Len(history) :
                 /\ Shows(history[i], history'[i])
                 /\ history'[i].by = IF history[i].by = c THEN None ELSE history[i].by
  <1> DEFINE row(i) == [history[i] EXCEPT !.by = None]
  <1>1. history \in Seq(HistoryRow) /\ DOMAIN history = 1..Len(history) /\ Len(history) \in Nat
    BY DEF TypeInv, TypeOK
  <1>2. history' = [i \in 1..Len(history) |-> IF history[i].by = c THEN row(i) ELSE history[i]]
    BY <1>1 DEF Visible
  <1>3. ASSUME NEW i \in 1..Len(history)
        PROVE  row(i) \in HistoryRow /\ Shows(history[i], row(i)) /\ row(i).by = None
    <2>1. history[i] \in HistoryRow
      BY <1>1
    <2> QED
      BY <2>1 DEF HistoryRow, Shows
  <1> HIDE DEF row
  <1>4. \A i \in 1..Len(history) : history'[i] \in HistoryRow
    BY <1>1, <1>2, <1>3
  <1>5. history' \in Seq(HistoryRow)
    BY <1>1, <1>2, <1>4, IsASeq
  <1>6. Len(history') = Len(history)
    BY <1>1, <1>2, <1>5
  <1> QED
    BY <1>1, <1>2, <1>3, <1>5, <1>6 DEF Shows

\* Where a row of the history was before the k-th was withdrawn.
WasAt(k, i) == IF i < k THEN i ELSE i + 1

\* Rolling back takes a row out and keeps the order of the others.
LEMMA WithdrawnRows ==
    ASSUME TypeInv, NEW c \in Calls, Withdrawn(c)
    PROVE  /\ history' \in Seq(HistoryRow)
           /\ \/ history' = history /\ \A i \in 1..Len(history) : history[i].by # c
              \/ \E k \in 1..Len(history) :
                    /\ history[k].by = c /\ Len(history') = Len(history) - 1
                    /\ \A i \in 1..Len(history) - 1 : history'[i] = history[WasAt(k, i)]
  <1>1. history \in Seq(HistoryRow) /\ DOMAIN history = 1..Len(history) /\ Len(history) \in Nat
    BY DEF TypeInv, TypeOK
  <1>2. CASE (\A i \in DOMAIN history : history[i].by # c) /\ UNCHANGED history
    <2>1. \A i \in 1..Len(history) : history[i].by # c
      BY <1>1, <1>2
    <2>2. history' = history /\ history' \in Seq(HistoryRow)
      BY <1>1, <1>2
    <2> QED
      BY <2>1, <2>2, Zenon
  <1>3. ASSUME NEW k \in 1..Len(history), history[k].by = c, history' = RemoveAt(history, k)
        PROVE  /\ history' \in Seq(HistoryRow) /\ Len(history') = Len(history) - 1
               /\ \A i \in 1..Len(history) - 1 : history'[i] = history[WasAt(k, i)]
    <2> DEFINE a == SubSeq(history, 1, k - 1)
               b == SubSeq(history, k + 1, Len(history))
    <2>1. history' = a \o b
      BY <1>3 DEF RemoveAt
    <2>2. /\ a \in Seq(HistoryRow) /\ Len(a) = k - 1
          /\ \A i \in 1..k - 1 : a[i] = history[i]
      BY <1>1
    <2>3. /\ b \in Seq(HistoryRow) /\ Len(b) = Len(history) - k
          /\ \A i \in 1..Len(history) - k : b[i] = history[k + i]
      <3> DEFINE n == Len(history)
      <3>1. k + 1 \in Int /\ n \in Int /\ \A i \in k + 1..n : history[i] \in HistoryRow
        BY <1>1
      <3>2. /\ SubSeq(history, k + 1, n) \in Seq(HistoryRow)
            /\ Len(SubSeq(history, k + 1, n)) = IF k + 1 <= n THEN n - (k + 1) + 1 ELSE 0
            /\ \A i \in 1..n - (k + 1) + 1 : SubSeq(history, k + 1, n)[i] = history[k + 1 + i - 1]
        BY <3>1, SubSeqProperties
      <3> HIDE DEF b
      <3>3. /\ b \in Seq(HistoryRow)
            /\ Len(b) = IF k + 1 <= n THEN n - (k + 1) + 1 ELSE 0
            /\ \A i \in 1..n - (k + 1) + 1 : b[i] = history[k + 1 + i - 1]
        BY <3>2 DEF b
      <3>4. ASSUME NEW i \in 1..n - k
            PROVE  b[i] = history[k + i]
        <4>1. i \in 1..n - (k + 1) + 1 /\ k + 1 + i - 1 = k + i
          BY <1>1
        <4> QED
          BY <3>3, <4>1
      <3>5. n \in Nat /\ k \in 1..n
        BY <1>1
      <3> HIDE DEF n
      <3>6. (IF k + 1 <= n THEN n - (k + 1) + 1 ELSE 0) = n - k
        BY <3>5
      <3>7. Len(b) = n - k
        BY <3>3, <3>5, <3>6
      <3> QED
        BY <3>3, <3>4, <3>7 DEF n
    <2> HIDE DEF a, b
    <2>4. /\ a \o b \in Seq(HistoryRow) /\ Len(a \o b) = Len(history) - 1
          /\ \A i \in 1..Len(history) - 1 :
                (a \o b)[i] = IF i <= k - 1 THEN a[i] ELSE b[i - (k - 1)]
      <3>1. Len(a) + Len(b) = Len(history) - 1
        BY <1>1, <2>2, <2>3
      <3>2. /\ a \o b \in Seq(HistoryRow)
            /\ Len(a \o b) = Len(a) + Len(b)
            /\ \A i \in 1..Len(a) + Len(b) :
                  (a \o b)[i] = IF i <= Len(a) THEN a[i] ELSE b[i - Len(a)]
        BY <2>2, <2>3, ConcatProperties
      <3> QED
        BY <2>2, <3>1, <3>2
    <2>5. ASSUME NEW i \in 1..Len(history) - 1
          PROVE  history'[i] = history[WasAt(k, i)]
      <3>1. CASE i < k
        BY <1>1, <2>1, <2>2, <2>4, <3>1 DEF WasAt
      <3>2. CASE ~(i < k)
        <4>1. i - (k - 1) \in 1..Len(history) - k
          BY <1>1, <3>2
        <4>2. history'[i] = b[i - (k - 1)]
          BY <1>1, <2>1, <2>4, <3>2
        <4> QED
          BY <1>1, <2>3, <3>2, <4>1, <4>2 DEF WasAt
      <3> QED
        BY <3>1, <3>2
    <2> QED
      BY <2>1, <2>4, <2>5
  <1> QED
    <2>1. CASE \E k \in DOMAIN history : history[k].by = c /\ history' = RemoveAt(history, k)
      <3>1. PICK k \in 1..Len(history) : history[k].by = c /\ history' = RemoveAt(history, k)
        BY <1>1, <2>1
      <3> QED
        BY <1>3, <3>1, Zenon
    <2> QED
      BY <1>2, <2>1, Zenon DEF Withdrawn

\* The types of a step that moves one call.
LEMMA MoveTyped ==
    ASSUME TypeInv, NEW c \in Calls, NEW q \in Call, MovesTo(c, q), Stage(q),
           employee' \in [People -> Employee], counter' \in Nat \ {0},
           checklist' \in [People -> Checklist],
           \A e \in People : /\ checklist'[e].done \subseteq checklist'[e].tasks
                             /\ checklist[e].tasks \subseteq checklist'[e].tasks,
           q.pc = "toggle" => q.to \in checklist'[q.subject].tasks,
           history' \in Seq(HistoryRow), unit' \in [Units -> Unit],
           dayEnd' \in [passed: BOOLEAN, status: [People -> Statuses], straddled: SUBSET People]
    PROVE  TypeInv'
  <1>1. call' \in [Calls -> Call] /\ call'[c] = q
    BY DEF MovesTo
  <1>2. TypeOK'
    BY <1>1 DEF TypeOK
  <1>3. ASSUME NEW d \in Calls
        PROVE  /\ Stage(call'[d])
               /\ call'[d].pc = "toggle" => call'[d].to \in checklist'[call'[d].subject].tasks
    <2>1. CASE d = c
      BY <1>1, <2>1
    <2>2. CASE d # c
      <3>1. Same(call[d], call'[d])
        BY <2>2 DEF MovesTo
      <3>2. /\ Stage(call[d])
            /\ call[d].pc = "toggle" => call[d].to \in checklist[call[d].subject].tasks
        BY DEF TypeInv, Stages
      <3>3. Stage(call'[d])
        BY <3>1, <3>2 DEF Same, Stage
      <3>4. ASSUME call'[d].pc = "toggle"
            PROVE  call'[d].to \in checklist'[call'[d].subject].tasks
        <4>1. call[d].subject \in People
          BY <3>1, <3>2, <3>4 DEF Same, Stage
        <4> QED
          BY <3>1, <3>2, <3>4, <4>1 DEF Same
      <3> QED
        BY <3>3, <3>4
    <2> QED
      BY <2>1, <2>2
  <1>4. Stages'
    BY <1>3 DEF Stages
  <1> QED
    BY <1>2, <1>4 DEF TypeInv

\* A step that neither begins nor ends a transaction that writes the history, and
\* leaves statuses and numbers alone; a status change that is ready to begin has
\* just read the status.
Quietly(c, q) ==
    /\ MovesTo(c, q)
    /\ history' = history /\ dayEnd' = dayEnd /\ counter' = counter
    /\ \A e \in People : /\ employee'[e].present = employee[e].present
                         /\ employee'[e].number = employee[e].number
                         /\ employee'[e].status = employee[e].status
    /\ call[c].pc \notin {"commit", "insert"} /\ q.pc \notin {"commit", "insert"}
    /\ q.pc = "begin" /\ q.op = "STATUS" => q.seen = employee[q.subject].status

Quiet(c) == \E q \in Call : Quietly(c, q)

\* Most steps write nothing but where their own call is.
LEMMA GoesOn ==
    ASSUME TypeInv, NEW c \in Calls, NEW q \in Call, Stage(q), Become(c, q),
           UNCHANGED <<employee, counter, checklist, history, unit, dayEnd, agenda>>,
           call[c].pc \notin {"commit", "insert"}, q.pc \notin {"commit", "insert"},
           q.pc = "toggle" => q.to \in checklist[q.subject].tasks,
           q.pc = "begin" /\ q.op = "STATUS" => q.seen = employee[q.subject].status
    PROVE  TypeInv' /\ Quiet(c)
  <1>1. MovesTo(c, q)
    BY Moved
  <1>2. Quietly(c, q)
    BY <1>1 DEF Quietly
  <1>3. TypeInv'
    <2>1. TypeOK
      BY DEF TypeInv
    <2> QED
      BY <1>1, <2>1, MoveTyped DEF TypeOK
  <1> QED
    BY <1>2, <1>3 DEF Quiet

\* A call that is over, or is refused.
LEMMA FinishesQuietly ==
    ASSUME TypeInv, NEW c \in Calls, Finish(c), call[c].pc \notin {"commit", "insert"},
           UNCHANGED <<employee, counter, checklist, history, unit, dayEnd, agenda>>
    PROVE  TypeInv' /\ Quiet(c)
  <1>1. Over \in Call /\ Stage(Over) /\ Over.pc = "over"
    BY FreshTyped
  <1>2. Become(c, Over)
    BY DEF Finish
  <1> QED
    BY <1>1, <1>2, GoesOn

\* A call that only goes on to its next statement.
LEMMA GoesTo ==
    ASSUME TypeInv, NEW c \in Calls, NEW pc \in Pcs, Goto(c, pc),
           UNCHANGED <<employee, counter, checklist, history, unit, dayEnd, agenda>>,
           call[c].pc \notin {"commit", "insert"}, pc \notin {"commit", "insert"},
           Stage([call[c] EXCEPT !.pc = pc]),
           pc = "toggle" => call[c].to \in checklist[call[c].subject].tasks,
           pc = "begin" => call[c].op # "STATUS"
    PROVE  TypeInv' /\ Quiet(c)
  <1> DEFINE q == [call[c] EXCEPT !.pc = pc]
  <1>1. call[c] \in Call
    BY DEF TypeInv, TypeOK
  <1>2. /\ q \in Call /\ q.pc = pc /\ q.op = call[c].op /\ q.to = call[c].to
        /\ q.subject = call[c].subject
    BY <1>1 DEF Call
  <1>3. Become(c, q) /\ Stage(q)
    BY DEF Goto
  <1> HIDE DEF q
  <1> QED
    BY <1>2, <1>3, GoesOn

-----------------------------------------------------------------------------
(* Requests                                                                *)

\* A request arrives.
LEMMA Arrived ==
    ASSUME TypeInv, NEW c \in Calls, NEW q \in Call, Arrive(c, q), Stage(q),
           q.pc \in {"read", "issue", "manager", "walk", "write", "occupied"}
    PROVE  TypeInv' /\ Quiet(c)
  <1>1. /\ call[c].pc = "new" /\ Become(c, q)
        /\ UNCHANGED <<employee, counter, checklist, history, unit, dayEnd, agenda>>
    BY DEF Arrive
  <1> QED
    BY <1>1, GoesOn

LEMMA UpdateArrives ==
    ASSUME TypeInv, NEW c \in Calls, NEW e \in People \cup Units, NEW lead \in Leads \cup {None},
           NEW op \in {"ASSIGN", "PLACE"}, NEW to \in Present \cup Units \cup {None},
           ArriveUpdate(c, e, lead, op, to)
    PROVE  TypeInv' /\ Quiet(c)
  <1> DEFINE q == [Fresh EXCEPT !.pc = "read", !.op = op, !.subject = e, !.lead = lead, !.to = to]
  <1>1. /\ e \in People /\ to \in (IF op = "ASSIGN" THEN People ELSE Units) \cup {None}
        /\ Arrive(c, q)
    BY DEF ArriveUpdate, Present
  <1>2. Fresh \in Call /\ "read" \in Pcs /\ op \in AllOps
    BY FreshTyped DEF Pcs, AllOps
  <1>3. q \in Call
    BY <1>1, <1>2 DEF Call
  <1>4. q.pc = "read" /\ q.op = op /\ q.subject = e /\ q.to = to
    BY DEF Fresh
  <1> HIDE DEF q
  <1>5. Stage(q)
    BY <1>1, <1>4 DEF Stage
  <1> QED
    BY <1>1, <1>3, <1>4, <1>5, Arrived

LEMMA StatusArrives ==
    ASSUME TypeInv, NEW c \in Calls, NEW e, NEW s \in Statuses, ArriveStatus(c, e, s)
    PROVE  TypeInv' /\ Quiet(c)
  <1> DEFINE q == [Fresh EXCEPT !.pc = "read", !.op = "STATUS", !.subject = e, !.to = s]
  <1>1. e \in People /\ Arrive(c, q)
    BY DEF ArriveStatus, Present
  <1>2. Fresh \in Call /\ "read" \in Pcs /\ "STATUS" \in AllOps
    BY FreshTyped DEF Pcs, AllOps
  <1>3. q \in Call
    BY <1>1, <1>2 DEF Call
  <1>4. q.pc = "read" /\ q.op = "STATUS" /\ q.subject = e /\ q.to = s
    BY DEF Fresh
  <1> HIDE DEF q
  <1>5. Stage(q)
    BY <1>1, <1>4 DEF Stage
  <1> QED
    BY <1>1, <1>3, <1>4, <1>5, Arrived

\* An archival, or a request to begin with onboarding.
LEMMA PlainArrives ==
    ASSUME TypeInv, NEW c \in Calls, NEW e, ArriveArchive(c, e) \/ ArriveStart(c, e)
    PROVE  TypeInv' /\ Quiet(c)
  <1>1. ASSUME NEW op \in {"ARCHIVE", "START"}, e \in Present,
               Arrive(c, [Fresh EXCEPT !.pc = "read", !.op = op, !.subject = e])
        PROVE  TypeInv' /\ Quiet(c)
    <2> DEFINE q == [Fresh EXCEPT !.pc = "read", !.op = op, !.subject = e]
    <2>1. e \in People /\ Arrive(c, q)
      BY <1>1 DEF Present
    <2>2. Fresh \in Call /\ "read" \in Pcs /\ op \in AllOps
      BY FreshTyped DEF Pcs, AllOps
    <2>3. q \in Call
      BY <2>1, <2>2 DEF Call
    <2>4. q.pc = "read" /\ q.op = op /\ q.subject = e
      BY DEF Fresh
    <2> HIDE DEF q
    <2>5. Stage(q)
      BY <2>1, <2>4 DEF Stage
    <2> QED
      BY <2>1, <2>3, <2>4, <2>5, Arrived
  <1> QED
    BY <1>1 DEF ArriveArchive, ArriveStart

LEMMA TaskArrives ==
    ASSUME TypeInv, NEW c \in Calls, NEW e, NEW t \in Tasks, NEW done \in BOOLEAN,
           ArriveTask(c, e, t, done)
    PROVE  TypeInv' /\ Quiet(c)
  <1> DEFINE q == [Fresh EXCEPT !.pc = "read", !.op = "TASK", !.subject = e, !.to = t, !.flag = done]
  <1>1. e \in People /\ Arrive(c, q)
    BY DEF ArriveTask, Present
  <1>2. Fresh \in Call /\ "read" \in Pcs /\ "TASK" \in AllOps
    BY FreshTyped DEF Pcs, AllOps
  <1>3. q \in Call
    BY <1>1, <1>2 DEF Call
  <1>4. q.pc = "read" /\ q.op = "TASK" /\ q.subject = e /\ q.to = t
    BY DEF Fresh
  <1> HIDE DEF q
  <1>5. Stage(q)
    BY <1>1, <1>4 DEF Stage
  <1> QED
    BY <1>1, <1>3, <1>4, <1>5, Arrived

LEMMA CreateArrives ==
    ASSUME TypeInv, NEW c \in Calls, NEW n \in People, NEW m \in Present \cup {None},
           ArriveCreate(c, n, m)
    PROVE  TypeInv' /\ Quiet(c)
  <1> DEFINE pc == IF m = None THEN "issue" ELSE "manager"
             q == [Fresh EXCEPT !.pc = pc, !.op = "CREATE", !.subject = n, !.to = m]
  <1>1. m \in People \cup {None} /\ Arrive(c, q)
    BY DEF ArriveCreate, Present
  <1>2. Fresh \in Call /\ "CREATE" \in AllOps
    BY FreshTyped DEF AllOps
  <1>3. pc \in {"issue", "manager"} /\ (pc = "manager" => m # None) /\ pc \in Pcs
    BY DEF Pcs
  <1> HIDE DEF pc
  <1>4. q \in Call
    BY <1>1, <1>2, <1>3 DEF Call
  <1>5. q.pc = pc /\ q.op = "CREATE" /\ q.subject = n /\ q.to = m
    BY DEF Fresh
  <1> HIDE DEF q
  <1>6. Stage(q)
    BY <1>1, <1>3, <1>5 DEF Stage
  <1> QED
    BY <1>1, <1>3, <1>4, <1>5, <1>6, Arrived

LEMMA MoveArrives ==
    ASSUME TypeInv, NEW c \in Calls, NEW d \in People \cup Units, NEW p \in Departments \cup {None},
           ArriveMove(c, d, p)
    PROVE  TypeInv' /\ Quiet(c)
  <1> DEFINE pc == IF p = None THEN "write" ELSE "walk"
             q == [Fresh EXCEPT !.pc = pc, !.op = "MOVE", !.subject = d, !.to = p, !.at = p]
  <1>1. d \in Units /\ p \in Units \cup {None} /\ Arrive(c, q)
    BY PeopleAssumption DEF ArriveMove, Departments
  <1>2. Fresh \in Call /\ "MOVE" \in AllOps
    BY FreshTyped DEF AllOps
  <1>3. pc \in {"write", "walk"} /\ (pc = "walk" => p # None) /\ pc \in Pcs
    BY DEF Pcs
  <1> HIDE DEF pc
  <1>4. q \in Call
    BY <1>1, <1>2, <1>3 DEF Call
  <1>5. q.pc = pc /\ q.op = "MOVE" /\ q.subject = d /\ q.to = p /\ q.at = p
    BY DEF Fresh
  <1> HIDE DEF q
  <1>6. Stage(q)
    BY <1>1, <1>3, <1>5 DEF Stage
  <1> QED
    BY <1>1, <1>3, <1>4, <1>5, <1>6, Arrived

LEMMA SwitchArrives ==
    ASSUME TypeInv, NEW c \in Calls, NEW u, NEW kind, NEW active \in BOOLEAN,
           ArriveSwitch(c, u, kind, active)
    PROVE  TypeInv' /\ Quiet(c)
  <1> DEFINE pc == IF active THEN "write" ELSE "occupied"
             q == [Fresh EXCEPT !.pc = pc, !.op = "SWITCH", !.subject = u, !.flag = active]
  <1>1. u \in Units /\ Arrive(c, q)
    BY DEF ArriveSwitch
  <1>2. Fresh \in Call /\ "SWITCH" \in AllOps
    BY FreshTyped DEF AllOps
  <1>3. pc \in {"write", "occupied"} /\ pc \in Pcs
    BY DEF Pcs
  <1> HIDE DEF pc
  <1>4. q \in Call
    BY <1>1, <1>2, <1>3 DEF Call
  <1>5. q.pc = pc /\ q.op = "SWITCH" /\ q.subject = u
    BY DEF Fresh
  <1> HIDE DEF q
  <1>6. Stage(q)
    BY <1>1, <1>3, <1>5 DEF Stage
  <1> QED
    BY <1>1, <1>3, <1>4, <1>5, <1>6, Arrived

\* Every request arrives well formed.
LEMMA RequestMoves ==
    ASSUME TypeInv, NEW c \in Calls, Request(c)
    PROVE  TypeInv' /\ Quiet(c)
  <1>1. \A op \in AllOps : Subjects[op] \subseteq People \cup Units
    BY PeopleAssumption
  <1>2. CASE \E e \in Subjects["ASSIGN"] \cup Subjects["PLACE"], lead \in Leads \cup {None},
               op \in {"ASSIGN", "PLACE"}, to \in Present \cup Units \cup {None} :
               ArriveUpdate(c, e, lead, op, to)
    BY <1>1, <1>2, UpdateArrives DEF AllOps
  <1>3. CASE \E e \in Subjects["STATUS"], s \in Statuses : ArriveStatus(c, e, s)
    BY <1>3, StatusArrives
  <1>4. CASE \/ \E e \in Subjects["ARCHIVE"] : ArriveArchive(c, e)
             \/ \E e \in Subjects["START"] : ArriveStart(c, e)
    BY <1>4, PlainArrives
  <1>5. CASE \E e \in Subjects["TASK"], t \in Tasks, done \in BOOLEAN : ArriveTask(c, e, t, done)
    BY <1>5, TaskArrives
  <1>6. CASE \E n \in Subjects["CREATE"], m \in Present \cup {None} : ArriveCreate(c, n, m)
    BY <1>6, CreateArrives, PeopleAssumption
  <1>7. CASE \E d \in Subjects["MOVE"], p \in Departments \cup {None} : ArriveMove(c, d, p)
    BY <1>1, <1>7, MoveArrives DEF AllOps
  <1>8. CASE \E u \in Subjects["SWITCH"], active \in BOOLEAN :
                \/ SetDepartmentActive(c, u, active)
                \/ SetDesignationActive(c, u, active)
                \/ SetBranchActive(c, u, active)
    BY <1>8, SwitchArrives DEF SetDepartmentActive, SetDesignationActive, SetBranchActive
  <1> QED
    BY <1>2, <1>3, <1>4, <1>5, <1>6, <1>7, <1>8, Zenon DEF Request

-----------------------------------------------------------------------------
(* Steps that write neither history, statuses nor numbers                  *)

LEMMA ReadMoves ==
    ASSUME TypeInv, NEW c \in Calls, ReadEmployee(c)
    PROVE  TypeInv' /\ Quiet(c)
  <1> DEFINE p == call[c]
             e == employee[p.subject]
             seen == CASE p.op = "ASSIGN" -> e.manager
                       [] p.op = "PLACE" -> e.unit[FieldOf(p.to)]
                       [] p.op = "STATUS" -> e.status
                       [] p.op = "TASK" -> e.onboarding
                       [] OTHER -> None
             pc == CASE p.op \in {"ASSIGN", "PLACE"} /\ p.lead # None -> "scope"
                     [] p.op = "ASSIGN" /\ p.to # None -> "manager"
                     [] p.op = "ARCHIVE" -> "count"
                     [] p.op \in {"START", "TASK"} -> "find"
                     [] OTHER -> "begin"
             q == [p EXCEPT !.seen = seen, !.pc = pc]
  <1>1. /\ p.pc = "read" /\ Become(c, q)
        /\ UNCHANGED <<employee, counter, checklist, history, unit, dayEnd, agenda>>
    BY DEF ReadEmployee
  <1>2. p \in Call /\ Stage(p)
    BY DEF TypeInv, TypeOK, Stages
  <1>3. p.op \in {"ASSIGN", "PLACE", "STATUS", "ARCHIVE", "START", "TASK"} /\ p.subject \in People
    BY <1>1, <1>2 DEF Stage
  <1>4. /\ e.manager \in People \cup {None} /\ e.unit \in [Kinds -> Units \cup {None}]
        /\ e.status \in Statuses /\ e.onboarding \in OnboardingStatuses
    BY <1>3 DEF TypeInv, TypeOK, Employee
  <1>5. p.op = "PLACE" => e.unit[FieldOf(p.to)] \in Units \cup {None}
    <2>1. p.op = "PLACE" => p.to \in Units \cup {None}
      BY <1>2 DEF Stage
    <2>2. p.op = "PLACE" => FieldOf(p.to) \in Kinds
      BY <2>1, PeopleAssumption DEF FieldOf, Kinds
    <2> QED
      BY <1>4, <2>2
  <1>6. seen \in Statuses \cup OnboardingStatuses \cup People \cup Units \cup {None}
    <2> HIDE DEF e, p
    <2> QED
      BY <1>4, <1>5
  <1>7. p.op = "STATUS" => seen = employee[p.subject].status
    OBVIOUS
  <1>8. /\ pc \in Pcs \ {"commit", "insert", "toggle"}
        /\ pc \in {"scope", "manager", "count", "find", "begin"}
        /\ pc = "scope" => p.op \in {"ASSIGN", "PLACE"}
        /\ pc = "manager" => p.op = "ASSIGN" /\ p.to # None
        /\ pc = "count" => p.op = "ARCHIVE"
        /\ pc = "find" => p.op \in {"START", "TASK"}
        /\ pc = "begin" => p.op \in {"ASSIGN", "PLACE", "STATUS"}
    <2> HIDE DEF p
    <2> QED
      BY <1>3 DEF Pcs
  <1> HIDE DEF seen, pc
  <1>9. /\ q \in Call /\ q.pc = pc /\ q.op = p.op /\ q.to = p.to
        /\ q.subject = p.subject /\ q.seen = seen
    <2> DEFINE r == [p EXCEPT !.seen = seen]
    <2>1. p \in Call /\ pc \in Pcs /\ q = [r EXCEPT !.pc = pc]
      BY <1>2, <1>8
    <2> HIDE DEF p, q
    <2>2. r \in Call /\ r.op = p.op /\ r.to = p.to /\ r.subject = p.subject /\ r.seen = seen
      BY <1>6, <2>1 DEF Call
    <2> HIDE DEF r
    <2> QED
      BY <2>1, <2>2 DEF Call
  <1> HIDE DEF q, p, e
  <1>10. Stage(q)
    BY <1>1, <1>2, <1>3, <1>8, <1>9 DEF Stage
  <1>11. q.pc \notin {"commit", "insert", "toggle"} /\ p.pc \notin {"commit", "insert"}
    BY <1>1, <1>8, <1>9
  <1>12. q.pc = "begin" /\ q.op = "STATUS" => q.seen = employee[q.subject].status
    BY <1>7, <1>9
  <1> QED
    BY <1>1, <1>9, <1>10, <1>11, <1>12, GoesOn DEF p

LEMMA ScopeMoves ==
    ASSUME TypeInv, NEW c \in Calls, AssertManagerMayChange(c)
    PROVE  TypeInv' /\ Quiet(c)
  <1> DEFINE pc == IF call[c].op = "ASSIGN" /\ call[c].to # None THEN "manager" ELSE "begin"
  <1>1. /\ call[c].pc = "scope" /\ (Goto(c, pc) \/ Finish(c))
        /\ UNCHANGED <<employee, counter, checklist, history, unit, dayEnd, agenda>>
    BY DEF AssertManagerMayChange
  <1>2. call[c] \in Call /\ Stage(call[c])
    BY DEF TypeInv, TypeOK, Stages
  <1>3. call[c].op \in {"ASSIGN", "PLACE"}
    BY <1>1, <1>2 DEF Stage
  <1>4. /\ pc \in Pcs /\ pc \in {"manager", "begin"}
        /\ pc = "manager" => call[c].op = "ASSIGN" /\ call[c].to # None
    BY DEF Pcs
  <1> HIDE DEF pc
  <1>5. Stage([call[c] EXCEPT !.pc = pc])
    <2> DEFINE q == [call[c] EXCEPT !.pc = pc]
    <2>1. q.pc = pc /\ q.op = call[c].op /\ q.to = call[c].to /\ q.subject = call[c].subject
      BY <1>2 DEF Call
    <2> HIDE DEF q
    <2>2. Stage(q)
      BY <1>1, <1>2, <1>3, <1>4, <2>1 DEF Stage
    <2> QED
      BY <2>2 DEF q
  <1>6. CASE Goto(c, pc)
    BY <1>1, <1>3, <1>4, <1>5, <1>6, GoesTo
  <1>7. CASE Finish(c)
    BY <1>1, <1>7, FinishesQuietly
  <1> QED
    BY <1>1, <1>6, <1>7

LEMMA ManagerMoves ==
    ASSUME TypeInv, NEW c \in Calls, AssertValidManager(c)
    PROVE  TypeInv' /\ Quiet(c)
  <1> DEFINE p == call[c]
             pc == IF p.op = "CREATE" THEN "issue" ELSE "walk"
             q == [p EXCEPT !.pc = pc, !.at = p.to]
  <1>1. /\ p.pc = "manager" /\ (Become(c, q) \/ Finish(c))
        /\ UNCHANGED <<employee, counter, checklist, history, unit, dayEnd, agenda>>
    BY DEF AssertValidManager
  <1>2. p \in Call /\ Stage(p)
    BY DEF TypeInv, TypeOK, Stages
  <1>3. p.op \in {"ASSIGN", "CREATE"} /\ p.to \in People
    BY <1>1, <1>2 DEF Stage
  <1>4. pc \in Pcs /\ pc \in {"issue", "walk"} /\ (pc = "issue" <=> p.op = "CREATE")
    BY DEF Pcs
  <1> HIDE DEF pc
  <1>5. q \in Call /\ q.pc = pc /\ q.op = p.op /\ q.to = p.to /\ q.subject = p.subject /\ q.at = p.to
    BY <1>2, <1>3, <1>4 DEF Call
  <1> HIDE DEF q
  <1>6. Stage(q)
    BY <1>1, <1>2, <1>3, <1>4, <1>5 DEF Stage
  <1>7. CASE Become(c, q)
    BY <1>1, <1>4, <1>5, <1>6, <1>7, GoesOn
  <1>8. CASE Finish(c)
    BY <1>1, <1>8, FinishesQuietly
  <1> QED
    BY <1>1, <1>7, <1>8

LEMMA WalkMoves ==
    ASSUME TypeInv, NEW c \in Calls, Walk(c)
    PROVE  TypeInv' /\ Quiet(c)
  <1> DEFINE p == call[c]
             pc == IF p.op = "MOVE" THEN "write" ELSE "begin"
             next == Up(p.at)
             q == [p EXCEPT !.visited = @ \cup {p.at}, !.at = next]
  <1>1. /\ p.pc = "walk" /\ (Finish(c) \/ Goto(c, pc) \/ (next # None /\ Become(c, q)))
        /\ UNCHANGED <<employee, counter, checklist, history, unit, dayEnd, agenda>>
    BY Zenon DEF Walk
  <1>2. p \in Call /\ Stage(p)
    BY DEF TypeInv, TypeOK, Stages
  <1>3. \/ p.op = "ASSIGN" /\ p.at \in People /\ next \in People \cup {None} /\ p.subject \in People
        \/ p.op = "MOVE" /\ p.at \in Units /\ next \in Units \cup {None} /\ p.subject \in Units
    <2>1. \/ p.op = "ASSIGN" /\ p.at \in People /\ p.subject \in People
          \/ p.op = "MOVE" /\ p.at \in Units /\ p.subject \in Units
      BY <1>1, <1>2 DEF Stage
    <2>2. \A e \in People : employee[e].manager \in People \cup {None}
      BY DEF TypeInv, TypeOK, Employee
    <2>3. \A u \in Units : unit[u].parent \in Units \cup {None}
      BY DEF TypeInv, TypeOK, Unit
    <2> QED
      BY <2>1, <2>2, <2>3, PeopleAssumption DEF Up
  <1>4. pc \in Pcs /\ pc \in {"write", "begin"} /\ (pc = "write" <=> p.op = "MOVE")
    BY DEF Pcs
  <1> HIDE DEF pc, next
  <1>5. Stage([p EXCEPT !.pc = pc])
    <2> DEFINE r == [p EXCEPT !.pc = pc]
    <2>1. r.pc = pc /\ r.op = p.op /\ r.to = p.to /\ r.subject = p.subject
      BY <1>2 DEF Call
    <2> HIDE DEF r
    <2>2. Stage(r)
      BY <1>1, <1>2, <1>3, <1>4, <2>1 DEF Stage
    <2> QED
      BY <2>2 DEF r
  <1>6. /\ q \in Call /\ q.pc = "walk" /\ q.op = p.op /\ q.to = p.to /\ q.subject = p.subject
        /\ q.at = next
    <2> DEFINE more == p.visited \cup {p.at}
               r == [p EXCEPT !.visited = more]
    <2>1. p \in Call /\ more \in SUBSET (People \cup Units) /\ next \in People \cup Units \cup {None}
      BY <1>2, <1>3 DEF Call
    <2>2. q = [r EXCEPT !.at = next] /\ p.pc = "walk"
      BY <1>1
    <2> HIDE DEF p, q, more
    <2>3. /\ r \in Call /\ r.op = p.op /\ r.to = p.to /\ r.subject = p.subject /\ r.pc = p.pc
      BY <2>1 DEF Call
    <2> HIDE DEF r
    <2> QED
      BY <2>1, <2>2, <2>3 DEF Call
  <1> HIDE DEF q
  <1>7. CASE Finish(c)
    BY <1>1, <1>7, FinishesQuietly
  <1>8. CASE Goto(c, pc)
    BY <1>1, <1>3, <1>4, <1>5, <1>8, GoesTo
  <1>9. CASE next # None /\ Become(c, q)
    <2>1. Stage(q)
      BY <1>1, <1>2, <1>3, <1>6, <1>9 DEF Stage
    <2> QED
      BY <1>1, <1>6, <1>9, <2>1, GoesOn
  <1> QED
    BY <1>1, <1>7, <1>8, <1>9

\* A step whose write is visible at once.
LEMMA WritesQuietly ==
    ASSUME TypeInv, NEW c \in Calls, NEW q \in Call, Stage(q), WriteAs(c, q),
           UNCHANGED <<counter, history, dayEnd, agenda>>,
           call[c].pc \notin {"commit", "insert"},
           q.pc \notin {"commit", "insert", "begin", "toggle"},
           employee' \in [People -> Employee],
           \A e \in People : /\ employee'[e].present = employee[e].present
                             /\ employee'[e].number = employee[e].number
                             /\ employee'[e].status = employee[e].status,
           checklist' \in [People -> Checklist],
           \A e \in People : /\ checklist'[e].done \subseteq checklist'[e].tasks
                             /\ checklist[e].tasks \subseteq checklist'[e].tasks,
           unit' \in [Units -> Unit]
    PROVE  TypeInv' /\ Quiet(c)
  <1>1. MovesTo(c, q)
    BY Moved
  <1>2. Quietly(c, q)
    BY <1>1 DEF Quietly
  <1>3. counter \in Nat \ {0} /\ history \in Seq(HistoryRow)
        /\ dayEnd \in [passed: BOOLEAN, status: [People -> Statuses], straddled: SUBSET People]
    BY DEF TypeInv, TypeOK
  <1>4. TypeInv'
    BY <1>1, <1>3, MoveTyped
  <1> QED
    BY <1>2, <1>4 DEF Quiet

\* What a write of one of the tables leaves typed.
LEMMA Tables ==
    ASSUME TypeInv
    PROVE  /\ employee \in [People -> Employee] /\ checklist \in [People -> Checklist]
           /\ unit \in [Units -> Unit]
           /\ \A e \in People : checklist[e].done \subseteq checklist[e].tasks
  BY DEF TypeInv, TypeOK

LEMMA FindMoves ==
    ASSUME TypeInv, NEW c \in Calls, FindOnboarding(c)
    PROVE  TypeInv' /\ Quiet(c)
  <1> DEFINE p == call[c]
             l == checklist[p.subject]
  <1>1. /\ p.pc = "find"
        /\ UNCHANGED <<employee, counter, checklist, history, unit, dayEnd, agenda>>
        /\ \/ Finish(c)
           \/ p.op = "START" /\ Goto(c, "checklist")
           \/ p.op # "START" /\ p.to \in l.tasks /\ Goto(c, "toggle")
    BY Zenon DEF FindOnboarding
  <1>2. p \in Call /\ Stage(p)
    BY DEF TypeInv, TypeOK, Stages
  <1>3. p.op \in {"START", "TASK"}
    BY <1>1, <1>2 DEF Stage
  <1>4. CASE Finish(c)
    BY <1>1, <1>4, FinishesQuietly
  <1>5. ASSUME NEW pc \in {"checklist", "toggle"}, p.op = "START" <=> pc = "checklist",
               Goto(c, pc), pc = "toggle" => p.to \in l.tasks
        PROVE  TypeInv' /\ Quiet(c)
    <2> DEFINE r == [p EXCEPT !.pc = pc]
    <2>1. r.pc = pc /\ r.op = p.op /\ r.to = p.to /\ r.subject = p.subject
      BY <1>2 DEF Call
    <2> HIDE DEF r
    <2>2. Stage(r)
      BY <1>1, <1>2, <1>3, <1>5, <2>1 DEF Stage
    <2>3. Stage([call[c] EXCEPT !.pc = pc])
      BY <2>2 DEF r
    <2>4. pc \in Pcs /\ pc \notin {"commit", "insert", "begin"}
      BY DEF Pcs
    <2> QED
      BY <1>1, <1>5, <2>3, <2>4, GoesTo
  <1> QED
    BY <1>1, <1>4, <1>5

LEMMA CountMoves ==
    ASSUME TypeInv, NEW c \in Calls, CountIncomplete(c) \/ ExistsActiveIn(c)
    PROVE  TypeInv' /\ Quiet(c)
  <1> DEFINE p == call[c]
  <1>1. /\ UNCHANGED <<employee, counter, checklist, history, unit, dayEnd, agenda>>
        /\ \/ p.pc \in {"remaining", "occupied"} /\ Finish(c)
           \/ p.pc = "remaining" /\ Goto(c, "stamp")
           \/ p.pc = "remaining" /\ Goto(c, "progress")
           \/ p.pc = "occupied" /\ Goto(c, "write")
    BY Zenon DEF CountIncomplete, ExistsActiveIn
  <1>2. p \in Call /\ Stage(p)
    BY DEF TypeInv, TypeOK, Stages
  <1>3. CASE p.pc \in {"remaining", "occupied"} /\ Finish(c)
    BY <1>1, <1>3, FinishesQuietly
  <1>4. ASSUME NEW pc \in {"stamp", "progress", "write"}, Goto(c, pc),
               p.pc = (IF pc = "write" THEN "occupied" ELSE "remaining")
        PROVE  TypeInv' /\ Quiet(c)
    <2> DEFINE r == [p EXCEPT !.pc = pc]
    <2>1. r.pc = pc /\ r.op = p.op /\ r.to = p.to /\ r.subject = p.subject
      BY <1>2 DEF Call
    <2> HIDE DEF r
    <2>2. Stage(r)
      BY <1>2, <1>4, <2>1 DEF Stage
    <2>3. Stage([call[c] EXCEPT !.pc = pc])
      BY <2>2 DEF r
    <2>4. pc \in Pcs /\ pc \notin {"commit", "insert", "begin", "toggle"}
      BY DEF Pcs
    <2> QED
      BY <1>1, <1>4, <2>3, <2>4, GoesTo
  <1> QED
    BY <1>1, <1>3, <1>4

\* A call that writes a checklist goes on to the next statement.
LEMMA ChecklistMoves ==
    ASSUME TypeInv, NEW c \in Calls,
           \/ CreateChecklist(c) \/ CreateTasks(c) \/ SetCompleted(c) \/ MarkCompleted(c)
    PROVE  TypeInv' /\ Quiet(c)
  <1> DEFINE p == call[c]
             l == checklist[p.subject]
  <1>1. p \in Call /\ Stage(p) /\ (p.pc = "toggle" => p.to \in l.tasks)
    BY DEF TypeInv, TypeOK, Stages
  <1>2. p.pc \in {"checklist", "tasks", "toggle", "stamp"}
    BY DEF CreateChecklist, CreateTasks, SetCompleted, MarkCompleted
  <1>3. p.op \in {"START", "TASK"} /\ p.subject \in People
    BY <1>1, <1>2 DEF Stage
  <1>4. /\ l \in Checklist /\ l.done \subseteq l.tasks /\ checklist \in [People -> Checklist]
        /\ \A e \in People : checklist[e].done \subseteq checklist[e].tasks
    BY <1>3, Tables
  <1>5. ASSUME NEW k \in Checklist, k.done \subseteq k.tasks, l.tasks \subseteq k.tasks,
               NEW pc \in {"tasks", "progress", "remaining", "settle"},
               checklist' = [checklist EXCEPT ![p.subject] = k],
               p.pc = (CASE pc = "tasks" -> "checklist" [] pc = "progress" -> "tasks"
                         [] pc = "remaining" -> "toggle" [] OTHER -> "stamp"),
               WriteAs(c, [p EXCEPT !.pc = pc]),
               UNCHANGED <<employee, counter, history, unit, dayEnd, agenda>>
        PROVE  TypeInv' /\ Quiet(c)
    <2> DEFINE r == [p EXCEPT !.pc = pc]
    <2>1. pc \in Pcs /\ pc \notin {"commit", "insert", "begin", "toggle"}
      BY DEF Pcs
    <2>2. r \in Call /\ r.pc = pc /\ r.op = p.op /\ r.to = p.to /\ r.subject = p.subject
      BY <1>1, <2>1 DEF Call
    <2> HIDE DEF r
    <2>3. Stage(r)
      BY <1>1, <1>3, <1>5, <2>2 DEF Stage
    <2>4. /\ checklist' \in [People -> Checklist]
          /\ \A e \in People : /\ checklist'[e].done \subseteq checklist'[e].tasks
                               /\ checklist[e].tasks \subseteq checklist'[e].tasks
      BY <1>3, <1>4, <1>5
    <2>5. WriteAs(c, r)
      BY <1>5 DEF r
    <2>6. employee' \in [People -> Employee] /\ unit' \in [Units -> Unit]
      BY <1>5, Tables
    <2> QED
      BY <1>2, <1>5, <2>1, <2>2, <2>3, <2>4, <2>5, <2>6, WritesQuietly
  <1>6. CASE CreateChecklist(c)
    <2>1. CASE Finish(c) /\ UNCHANGED checklist
      BY <1>2, <1>6, <2>1, FinishesQuietly DEF CreateChecklist
    <2>2. CASE ~(Finish(c) /\ UNCHANGED checklist)
      <3> DEFINE k == [l EXCEPT !.created = TRUE]
      <3>1. k \in Checklist /\ k.done = l.done /\ k.tasks = l.tasks
        BY <1>4 DEF Checklist
      <3>2. /\ checklist' = [checklist EXCEPT ![p.subject] = k]
            /\ p.pc = "checklist" /\ WriteAs(c, [p EXCEPT !.pc = "tasks"])
            /\ UNCHANGED <<employee, counter, history, unit, dayEnd, agenda>>
        BY <1>6, <2>2 DEF CreateChecklist
      <3> HIDE DEF k
      <3> QED
        BY <1>4, <1>5, <3>1, <3>2
    <2> QED
      BY <2>1, <2>2
  <1>7. CASE CreateTasks(c)
    <2> DEFINE k == [l EXCEPT !.tasks = Tasks]
    <2>1. k \in Checklist /\ k.done = l.done /\ k.tasks = Tasks /\ l.tasks \subseteq Tasks
      BY <1>4 DEF Checklist
    <2>2. /\ checklist' = [checklist EXCEPT ![p.subject] = k]
          /\ p.pc = "tasks" /\ WriteAs(c, [p EXCEPT !.pc = "progress"])
          /\ UNCHANGED <<employee, counter, history, unit, dayEnd, agenda>>
      BY <1>7 DEF CreateTasks
    <2> HIDE DEF k
    <2> QED
      BY <1>4, <1>5, <2>1, <2>2
  <1>8. CASE SetCompleted(c)
    <2> DEFINE done == IF p.flag THEN l.done \cup {p.to} ELSE l.done \ {p.to}
               k == [l EXCEPT !.done = done]
    <2>1. p.pc = "toggle" /\ p.to \in l.tasks
      BY <1>1, <1>8 DEF SetCompleted
    <2>2. done \subseteq l.tasks
      BY <1>4, <2>1
    <2> HIDE DEF done
    <2>3. k \in Checklist /\ k.done = done /\ k.tasks = l.tasks
      BY <1>4, <2>2 DEF Checklist
    <2>4. /\ checklist' = [checklist EXCEPT ![p.subject] = k]
          /\ WriteAs(c, [p EXCEPT !.pc = "remaining"])
          /\ UNCHANGED <<employee, counter, history, unit, dayEnd, agenda>>
      BY <1>8 DEF SetCompleted, done
    <2> HIDE DEF k
    <2> QED
      BY <1>5, <2>1, <2>2, <2>3, <2>4
  <1>9. CASE MarkCompleted(c)
    <2> DEFINE k == [l EXCEPT !.stamped = TRUE]
    <2>1. k \in Checklist /\ k.done = l.done /\ k.tasks = l.tasks
      BY <1>4 DEF Checklist
    <2>2. /\ checklist' = [checklist EXCEPT ![p.subject] = k]
          /\ p.pc = "stamp" /\ WriteAs(c, [p EXCEPT !.pc = "settle"])
          /\ UNCHANGED <<employee, counter, history, unit, dayEnd, agenda>>
      BY <1>9 DEF MarkCompleted
    <2> HIDE DEF k
    <2> QED
      BY <1>4, <1>5, <2>1, <2>2
  <1> QED
    BY <1>6, <1>7, <1>8, <1>9

\* A call whose last write settles the onboarding status.
LEMMA OnboardingMoves ==
    ASSUME TypeInv, NEW c \in Calls, SetInProgress(c) \/ SetOnboardingCompleted(c)
    PROVE  TypeInv' /\ Quiet(c)
  <1> DEFINE p == call[c]
             e == employee[p.subject]
  <1>1. PICK s \in {"IN_PROGRESS", "COMPLETED"} :
          employee' = [employee EXCEPT ![p.subject].onboarding = s]
    BY DEF SetInProgress, SetOnboardingCompleted
  <1>2. /\ p.pc \in {"progress", "settle"} /\ WriteAs(c, Over)
        /\ UNCHANGED <<counter, checklist, history, unit, dayEnd, agenda>>
    BY DEF SetInProgress, SetOnboardingCompleted
  <1>3. p \in Call /\ Stage(p)
    BY DEF TypeInv, TypeOK, Stages
  <1>4. p.subject \in People
    BY <1>2, <1>3 DEF Stage
  <1> DEFINE f == [e EXCEPT !.onboarding = s]
  <1>5. e \in Employee /\ employee \in [People -> Employee]
    BY <1>4, Tables
  <1>6. s \in OnboardingStatuses
    BY DEF OnboardingStatuses
  <1>7. f \in Employee /\ f.present = e.present /\ f.number = e.number /\ f.status = e.status
    BY <1>5, <1>6 DEF Employee
  <1>8. employee' = [employee EXCEPT ![p.subject] = f]
    BY <1>1
  <1> HIDE DEF f
  <1>9. /\ employee' \in [People -> Employee]
        /\ \A d \in People : /\ employee'[d].present = employee[d].present
                             /\ employee'[d].number = employee[d].number
                             /\ employee'[d].status = employee[d].status
    BY <1>4, <1>5, <1>7, <1>8
  <1>10. Over \in Call /\ Stage(Over) /\ Over.pc = "over"
    BY FreshTyped
  <1>11. /\ checklist' = checklist /\ unit' \in [Units -> Unit] /\ checklist' \in [People -> Checklist]
         /\ \A d \in People : checklist'[d].done \subseteq checklist'[d].tasks
    BY <1>2, Tables
  <1> HIDE DEF p, e
  <1> QED
    BY <1>2, <1>9, <1>10, <1>11, WritesQuietly DEF p

LEMMA UnitMoves ==
    ASSUME TypeInv, NEW c \in Calls, UpdateUnit(c)
    PROVE  TypeInv' /\ Quiet(c)
  <1> DEFINE p == call[c]
             w == unit[p.subject]
             f == IF p.op = "MOVE" THEN [w EXCEPT !.parent = p.to] ELSE [w EXCEPT !.active = p.flag]
  <1>1. /\ p.pc = "write" /\ WriteAs(c, Over)
        /\ UNCHANGED <<employee, counter, checklist, history, dayEnd, agenda>>
        /\ unit' = [unit EXCEPT ![p.subject] = f]
    BY DEF UpdateUnit
  <1>2. p \in Call /\ Stage(p)
    BY DEF TypeInv, TypeOK, Stages
  <1>3. p.subject \in Units /\ (p.op = "MOVE" => p.to \in Units \cup {None}) /\ p.flag \in BOOLEAN
    BY <1>1, <1>2 DEF Stage, Call
  <1>4. f \in Unit
    <2>1. w \in Unit
      BY <1>3, Tables
    <2>2. CASE p.op = "MOVE"
      BY <1>3, <2>1, <2>2 DEF Unit
    <2>3. CASE p.op # "MOVE"
      BY <1>3, <2>1, <2>3 DEF Unit
    <2> QED
      BY <2>2, <2>3
  <1> HIDE DEF f
  <1>5. unit' \in [Units -> Unit]
    BY <1>1, <1>3, <1>4, Tables
  <1>6. Over \in Call /\ Stage(Over) /\ Over.pc = "over"
    BY FreshTyped
  <1>7. /\ checklist' = checklist /\ checklist' \in [People -> Checklist]
        /\ employee' \in [People -> Employee] /\ employee' = employee
        /\ \A d \in People : checklist'[d].done \subseteq checklist'[d].tasks
    BY <1>1, Tables
  <1> QED
    BY <1>1, <1>5, <1>6, <1>7, WritesQuietly

-----------------------------------------------------------------------------
(* Steps that begin or end a transaction which writes the history          *)

NumbersKept ==
    /\ counter' = counter
    /\ \A e \in People : /\ employee'[e].present = employee[e].present
                         /\ employee'[e].number = employee[e].number

\* A transaction dates its row; one that creates an employee takes the next number,
\* which nobody else is holding.
Begins(c, q) ==
    /\ MovesTo(c, q) /\ NumbersKept /\ dayEnd' = dayEnd
    /\ \A e \in People : employee'[e].status = employee[e].status
    /\ call[c].pc \in {"begin", "count", "issue"} /\ q.pc \in {"commit", "insert"}
    /\ q.op = call[c].op /\ q.subject = call[c].subject /\ q.subject \in People
    /\ q.pc = "insert" => q.number = counter /\ \A d \in Calls : call[d].pc # "insert"
    /\ \E event \in {"CREATED", "MANAGER", "PLACEMENT", "STATUS", "ARCHIVED"} :
          Dated(c, event) /\ (event = "STATUS" <=> q.op = "STATUS")
    /\ q.op = "STATUS" => call[c].pc = "begin"

Begin(c) == \E q \in Call : Begins(c, q)

\* A transaction, or whatever the call was at, comes to its end.
Ends(c) ==
    /\ \E q \in Call : MovesTo(c, q) /\ q.op = "NONE" /\ q.pc \in {"over", "lost"}
    /\ dayEnd' = dayEnd
    /\ \/ Withdrawn(c) /\ \A e \in People : employee'[e].status = employee[e].status
       \/ /\ Visible(c)
          /\ \A e \in People :
                \/ employee'[e].status = employee[e].status
                \/ call[c].pc = "commit" /\ call[c].op = "STATUS" /\ call[c].subject = e

\* A creation that succeeds: its number and its work email are nobody else's.
Hires(c) ==
    LET q == call[c] IN
    /\ q.pc = "insert" /\ q.subject \in People \ Present /\ counter' = q.number + 1
    /\ \A e \in People :
          IF e = q.subject THEN employee'[e].present /\ employee'[e].number = q.number
          ELSE /\ employee'[e].present = employee[e].present
               /\ employee'[e].number = employee[e].number

\* The three ways to begin have a row to write.
LEMMA BeginMoves ==
    ASSUME TypeInv, NEW c \in Calls, NEW q \in Call, Become(c, q), Stage(q),
           NEW event \in {"CREATED", "MANAGER", "PLACEMENT", "STATUS", "ARCHIVED"},
           Dated(c, event), event = "STATUS" <=> q.op = "STATUS",
           call[c].pc \in {"begin", "count", "issue"}, q.pc \in {"commit", "insert"},
           q.op = call[c].op, q.subject = call[c].subject,
           q.pc = "insert" => q.number = counter /\ \A d \in Calls : call[d].pc # "insert",
           UNCHANGED <<employee, counter, checklist, unit, dayEnd, agenda>>
    PROVE  TypeInv' /\ Begin(c)
  <1>1. MovesTo(c, q)
    BY Moved
  <1>2. call[c] \in Call /\ Stage(call[c])
    BY DEF TypeInv, TypeOK, Stages
  <1>3. call[c].subject \in People /\ (q.op = "STATUS" => call[c].pc = "begin")
    BY <1>2 DEF Stage
  <1>4. history' \in Seq(HistoryRow)
    BY <1>3, DatedRows
  <1>5. Begins(c, q)
    BY <1>1, <1>3 DEF Begins, NumbersKept
  <1>6. TypeInv'
    <2>1. counter \in Nat \ {0}
          /\ dayEnd \in [passed: BOOLEAN, status: [People -> Statuses], straddled: SUBSET People]
      BY DEF TypeInv, TypeOK
    <2>2. q.pc # "toggle"
      OBVIOUS
    <2> QED
      BY <1>1, <1>4, <2>1, <2>2, Tables, MoveTyped
  <1> QED
    BY <1>5, <1>6 DEF Begin

LEMMA UpdateBegins ==
    ASSUME TypeInv, NEW c \in Calls, BeginUpdate(c)
    PROVE  TypeInv' /\ Begin(c)
  <1> DEFINE p == call[c]
             q == [p EXCEPT !.pc = "commit"]
             event == EventOf(p.op)
  <1>1. /\ p.pc = "begin" /\ Become(c, q) /\ Dated(c, event)
        /\ UNCHANGED <<employee, counter, checklist, unit, dayEnd, agenda>>
    BY DEF BeginUpdate, Goto
  <1>2. p \in Call /\ Stage(p)
    BY DEF TypeInv, TypeOK, Stages
  <1>3. p.op \in {"ASSIGN", "PLACE", "STATUS"}
    BY <1>1, <1>2 DEF Stage
  <1>4. /\ event \in {"CREATED", "MANAGER", "PLACEMENT", "STATUS", "ARCHIVED"}
        /\ event = "STATUS" <=> p.op = "STATUS"
    <2> HIDE DEF p
    <2> QED
      BY <1>3 DEF EventOf
  <1> HIDE DEF event
  <1>5. q \in Call /\ q.pc = "commit" /\ q.op = p.op /\ q.to = p.to /\ q.subject = p.subject
    BY <1>2 DEF Call, Pcs
  <1> HIDE DEF q
  <1>6. Stage(q)
    BY <1>1, <1>2, <1>3, <1>5 DEF Stage
  <1> QED
    BY <1>1, <1>4, <1>5, <1>6, BeginMoves

LEMMA ArchiveBegins ==
    ASSUME TypeInv, NEW c \in Calls, CountActiveDirectReports(c)
    PROVE  TypeInv' /\ (Begin(c) \/ Quiet(c))
  <1> DEFINE p == call[c]
             q == [p EXCEPT !.pc = "commit"]
  <1>1. /\ p.pc = "count" /\ UNCHANGED <<employee, counter, checklist, unit, dayEnd, agenda>>
        /\ (Finish(c) /\ UNCHANGED history) \/ (Become(c, q) /\ Dated(c, "ARCHIVED"))
    BY DEF CountActiveDirectReports, Goto
  <1>2. p \in Call /\ Stage(p)
    BY DEF TypeInv, TypeOK, Stages
  <1>3. p.op = "ARCHIVE"
    BY <1>1, <1>2 DEF Stage
  <1>4. q \in Call /\ q.pc = "commit" /\ q.op = p.op /\ q.to = p.to /\ q.subject = p.subject
    BY <1>2 DEF Call, Pcs
  <1> HIDE DEF q
  <1>5. Stage(q)
    BY <1>1, <1>2, <1>3, <1>4 DEF Stage
  <1>6. CASE Finish(c) /\ UNCHANGED history
    BY <1>1, <1>6, FinishesQuietly
  <1>7. CASE Become(c, q) /\ Dated(c, "ARCHIVED")
    BY <1>1, <1>3, <1>4, <1>5, <1>7, BeginMoves
  <1> QED
    BY <1>1, <1>6, <1>7

LEMMA CreationBegins ==
    ASSUME TypeInv, NEW c \in Calls, IssueNextNumber(c)
    PROVE  TypeInv' /\ Begin(c)
  <1> DEFINE p == call[c]
             q == [p EXCEPT !.pc = "insert", !.number = counter]
  <1>1. /\ p.pc = "issue" /\ \A d \in Calls : call[d].pc # "insert"
        /\ Become(c, q) /\ Dated(c, "CREATED")
        /\ UNCHANGED <<employee, counter, checklist, unit, dayEnd, agenda>>
    BY DEF IssueNextNumber
  <1>2. p \in Call /\ Stage(p) /\ counter \in Nat
    BY DEF TypeInv, TypeOK, Stages
  <1>3. p.op = "CREATE"
    BY <1>1, <1>2 DEF Stage
  <1>4. /\ q \in Call /\ q.pc = "insert" /\ q.op = p.op /\ q.to = p.to /\ q.subject = p.subject
        /\ q.number = counter
    <2> DEFINE r == [p EXCEPT !.pc = "insert"]
    <2>1. "insert" \in Pcs /\ p \in Call /\ counter \in Nat /\ q = [r EXCEPT !.number = counter]
      BY <1>2 DEF Pcs
    <2> HIDE DEF p, q
    <2>2. r \in Call /\ r.pc = "insert" /\ r.op = p.op /\ r.to = p.to /\ r.subject = p.subject
      BY <2>1 DEF Call
    <2> HIDE DEF r
    <2> QED
      BY <2>1, <2>2 DEF Call
  <1> HIDE DEF q
  <1>5. Stage(q)
    BY <1>1, <1>2, <1>3, <1>4 DEF Stage
  <1> QED
    BY <1>1, <1>3, <1>4, <1>5, BeginMoves

\* A call that ends leaves everything typed.
LEMMA EndTyped ==
    ASSUME TypeInv, NEW c \in Calls, NEW q \in {Over, [Fresh EXCEPT !.pc = "lost"]},
           Become(c, q) \/ WriteAs(c, q), Withdrawn(c) \/ Visible(c),
           employee' \in [People -> Employee], counter' \in Nat \ {0},
           UNCHANGED <<checklist, unit, dayEnd, agenda>>
    PROVE  /\ TypeInv' /\ q \in Call /\ MovesTo(c, q)
           /\ q.op = "NONE" /\ q.pc \in {"over", "lost"}
  <1>1. q \in Call /\ Stage(q) /\ q.op = "NONE" /\ q.pc \in {"over", "lost"}
    BY FreshTyped, Zenon
  <1>2. MovesTo(c, q)
    BY <1>1, Moved
  <1>3. history' \in Seq(HistoryRow)
    BY VisibleRows, WithdrawnRows
  <1>4. dayEnd \in [passed: BOOLEAN, status: [People -> Statuses], straddled: SUBSET People]
    BY DEF TypeInv, TypeOK
  <1>5. TypeInv'
    BY <1>1, <1>2, <1>3, <1>4, Tables, MoveTyped
  <1> QED
    BY <1>1, <1>2, <1>5

\* What a commit makes of the employee's row.
LEMMA UpdatedTyped ==
    ASSUME NEW e \in Employee, NEW q \in Call, Stage(q), q.pc = "commit"
    PROVE  /\ Updated(e, q) \in Employee
           /\ Updated(e, q).present = e.present /\ Updated(e, q).number = e.number
           /\ q.op # "STATUS" => Updated(e, q).status = e.status
  <1>1. q.op \in {"ASSIGN", "PLACE", "STATUS", "ARCHIVE"}
    BY DEF Stage
  <1>2. CASE q.op = "ASSIGN"
    <2>1. Updated(e, q) = [e EXCEPT !.manager = q.to] /\ q.to \in People \cup {None}
      BY <1>2 DEF Updated, Stage
    <2> QED
      BY <1>2, <2>1 DEF Employee
  <1>3. CASE q.op = "PLACE"
    <2> DEFINE kind == FieldOf(q.to)
               units == [e.unit EXCEPT ![kind] = q.to]
               f == [e EXCEPT !.unit = units]
    <2>1. q.to \in Units \cup {None}
      BY <1>3 DEF Stage
    <2>2. kind \in Kinds
      BY <2>1, PeopleAssumption DEF Kinds, FieldOf
    <2>3. Updated(e, q) = f
      BY <1>3 DEF Updated
    <2> HIDE DEF kind
    <2>4. units \in [Kinds -> Units \cup {None}]
      BY <2>1, <2>2 DEF Employee
    <2> HIDE DEF units
    <2>5. f \in Employee /\ f.present = e.present /\ f.number = e.number /\ f.status = e.status
      BY <2>4 DEF Employee
    <2> QED
      BY <2>3, <2>5
  <1>4. CASE q.op = "STATUS"
    <2>1. Updated(e, q) = [e EXCEPT !.status = q.to] /\ q.to \in Statuses
      BY <1>4 DEF Updated, Stage
    <2> QED
      BY <1>4, <2>1 DEF Employee
  <1>5. CASE q.op = "ARCHIVE"
    <2> DEFINE yes == TRUE
    <2>1. Updated(e, q) = [e EXCEPT !.archived = yes] /\ yes \in BOOLEAN
      BY <1>5 DEF Updated
    <2> HIDE DEF yes
    <2> QED
      BY <1>5, <2>1 DEF Employee
  <1> QED
    BY <1>1, <1>2, <1>3, <1>4, <1>5

LEMMA CommitMoves ==
    ASSUME TypeInv, NEW c \in Calls, Commit(c)
    PROVE  TypeInv' /\ Ends(c) /\ NumbersKept
  <1> DEFINE p == call[c]
             f == Updated(employee[p.subject], p)
             silent == p.op \in {"ASSIGN", "PLACE"} /\ p.to = p.seen
  <1>1. /\ p.pc = "commit" /\ employee' = [employee EXCEPT ![p.subject] = f]
        /\ WriteAs(c, Over) /\ UNCHANGED <<counter, checklist, unit, dayEnd, agenda>>
        /\ silent => Withdrawn(c)
        /\ ~silent => Visible(c)
    BY DEF Commit
  <1>2. p \in Call /\ Stage(p) /\ p.subject \in People
    <2>1. p \in Call /\ Stage(p)
      BY DEF TypeInv, TypeOK, Stages
    <2> QED
      BY <1>1, <2>1 DEF Stage
  <1>3. employee[p.subject] \in Employee /\ employee \in [People -> Employee] /\ counter \in Nat \ {0}
    BY <1>2 DEF TypeInv, TypeOK
  <1>4. /\ f \in Employee /\ f.present = employee[p.subject].present
        /\ f.number = employee[p.subject].number
        /\ p.op # "STATUS" => f.status = employee[p.subject].status
    BY <1>1, <1>2, <1>3, UpdatedTyped
  <1>5. silent => p.op # "STATUS"
    OBVIOUS
  <1> HIDE DEF f, silent
  <1>6. employee' \in [People -> Employee]
    BY <1>1, <1>3, <1>4
  <1>7. NumbersKept
    BY <1>1, <1>2, <1>3, <1>4 DEF NumbersKept
  <1>8. \A e \in People : employee'[e].status = employee[e].status \/ (p.op = "STATUS" /\ p.subject = e)
    BY <1>1, <1>2, <1>3, <1>4
  <1>9. /\ TypeInv' /\ Over \in Call /\ MovesTo(c, Over)
        /\ Over.op = "NONE" /\ Over.pc \in {"over", "lost"}
    BY <1>1, <1>3, <1>6, EndTyped
  <1>10. Ends(c)
    <2>1. CASE silent
      <3>1. \A e \in People : employee'[e].status = employee[e].status
        BY <1>5, <1>8, <2>1
      <3> QED
        BY <1>1, <1>9, <2>1, <3>1 DEF Ends
    <2>2. CASE ~silent
      BY <1>1, <1>8, <1>9, <2>2 DEF Ends
    <2> QED
      BY <2>1, <2>2
  <1> QED
    BY <1>7, <1>9, <1>10

LEMMA InsertMoves ==
    ASSUME TypeInv, NEW c \in Calls, Insert(c)
    PROVE  TypeInv' /\ Ends(c) /\ (NumbersKept \/ Hires(c))
  <1> DEFINE p == call[c]
             taken == \E e \in Present : EmailOf[e] = EmailOf[p.subject] \/ employee[e].number = p.number
  <1>1. /\ p.pc = "insert" /\ UNCHANGED <<checklist, unit, dayEnd, agenda>>
        /\ taken => Finish(c) /\ Withdrawn(c) /\ UNCHANGED <<employee, counter, agenda>>
        /\ ~taken => /\ employee' = [employee EXCEPT ![p.subject].present = TRUE,
                                                     ![p.subject].number = p.number,
                                                     ![p.subject].manager = p.to]
                     /\ counter' = p.number + 1
                     /\ WriteAs(c, Over) /\ Visible(c)
    BY DEF Insert
  <1>2. p \in Call /\ Stage(p) /\ p.subject \in People /\ p.to \in People \cup {None} /\ p.number \in Nat
    <2>1. p \in Call /\ Stage(p)
      BY DEF TypeInv, TypeOK, Stages
    <2> QED
      BY <1>1, <2>1 DEF Stage, Call
  <1>3. employee \in [People -> Employee] /\ employee[p.subject] \in Employee /\ counter \in Nat \ {0}
    BY <1>2 DEF TypeInv, TypeOK
  <1>4. CASE taken
    <2>1. Become(c, Over) /\ employee' = employee /\ counter' = counter
      BY <1>1, <1>4 DEF Finish
    <2>2. /\ TypeInv' /\ Over \in Call /\ MovesTo(c, Over)
          /\ Over.op = "NONE" /\ Over.pc \in {"over", "lost"}
      BY <1>1, <1>3, <1>4, <2>1, EndTyped
    <2>3. NumbersKept
      BY <2>1 DEF NumbersKept
    <2>4. Ends(c)
      BY <1>1, <1>4, <2>1, <2>2 DEF Ends
    <2> QED
      BY <2>2, <2>3, <2>4
  <1>5. CASE ~taken
    <2> DEFINE e == employee[p.subject]
               yes == TRUE
               e1 == [e EXCEPT !.present = yes]
               e2 == [e1 EXCEPT !.number = p.number]
               e3 == [e2 EXCEPT !.manager = p.to]
    <2>1. employee' = [employee EXCEPT ![p.subject] = e3]
      BY <1>1, <1>2, <1>3, <1>5
    <2>2. yes \in BOOLEAN /\ yes
      OBVIOUS
    <2> HIDE DEF yes
    <2>3. e1 \in Employee /\ e1.present /\ e1.status = e.status
      BY <1>3, <2>2 DEF Employee
    <2> HIDE DEF e1
    <2>4. e2 \in Employee /\ e2.present /\ e2.status = e.status /\ e2.number = p.number
      BY <1>2, <2>3 DEF Employee
    <2> HIDE DEF e2
    <2>5. e3 \in Employee /\ e3.present /\ e3.status = e.status /\ e3.number = p.number
      BY <1>2, <2>4 DEF Employee
    <2> HIDE DEF e3
    <2>6. /\ employee' \in [People -> Employee]
          /\ \A d \in People : employee'[d].status = employee[d].status
      BY <1>2, <1>3, <2>1, <2>5
    <2>7. /\ TypeInv' /\ Over \in Call /\ MovesTo(c, Over)
          /\ Over.op = "NONE" /\ Over.pc \in {"over", "lost"}
      BY <1>1, <1>2, <1>5, <2>6, EndTyped
    <2>8. Ends(c)
      BY <1>1, <1>5, <2>6, <2>7 DEF Ends
    <2>9. p.subject \notin Present
      BY <1>5
    <2>10. Hires(c)
      BY <1>1, <1>2, <1>3, <1>5, <2>1, <2>5, <2>9 DEF Hires
    <2> QED
      BY <2>7, <2>8, <2>10
  <1> QED
    BY <1>4, <1>5

LEMMA CrashMoves ==
    ASSUME TypeInv, NEW c \in Calls, Crash(c)
    PROVE  TypeInv' /\ Ends(c) /\ NumbersKept
  <1> DEFINE q == [Fresh EXCEPT !.pc = "lost"]
  <1>1. /\ Become(c, q) /\ Withdrawn(c)
        /\ UNCHANGED <<employee, counter, checklist, unit, dayEnd, agenda>>
    BY DEF Crash
  <1>2. counter \in Nat \ {0} /\ employee \in [People -> Employee]
    BY DEF TypeInv, TypeOK
  <1>3. TypeInv' /\ q \in Call /\ MovesTo(c, q) /\ q.op = "NONE" /\ q.pc \in {"over", "lost"}
    BY <1>1, <1>2, EndTyped
  <1> HIDE DEF q
  <1>4. Ends(c)
    BY <1>1, <1>3 DEF Ends
  <1>5. NumbersKept
    BY <1>1 DEF NumbersKept
  <1> QED
    BY <1>3, <1>4, <1>5

LEMMA DayEndTyped ==
    ASSUME TypeInv, EndOfDay
    PROVE  TypeInv'
  <1> DEFINE now == [e \in People |-> employee[e].status]
             over == {e \in People : \E c \in Calls :
                        /\ call[c].op = "STATUS" /\ call[c].subject = e
                        /\ call[c].pc \in {"begin", "commit"}}
             yes == TRUE
  <1>1. dayEnd' = [passed |-> yes, status |-> now, straddled |-> over]
    BY DEF EndOfDay
  <1>2. now \in [People -> Statuses] /\ over \in SUBSET People /\ yes \in BOOLEAN
    BY Tables DEF Employee
  <1> HIDE DEF now, over, yes
  <1>3. dayEnd' \in [passed: BOOLEAN, status: [People -> Statuses], straddled: SUBSET People]
    BY <1>1, <1>2
  <1> QED
    BY <1>3 DEF TypeInv, TypeOK, Stages, EndOfDay

\* Every step that changes anything is one of these.
Moves ==
    \/ \E c \in Calls : Quiet(c) \/ Begin(c) \/ (Ends(c) /\ (NumbersKept \/ Hires(c)))
    \/ EndOfDay
    \/ UNCHANGED vars

LEMMA StepMoves ==
    ASSUME TypeInv, NEW c \in Calls, Step(c)
    PROVE  TypeInv' /\ (Quiet(c) \/ Begin(c) \/ (Ends(c) /\ (NumbersKept \/ Hires(c))))
  <1> DEFINE Goal == TypeInv' /\ (Quiet(c) \/ Begin(c) \/ (Ends(c) /\ (NumbersKept \/ Hires(c))))
  <1>1. CASE ReadEmployee(c) \/ AssertManagerMayChange(c) \/ AssertValidManager(c) \/ Walk(c)
    BY <1>1, ReadMoves, ScopeMoves, ManagerMoves, WalkMoves
  <1>2. CASE BeginUpdate(c) \/ CountActiveDirectReports(c) \/ IssueNextNumber(c)
    BY <1>2, UpdateBegins, ArchiveBegins, CreationBegins
  <1>3. CASE Commit(c) \/ Insert(c)
    BY <1>3, CommitMoves, InsertMoves
  <1>4. CASE FindOnboarding(c) \/ CountIncomplete(c) \/ ExistsActiveIn(c)
    BY <1>4, FindMoves, CountMoves
  <1>5. CASE CreateChecklist(c) \/ CreateTasks(c) \/ SetCompleted(c) \/ MarkCompleted(c)
    BY <1>5, ChecklistMoves
  <1>6. CASE SetInProgress(c) \/ SetOnboardingCompleted(c) \/ UpdateUnit(c)
    BY <1>6, OnboardingMoves, UnitMoves
  <1> HIDE DEF Goal
  <1>7. Goal
    BY <1>1, <1>2, <1>3, <1>4, <1>5, <1>6, Zenon DEF Step, Goal
  <1> QED
    BY <1>7 DEF Goal

LEMMA NextMoves ==
    ASSUME TypeInv, [Next]_vars
    PROVE  TypeInv' /\ Moves
  <1>1. CASE EndOfDay
    BY <1>1, DayEndTyped DEF Moves
  <1>2. ASSUME NEW c \in Calls, Request(c) \/ Step(c) \/ Crash(c)
        PROVE  TypeInv' /\ Moves
    <2>1. CASE Request(c)
      BY <2>1, RequestMoves DEF Moves
    <2>2. CASE Step(c)
      BY <2>2, StepMoves DEF Moves
    <2>3. CASE Crash(c)
      BY <2>3, CrashMoves DEF Moves
    <2> QED
      BY <1>2, <2>1, <2>2, <2>3
  <1>3. CASE UNCHANGED vars
    <2>1. TypeInv'
      BY <1>3 DEF vars, TypeInv, TypeOK, Stages
    <2> QED
      BY <1>3, <2>1 DEF Moves
  <1> QED
    BY <1>1, <1>2, <1>3 DEF Next

\* The rows, the requests and what each is about stay well formed.
THEOREM EmployeesTyped == Spec => []TypeInv
  <1>1. Init => TypeInv
    BY InitRight
  <1>2. TypeInv /\ [Next]_vars => TypeInv'
    BY NextMoves
  <1> QED
    BY <1>1, <1>2, PTL DEF Spec

-----------------------------------------------------------------------------
(* Employee numbers                                                        *)

\* A step that gives nobody a number, and whose call, if it takes the next one, is
\* the only one that does.
LEMMA NumbersStay ==
    ASSUME TypeInv, NumberInv, NEW c \in Calls, NEW q \in Call, MovesTo(c, q), NumbersKept,
           q.pc = "insert" => q.number = counter /\ \A d \in Calls : call[d].pc # "insert"
    PROVE  NumberInv'
  <1>1. Present' = Present
    BY DEF NumbersKept, Present
  <1>2. \A e \in Present : e \in People
    BY DEF Present
  <1>3. \A d, e \in Present' : employee'[d].number = employee'[e].number => d = e
    BY <1>1, <1>2 DEF NumbersKept, NumberInv, NumbersUniqueAndGapless
  <1>4. {employee'[e].number : e \in Present'} = 1..(counter' - 1)
    <2>1. {employee'[e].number : e \in Present'} = {employee[e].number : e \in Present}
      BY <1>1, <1>2 DEF NumbersKept
    <2> QED
      BY <2>1 DEF NumbersKept, NumberInv, NumbersUniqueAndGapless
  <1>5. \A d \in Calls : call'[d].pc = "insert" => call'[d].number = counter'
    BY DEF MovesTo, Same, NumbersKept, NumberInv, NumbersUniqueAndGapless
  <1>6. \A b, d \in Calls : call'[b].pc = "insert" /\ call'[d].pc = "insert" => b = d
    BY DEF MovesTo, Same, NumberInv
  <1> QED
    BY <1>3, <1>4, <1>5, <1>6 DEF NumberInv, NumbersUniqueAndGapless

\* The one who holds the next number gives it to the new record and lets it go.
LEMMA NumberGiven ==
    ASSUME TypeInv, NumberInv, NEW c \in Calls, NEW q \in Call, MovesTo(c, q), Hires(c),
           q.pc # "insert"
    PROVE  NumberInv'
  <1> DEFINE n == call[c].subject
  <1>1. /\ n \in People \ Present /\ call[c].pc = "insert" /\ call[c].number = counter
        /\ counter' = counter + 1 /\ counter \in Nat \ {0}
    BY DEF Hires, NumberInv, NumbersUniqueAndGapless, TypeInv, TypeOK
  <1>2. employee'[n].present /\ employee'[n].number = counter
    BY <1>1 DEF Hires
  <1>3. \A e \in People \ {n} : /\ employee'[e].present = employee[e].present
                                /\ employee'[e].number = employee[e].number
    BY DEF Hires
  <1> HIDE DEF n
  <1>4. Present' = Present \cup {n}
    BY <1>1, <1>2, <1>3 DEF Present
  <1>5. \A e \in Present : e \in People \ {n} /\ employee[e].number \in 1..(counter - 1)
    BY <1>1 DEF Present, NumberInv, NumbersUniqueAndGapless
  <1>6. \A d, e \in Present' : employee'[d].number = employee'[e].number => d = e
    <2>1. \A e \in Present : employee'[e].number # counter
      BY <1>1, <1>3, <1>5
    <2>2. \A d, e \in Present : employee'[d].number = employee'[e].number => d = e
      BY <1>3, <1>5 DEF NumberInv, NumbersUniqueAndGapless
    <2> QED
      BY <1>2, <1>4, <2>1, <2>2
  <1>7. {employee'[e].number : e \in Present'} = 1..(counter' - 1)
    <2>1. {employee'[e].number : e \in Present'} = {employee[e].number : e \in Present} \cup {counter}
      BY <1>2, <1>3, <1>4, <1>5
    <2>2. {employee[e].number : e \in Present} = 1..(counter - 1)
      BY DEF NumberInv, NumbersUniqueAndGapless
    <2>3. 1..(counter' - 1) = (1..(counter - 1)) \cup {counter}
      BY <1>1
    <2> QED
      BY <2>1, <2>2, <2>3
  <1>8. \A d \in Calls : call'[d].pc # "insert"
    BY <1>1 DEF MovesTo, Same, NumberInv
  <1> QED
    BY <1>6, <1>7, <1>8 DEF NumberInv, NumbersUniqueAndGapless

LEMMA NumbersKeep ==
    ASSUME TypeInv, NumberInv, Moves
    PROVE  NumberInv'
  <1>1. ASSUME NEW c \in Calls, Quiet(c)
        PROVE  NumberInv'
    <2>1. PICK q \in Call : Quietly(c, q)
      BY <1>1 DEF Quiet
    <2>2. MovesTo(c, q) /\ NumbersKept /\ q.pc # "insert"
      BY <2>1 DEF Quietly, NumbersKept
    <2> QED
      BY <2>2, NumbersStay
  <1>2. ASSUME NEW c \in Calls, Begin(c)
        PROVE  NumberInv'
    <2>1. PICK q \in Call : Begins(c, q)
      BY <1>2 DEF Begin
    <2>2. /\ MovesTo(c, q) /\ NumbersKept
          /\ q.pc = "insert" => q.number = counter /\ \A d \in Calls : call[d].pc # "insert"
      BY <2>1 DEF Begins
    <2> QED
      BY <2>2, NumbersStay
  <1>3. ASSUME NEW c \in Calls, Ends(c), NumbersKept \/ Hires(c)
        PROVE  NumberInv'
    <2>1. PICK q \in Call : MovesTo(c, q) /\ q.op = "NONE" /\ q.pc \in {"over", "lost"}
      BY <1>3 DEF Ends
    <2> QED
      BY <1>3, <2>1, NumbersStay, NumberGiven
  <1>4. CASE EndOfDay
    BY <1>4 DEF EndOfDay, NumberInv, NumbersUniqueAndGapless, Present
  <1>5. CASE UNCHANGED vars
    BY <1>5 DEF vars, NumberInv, NumbersUniqueAndGapless, Present
  <1> QED
    BY <1>1, <1>2, <1>3, <1>4, <1>5 DEF Moves

\* Employee numbers are handed out once each and without gaps, whatever creations
\* run at the same time, fail on a taken email or die half way: the counter's row
\* is held by one creation at a time, and the counter is written together with the
\* record that gets its number.
THEOREM NumbersAreUniqueAndGapless == Spec => []NumbersUniqueAndGapless
  <1>1. Init => NumberInv
    BY InitRight
  <1>2. TypeInv /\ NumberInv /\ [Next]_vars => NumberInv'
    BY NextMoves, NumbersKeep
  <1>3. NumberInv => NumbersUniqueAndGapless
    BY DEF NumberInv
  <1> QED
    BY <1>1, <1>2, <1>3, EmployeesTyped, PTL DEF Spec

-----------------------------------------------------------------------------
(* The history                                                             *)

\* What the sequence of rows is typed as.
LEMMA HistoryRows ==
    ASSUME TypeInv
    PROVE  /\ DOMAIN history = 1..Len(history) /\ Len(history) \in Nat
           /\ \A i \in DOMAIN history : history[i].by \in Calls \cup {None} /\ history[i].employee \in People
           /\ None \notin Calls
  <1>1. history \in Seq(HistoryRow)
    BY DEF TypeInv, TypeOK
  <1>2. DOMAIN history = 1..Len(history) /\ Len(history) \in Nat
    BY <1>1
  <1>3. \A i \in DOMAIN history : history[i] \in HistoryRow
    BY <1>1
  <1>4. \A i \in DOMAIN history : history[i].by \in Calls \cup {None} /\ history[i].employee \in People
    BY <1>3 DEF HistoryRow
  <1> QED
    BY <1>2, <1>4, PeopleAssumption

\* A call that has no row yet, or no longer, has written none.
LEMMA NoRowOf ==
    ASSUME TypeInv, RowInv, NEW c \in Calls, call[c].pc \notin {"commit", "insert"}
    PROVE  \A i \in DOMAIN history : history[i].by # c
  BY HistoryRows DEF RowInv, WrittenBy

\* Nothing happens to the history while a call of no row goes on.
LEMMA QuietHistory ==
    ASSUME TypeInv, HistoryInv, NEW c \in Calls, NEW q \in Call, MovesTo(c, q),
           history' = history, dayEnd' = dayEnd,
           \A e \in People : employee'[e].status = employee[e].status,
           \A i \in DOMAIN history : history[i].by # c, q.pc # "commit",
           q.pc = "begin" /\ q.op = "STATUS" => q.seen = employee[q.subject].status
    PROVE  HistoryInv'
  <1>1. \A d \in Calls \ {c} : Same(call[d], call'[d])
    BY DEF MovesTo
  <1>2. RowInv'
    <2>1. \A i \in DOMAIN history : history[i].by # None => WrittenBy(history[i], call'[history[i].by])
      BY <1>1, HistoryRows DEF HistoryInv, RowInv, WrittenBy, Same
    <2>2. \A d \in Calls : call'[d].pc = "commit" /\ call'[d].op = "STATUS" =>
             \E i \in DOMAIN history : history[i].by = d
      BY <1>1 DEF HistoryInv, RowInv, Same, MovesTo
    <2> QED
      BY <2>1, <2>2 DEF HistoryInv, RowInv
  <1>3. LateInv'
    BY DEF HistoryInv, LateInv
  <1>4. ASSUME dayEnd.passed, NEW e \in People \ dayEnd.straddled
        PROVE  /\ employee'[e].status = dayEnd.status[e] \/ LaterChanges(e) # {}
               /\ \A d \in Calls :
                     call'[d].pc = "begin" /\ call'[d].op = "STATUS" /\ call'[d].subject = e =>
                        call'[d].seen = dayEnd.status[e] \/ LaterChanges(e) # {}
    <2>1. employee[e].status = dayEnd.status[e] \/ LaterChanges(e) # {}
      BY <1>4 DEF HistoryInv, DayInv
    <2>2. \A d \in Calls \ {c} :
             call'[d].pc = "begin" /\ call'[d].op = "STATUS" /\ call'[d].subject = e =>
                call'[d].seen = dayEnd.status[e] \/ LaterChanges(e) # {}
      BY <1>1, <1>4 DEF HistoryInv, DayInv, Same
    <2> QED
      BY <2>1, <2>2 DEF MovesTo
  <1>5. \A e : LaterChanges(e)' = LaterChanges(e)
    BY DEF LaterChanges
  <1>6. DayInv'
    BY <1>4, <1>5 DEF HistoryInv, DayInv
  <1> QED
    BY <1>2, <1>3, <1>6 DEF HistoryInv

\* A transaction begins: its row is the last, and not visible.
LEMMA BegunHistory ==
    ASSUME TypeInv, HistoryInv, NEW c \in Calls, NEW q \in Call, Begins(c, q)
    PROVE  HistoryInv'
  <1> DEFINE n == Len(history)
             row == history'[n + 1]
  <1>1. PICK event \in {"CREATED", "MANAGER", "PLACEMENT", "STATUS", "ARCHIVED"} :
          Dated(c, event) /\ (event = "STATUS" <=> q.op = "STATUS")
    BY DEF Begins
  <1>2. /\ MovesTo(c, q) /\ dayEnd' = dayEnd /\ call'[c] = q
        /\ \A e \in People : employee'[e].status = employee[e].status
        /\ call[c].pc \in {"begin", "count", "issue"} /\ q.pc \in {"commit", "insert"}
        /\ q.op = call[c].op /\ q.subject = call[c].subject /\ q.subject \in People
        /\ q.op = "STATUS" => call[c].pc = "begin"
        /\ \A d \in Calls \ {c} : Same(call[d], call'[d])
    BY DEF Begins, MovesTo
  <1>3. /\ history' \in Seq(HistoryRow) /\ Len(history') = n + 1
        /\ \A i \in 1..n : history'[i] = history[i]
        /\ row.employee = call[c].subject /\ row.event = event
        /\ row.before = call[c].seen /\ row.late = dayEnd.passed /\ row.by = c
    BY <1>1, <1>2, DatedRows
  <1>4. /\ DOMAIN history' = 1..n + 1 /\ DOMAIN history = 1..n /\ n \in Nat
        /\ \A i \in 1..n : history[i].by \in Calls \cup {None} /\ history[i].employee \in People
        /\ None \notin Calls
    BY <1>3, HistoryRows
  <1>5. \A i \in 1..n : history[i].by # c
    BY <1>2, <1>4, NoRowOf DEF HistoryInv
  <1> HIDE DEF n, row
  <1>6. \A i \in 1..n + 1 : i \in 1..n \/ i = n + 1
    BY <1>4
  <1>7. n + 1 \in 1..n + 1 /\ 1..n \subseteq 1..n + 1
    BY <1>4
  <1>8. history'[n + 1] = row
    BY DEF row
  <1>9. RowInv'
    <2>1. ASSUME NEW i \in 1..n + 1, history'[i].by # None
          PROVE  WrittenBy(history'[i], call'[history'[i].by])
      <3>1. CASE i \in 1..n
        BY <1>2, <1>3, <1>4, <1>5, <2>1, <3>1 DEF HistoryInv, RowInv, WrittenBy, Same
      <3>2. CASE i = n + 1
        BY <1>1, <1>2, <1>3, <1>8, <3>2 DEF WrittenBy
      <3> QED
        BY <1>6, <3>1, <3>2
    <2>2. ASSUME NEW i \in 1..n + 1, NEW j \in 1..n + 1,
                 history'[i].by # None, history'[i].by = history'[j].by
          PROVE  i = j
      <3>1. CASE i \in 1..n /\ j \in 1..n
        BY <1>3, <1>4, <2>2, <3>1 DEF HistoryInv, RowInv
      <3>2. CASE ~(i \in 1..n /\ j \in 1..n)
        BY <1>3, <1>5, <1>6, <1>8, <2>2, <3>2
      <3> QED
        BY <3>1, <3>2
    <2>3. ASSUME NEW d \in Calls, call'[d].pc = "commit", call'[d].op = "STATUS"
          PROVE  \E i \in 1..n + 1 : history'[i].by = d
      <3>1. CASE d = c
        BY <1>3, <1>7, <1>8, <3>1
      <3>2. CASE d # c
        <4>1. \E i \in 1..n : history[i].by = d
          BY <1>2, <1>4, <2>3, <3>2 DEF HistoryInv, RowInv, Same
        <4> QED
          BY <1>3, <1>7, <4>1
      <3> QED
        BY <3>1, <3>2
    <2> QED
      BY <1>4, <2>1, <2>2, <2>3 DEF RowInv
  <1>10. LateInv'
    <2>1. ~dayEnd.passed => \A i \in 1..n + 1 : ~history'[i].late
      BY <1>3, <1>4, <1>6, <1>8 DEF HistoryInv, LateInv
    <2>2. dayEnd.passed => \A i \in 1..n + 1 :
             history'[i].by # None /\ history'[i].event = "STATUS" =>
                history'[i].late \/ history'[i].employee \in dayEnd.straddled
      BY <1>3, <1>4, <1>6, <1>8 DEF HistoryInv, LateInv
    <2> QED
      BY <1>2, <1>4, <2>1, <2>2 DEF LateInv
  <1>11. \A e : LaterChanges(e)' = LaterChanges(e)
    <2>1. ASSUME NEW e, NEW i \in 1..n + 1
          PROVE  /\ history'[i].employee = e /\ history'[i].event = "STATUS"
                 /\ history'[i].late /\ history'[i].by = None
                 <=> i \in LaterChanges(e)
      <3>1. CASE i \in 1..n
        BY <1>3, <1>4, <3>1 DEF LaterChanges
      <3>2. CASE i = n + 1
        <4>1. i \notin 1..n /\ history'[i].by # None
          BY <1>3, <1>4, <1>8, <3>2
        <4> QED
          BY <1>4, <4>1 DEF LaterChanges
      <3> QED
        BY <1>6, <3>1, <3>2
    <2>2. \A e : LaterChanges(e) \subseteq 1..n + 1
      BY <1>4, <1>7 DEF LaterChanges
    <2>3. ASSUME NEW e
          PROVE  LaterChanges(e)' = LaterChanges(e)
      <3>1. LaterChanges(e)' = {i \in 1..n + 1 :
               /\ history'[i].employee = e /\ history'[i].event = "STATUS"
               /\ history'[i].late /\ history'[i].by = None}
        BY <1>4 DEF LaterChanges
      <3> QED
        BY <2>1, <2>2, <3>1
    <2> QED
      BY <2>3
  <1>12. DayInv'
    <2>1. ASSUME dayEnd.passed, NEW e \in People \ dayEnd.straddled
          PROVE  /\ employee'[e].status = dayEnd.status[e] \/ LaterChanges(e) # {}
                 /\ \A d \in Calls :
                       call'[d].pc = "begin" /\ call'[d].op = "STATUS" /\ call'[d].subject = e =>
                          call'[d].seen = dayEnd.status[e] \/ LaterChanges(e) # {}
      BY <1>2, <2>1 DEF HistoryInv, DayInv, Same
    <2>2. ASSUME dayEnd.passed, NEW e \in People \ dayEnd.straddled, NEW i \in 1..n + 1,
                 history'[i].employee = e, history'[i].event = "STATUS", history'[i].late
          PROVE  \/ history'[i].before = dayEnd.status[e]
                 \/ \E j \in LaterChanges(e) : j < i
      <3>1. CASE i \in 1..n
        BY <1>3, <1>4, <2>2, <3>1 DEF HistoryInv, DayInv
      <3>2. CASE i = n + 1
        <4>1. call[c].pc = "begin" /\ call[c].op = "STATUS" /\ call[c].subject = e
          BY <1>1, <1>2, <1>3, <1>8, <2>2, <3>2
        <4>2. call[c].seen = dayEnd.status[e] \/ LaterChanges(e) # {}
          BY <2>2, <4>1 DEF HistoryInv, DayInv
        <4>3. \A j \in LaterChanges(e) : j < n + 1
          BY <1>4 DEF LaterChanges
        <4> QED
          BY <1>3, <1>8, <3>2, <4>2, <4>3
      <3> QED
        BY <1>6, <3>1, <3>2
    <2> QED
      BY <1>2, <1>4, <1>11, <2>1, <2>2 DEF DayInv
  <1> QED
    BY <1>9, <1>10, <1>12 DEF HistoryInv

\* Where a row that was the j-th is once the k-th has been withdrawn.
After(k, j) == IF j < k THEN j ELSE j - 1

\* The others keep their order.
LEMMA WasAtAfter ==
    ASSUME NEW n \in Nat, NEW k \in 1..n
    PROVE  /\ \A i \in 1..n - 1 : WasAt(k, i) \in (1..n) \ {k}
           /\ \A i, j \in 1..n - 1 : WasAt(k, i) = WasAt(k, j) => i = j
           /\ \A j \in (1..n) \ {k} : /\ After(k, j) \in 1..n - 1 /\ WasAt(k, After(k, j)) = j
                                      /\ \A i \in 1..n - 1 : j < WasAt(k, i) => After(k, j) < i
  BY DEF WasAt, After

\* A transaction is rolled back: its row, if it has one, is gone.
LEMMA WithdrawnHistory ==
    ASSUME TypeInv, HistoryInv, NEW c \in Calls, NEW q \in Call, MovesTo(c, q), q.op = "NONE",
           q.pc \in {"over", "lost"}, Withdrawn(c), dayEnd' = dayEnd,
           \A e \in People : employee'[e].status = employee[e].status
    PROVE  HistoryInv'
  <1> DEFINE n == Len(history)
  <1>1. /\ DOMAIN history = 1..n /\ n \in Nat
        /\ \A i \in 1..n : history[i].by \in Calls \cup {None} /\ history[i].employee \in People
        /\ None \notin Calls
    BY HistoryRows
  <1>2. CASE history' = history /\ \A i \in 1..n : history[i].by # c
    BY <1>1, <1>2, QuietHistory
  <1>3. ASSUME NEW k \in 1..n, history[k].by = c, history' \in Seq(HistoryRow), Len(history') = n - 1,
               \A i \in 1..n - 1 : history'[i] = history[WasAt(k, i)]
        PROVE  HistoryInv'
    <2> HIDE DEF n
    <2>1. DOMAIN history' = 1..n - 1
      BY <1>3
    <2>2. /\ \A i \in 1..n - 1 : WasAt(k, i) \in (1..n) \ {k}
          /\ \A i, j \in 1..n - 1 : WasAt(k, i) = WasAt(k, j) => i = j
          /\ \A j \in (1..n) \ {k} : /\ After(k, j) \in 1..n - 1 /\ WasAt(k, After(k, j)) = j
                                     /\ \A i \in 1..n - 1 : j < WasAt(k, i) => After(k, j) < i
      BY <1>1, <1>3, WasAtAfter
    <2>3. \A i \in (1..n) \ {k} : history[i].by # c
      BY <1>1, <1>3 DEF HistoryInv, RowInv
    <2>4. \A d \in Calls \ {c} : Same(call[d], call'[d])
      BY DEF MovesTo
    <2>5. ASSUME NEW e, NEW j \in LaterChanges(e)
          PROVE  j \in (1..n) \ {k} /\ After(k, j) \in LaterChanges(e)'
      <3>1. j \in (1..n) \ {k} /\ history[j].employee = e /\ history[j].event = "STATUS"
            /\ history[j].late /\ history[j].by = None
        BY <1>1, <1>3, <2>5 DEF LaterChanges
      <3>2. After(k, j) \in 1..n - 1 /\ history'[After(k, j)] = history[j]
        BY <1>3, <2>2, <3>1
      <3> QED
        BY <2>1, <3>1, <3>2 DEF LaterChanges
    <2>6. RowInv'
      <3>1. ASSUME NEW i \in 1..n - 1, history'[i].by # None
            PROVE  WrittenBy(history'[i], call'[history'[i].by])
        <4> DEFINE j == WasAt(k, i)
        <4>1. j \in (1..n) \ {k} /\ history'[i] = history[j]
          BY <1>3, <2>2
        <4> HIDE DEF j
        <4>2. history[j].by \in Calls \ {c}
          BY <1>1, <2>3, <3>1, <4>1
        <4>3. WrittenBy(history[j], call[history[j].by])
          BY <1>1, <3>1, <4>1 DEF HistoryInv, RowInv
        <4>4. WrittenBy(history[j], call'[history[j].by])
          BY <2>4, <4>2, <4>3 DEF WrittenBy, Same
        <4> QED
          BY <4>1, <4>4
      <3>2. ASSUME NEW i \in 1..n - 1, NEW j \in 1..n - 1,
                   history'[i].by # None, history'[i].by = history'[j].by
            PROVE  i = j
        <4>1. WasAt(k, i) = WasAt(k, j)
          BY <1>1, <1>3, <2>2, <3>2 DEF HistoryInv, RowInv
        <4> QED
          BY <2>2, <4>1
      <3>3. ASSUME NEW d \in Calls, call'[d].pc = "commit", call'[d].op = "STATUS"
            PROVE  \E i \in 1..n - 1 : history'[i].by = d
        <4>1. d # c
          BY <3>3 DEF MovesTo
        <4>2. PICK j \in 1..n : history[j].by = d
          BY <1>1, <2>4, <3>3, <4>1 DEF HistoryInv, RowInv, Same
        <4>3. j \in (1..n) \ {k}
          BY <1>3, <4>1, <4>2
        <4>4. After(k, j) \in 1..n - 1 /\ history'[After(k, j)] = history[j]
          BY <1>3, <2>2, <4>3
        <4> QED
          BY <4>2, <4>4
      <3> QED
        BY <2>1, <3>1, <3>2, <3>3 DEF RowInv
    <2>7. LateInv'
      <3>1. \A i \in 1..n - 1 : \E j \in 1..n : history'[i] = history[j]
        BY <1>3, <2>2
      <3>2. ~dayEnd.passed => \A i \in 1..n - 1 : ~history'[i].late
        BY <1>1, <3>1 DEF HistoryInv, LateInv
      <3>3. dayEnd.passed => \A i \in 1..n - 1 :
               history'[i].by # None /\ history'[i].event = "STATUS" =>
                  history'[i].late \/ history'[i].employee \in dayEnd.straddled
        BY <1>1, <3>1 DEF HistoryInv, LateInv
      <3> QED
        BY <2>1, <3>2, <3>3 DEF LateInv
    <2>8. ASSUME dayEnd.passed, NEW e \in People \ dayEnd.straddled
          PROVE  /\ employee'[e].status = dayEnd.status[e] \/ LaterChanges(e)' # {}
                 /\ \A d \in Calls :
                       call'[d].pc = "begin" /\ call'[d].op = "STATUS" /\ call'[d].subject = e =>
                          call'[d].seen = dayEnd.status[e] \/ LaterChanges(e)' # {}
      <3>1. LaterChanges(e) # {} => LaterChanges(e)' # {}
        BY <2>5
      <3>2. employee[e].status = dayEnd.status[e] \/ LaterChanges(e) # {}
        BY <2>8 DEF HistoryInv, DayInv
      <3>3. \A d \in Calls \ {c} :
               call'[d].pc = "begin" /\ call'[d].op = "STATUS" /\ call'[d].subject = e =>
                  call'[d].seen = dayEnd.status[e] \/ LaterChanges(e) # {}
        BY <2>4, <2>8 DEF HistoryInv, DayInv, Same
      <3> QED
        BY <3>1, <3>2, <3>3 DEF MovesTo
    <2>9. ASSUME dayEnd.passed, NEW e \in People \ dayEnd.straddled, NEW i \in 1..n - 1,
                 history'[i].employee = e, history'[i].event = "STATUS", history'[i].late
          PROVE  \/ history'[i].before = dayEnd.status[e]
                 \/ \E j \in LaterChanges(e)' : j < i
      <3> DEFINE m == WasAt(k, i)
      <3>1. m \in 1..n /\ history'[i] = history[m]
        BY <1>3, <2>2
      <3>2. history[m].before = dayEnd.status[e] \/ \E j \in LaterChanges(e) : j < m
        <4> HIDE DEF m
        <4> QED
          BY <1>1, <2>9, <3>1 DEF HistoryInv, DayInv
      <3>3. ASSUME NEW j \in LaterChanges(e), j < m
            PROVE  After(k, j) \in LaterChanges(e)' /\ After(k, j) < i
        BY <2>2, <2>5, <3>3
      <3> QED
        BY <3>1, <3>2, <3>3
    <2>10. DayInv'
      BY <2>1, <2>8, <2>9 DEF DayInv
    <2> QED
      BY <2>6, <2>7, <2>10 DEF HistoryInv
  <1> QED
    BY <1>2, <1>3, WithdrawnRows

\* A transaction is committed: its row becomes visible, and with it the new status.
LEMMA VisibleHistory ==
    ASSUME TypeInv, HistoryInv, NEW c \in Calls, NEW q \in Call, MovesTo(c, q), q.op = "NONE",
           q.pc \in {"over", "lost"}, Visible(c), dayEnd' = dayEnd,
           \A e \in People : \/ employee'[e].status = employee[e].status
                             \/ call[c].pc = "commit" /\ call[c].op = "STATUS" /\ call[c].subject = e
    PROVE  HistoryInv'
  <1> DEFINE n == Len(history)
  <1>1. /\ DOMAIN history = 1..n /\ n \in Nat
        /\ \A i \in 1..n : history[i].by \in Calls \cup {None} /\ history[i].employee \in People
        /\ None \notin Calls
    BY HistoryRows
  <1>2. /\ history' \in Seq(HistoryRow) /\ Len(history') = n
        /\ \A i \in 1..n : Shows(history[i], history'[i])
        /\ \A i \in 1..n : history'[i].by = IF history[i].by = c THEN None ELSE history[i].by
    BY VisibleRows
  <1>3. DOMAIN history' = 1..n
    BY <1>2
  <1> HIDE DEF n
  <1>4. \A i \in 1..n : history'[i].by # None => history[i].by \in Calls \ {c} /\ history'[i].by = history[i].by
    BY <1>1, <1>2
  <1>5. \A d \in Calls \ {c} : Same(call[d], call'[d])
    BY DEF MovesTo
  <1>6. \A e : LaterChanges(e) \subseteq LaterChanges(e)'
    BY <1>1, <1>2, <1>3 DEF LaterChanges, Shows
  <1>7. RowInv'
    <2>1. ASSUME NEW i \in 1..n, history'[i].by # None
          PROVE  WrittenBy(history'[i], call'[history'[i].by])
      <3>1. WrittenBy(history[i], call[history[i].by])
        BY <1>1, <1>4, <2>1 DEF HistoryInv, RowInv
      <3>2. WrittenBy(history[i], call'[history[i].by])
        BY <1>4, <1>5, <2>1, <3>1 DEF WrittenBy, Same
      <3> QED
        BY <1>2, <1>4, <2>1, <3>2 DEF WrittenBy, Shows
    <2>2. \A i, j \in 1..n : history'[i].by # None /\ history'[i].by = history'[j].by => i = j
      BY <1>1, <1>4 DEF HistoryInv, RowInv
    <2>3. ASSUME NEW d \in Calls, call'[d].pc = "commit", call'[d].op = "STATUS"
          PROVE  \E i \in 1..n : history'[i].by = d
      <3>1. d # c
        BY <2>3 DEF MovesTo
      <3>2. PICK i \in 1..n : history[i].by = d
        BY <1>1, <1>5, <2>3, <3>1 DEF HistoryInv, RowInv, Same
      <3> QED
        BY <1>2, <3>1, <3>2
    <2> QED
      BY <1>3, <2>1, <2>2, <2>3 DEF RowInv
  <1>8. LateInv'
    <2>1. ~dayEnd.passed => \A i \in 1..n : ~history'[i].late
      BY <1>1, <1>2 DEF HistoryInv, LateInv, Shows
    <2>2. dayEnd.passed => \A i \in 1..n :
             history'[i].by # None /\ history'[i].event = "STATUS" =>
                history'[i].late \/ history'[i].employee \in dayEnd.straddled
      BY <1>1, <1>2, <1>4 DEF HistoryInv, LateInv, Shows
    <2> QED
      BY <1>3, <2>1, <2>2 DEF LateInv
  <1>9. ASSUME dayEnd.passed, NEW e \in People \ dayEnd.straddled
        PROVE  employee'[e].status = dayEnd.status[e] \/ LaterChanges(e)' # {}
    <2>1. CASE employee'[e].status = employee[e].status
      <3>1. employee[e].status = dayEnd.status[e] \/ LaterChanges(e) # {}
        BY <1>9 DEF HistoryInv, DayInv
      <3> QED
        BY <1>6, <2>1, <3>1
    <2>2. CASE call[c].pc = "commit" /\ call[c].op = "STATUS" /\ call[c].subject = e
      <3>1. PICK i \in 1..n : history[i].by = c
        BY <1>1, <2>2 DEF HistoryInv, RowInv
      <3>2. WrittenBy(history[i], call[c])
        BY <1>1, <3>1 DEF HistoryInv, RowInv
      <3>3. history[i].event = "STATUS" /\ history[i].employee = e
        BY <2>2, <3>2 DEF WrittenBy
      <3>4. history[i].late
        BY <1>1, <1>9, <3>1, <3>3 DEF HistoryInv, LateInv
      <3>5. i \in LaterChanges(e)'
        BY <1>2, <1>3, <3>1, <3>3, <3>4 DEF LaterChanges, Shows
      <3> QED
        BY <3>5
    <2> QED
      BY <2>1, <2>2
  <1>10. ASSUME dayEnd.passed, NEW e \in People \ dayEnd.straddled, NEW d \in Calls,
                call'[d].pc = "begin", call'[d].op = "STATUS", call'[d].subject = e
         PROVE  call'[d].seen = dayEnd.status[e] \/ LaterChanges(e)' # {}
    <2>1. d # c
      BY <1>10 DEF MovesTo
    <2>2. call[d].seen = dayEnd.status[e] \/ LaterChanges(e) # {}
      BY <1>5, <1>10, <2>1 DEF HistoryInv, DayInv, Same
    <2> QED
      BY <1>5, <1>6, <2>1, <2>2 DEF Same
  <1>11. ASSUME dayEnd.passed, NEW e \in People \ dayEnd.straddled, NEW i \in 1..n,
                history'[i].employee = e, history'[i].event = "STATUS", history'[i].late
         PROVE  \/ history'[i].before = dayEnd.status[e]
                \/ \E j \in LaterChanges(e)' : j < i
    <2>1. history[i].before = dayEnd.status[e] \/ \E j \in LaterChanges(e) : j < i
      BY <1>1, <1>2, <1>11 DEF HistoryInv, DayInv, Shows
    <2> QED
      BY <1>2, <1>6, <2>1 DEF Shows
  <1>12. DayInv'
    BY <1>3, <1>9, <1>10, <1>11 DEF DayInv
  <1> QED
    BY <1>7, <1>8, <1>12 DEF HistoryInv

\* The day ends: every status is what it is, and no change is recorded after it yet.
LEMMA DayEndHistory ==
    ASSUME TypeInv, HistoryInv, EndOfDay
    PROVE  HistoryInv'
  <1>1. /\ ~dayEnd.passed /\ history' = history /\ call' = call /\ employee' = employee
        /\ dayEnd'.passed /\ dayEnd'.status = [e \in People |-> employee[e].status]
        /\ dayEnd'.straddled = {e \in People : \E c \in Calls :
                                  /\ call[c].op = "STATUS" /\ call[c].subject = e
                                  /\ call[c].pc \in {"begin", "commit"}}
    BY DEF EndOfDay
  <1>2. RowInv'
    BY <1>1 DEF HistoryInv, RowInv
  <1>3. \A i \in DOMAIN history : ~history[i].late
    BY <1>1 DEF HistoryInv, LateInv
  <1>4. ASSUME NEW i \in DOMAIN history, history[i].by # None, history[i].event = "STATUS"
        PROVE  history[i].employee \in dayEnd'.straddled
    <2> DEFINE c == history[i].by
    <2>1. c \in Calls /\ history[i].employee \in People
      BY <1>4, HistoryRows
    <2>2. WrittenBy(history[i], call[c])
      BY <1>4 DEF HistoryInv, RowInv
    <2>3. Stage(call[c])
      BY <2>1 DEF TypeInv, Stages
    <2> HIDE DEF c
    <2>4. call[c].op = "STATUS" /\ call[c].subject = history[i].employee /\ call[c].pc = "commit"
      BY <1>4, <2>2, <2>3 DEF WrittenBy, Stage
    <2> QED
      BY <1>1, <2>1, <2>4
  <1>5. LateInv'
    BY <1>1, <1>4 DEF LateInv
  <1>6. DayInv'
    <2>1. \A e \in People : employee'[e].status = dayEnd'.status[e]
      BY <1>1
    <2>2. \A e \in People \ dayEnd'.straddled, c \in Calls :
             ~(call'[c].pc = "begin" /\ call'[c].op = "STATUS" /\ call'[c].subject = e)
      BY <1>1
    <2>3. \A i \in DOMAIN history' : ~history'[i].late
      BY <1>1, <1>3
    <2> QED
      BY <2>1, <2>2, <2>3 DEF DayInv
  <1> QED
    BY <1>2, <1>5, <1>6 DEF HistoryInv

LEMMA HistoryKeeps ==
    ASSUME TypeInv, HistoryInv, Moves
    PROVE  HistoryInv'
  <1>1. ASSUME NEW c \in Calls, Quiet(c)
        PROVE  HistoryInv'
    <2>1. PICK q \in Call : Quietly(c, q)
      BY <1>1 DEF Quiet
    <2>2. /\ MovesTo(c, q) /\ history' = history /\ dayEnd' = dayEnd
          /\ \A e \in People : employee'[e].status = employee[e].status
          /\ call[c].pc \notin {"commit", "insert"} /\ q.pc # "commit"
          /\ q.pc = "begin" /\ q.op = "STATUS" => q.seen = employee[q.subject].status
      BY <2>1 DEF Quietly
    <2>3. \A i \in DOMAIN history : history[i].by # c
      BY <2>2, NoRowOf DEF HistoryInv
    <2> QED
      BY <2>2, <2>3, QuietHistory
  <1>2. ASSUME NEW c \in Calls, Begin(c)
        PROVE  HistoryInv'
    BY <1>2, BegunHistory DEF Begin
  <1>3. ASSUME NEW c \in Calls, Ends(c)
        PROVE  HistoryInv'
    <2>1. PICK q \in Call : MovesTo(c, q) /\ q.op = "NONE" /\ q.pc \in {"over", "lost"}
      BY <1>3 DEF Ends
    <2>2. CASE Withdrawn(c) /\ \A e \in People : employee'[e].status = employee[e].status
      BY <1>3, <2>1, <2>2, WithdrawnHistory DEF Ends
    <2>3. CASE /\ Visible(c)
               /\ \A e \in People :
                     \/ employee'[e].status = employee[e].status
                     \/ call[c].pc = "commit" /\ call[c].op = "STATUS" /\ call[c].subject = e
      BY <1>3, <2>1, <2>3, VisibleHistory DEF Ends
    <2> QED
      BY <1>3, <2>2, <2>3 DEF Ends
  <1>4. CASE UNCHANGED vars
    <2>1. \A e : LaterChanges(e)' = LaterChanges(e)
      BY <1>4 DEF vars, LaterChanges
    <2> QED
      BY <1>4, <2>1 DEF vars, HistoryInv, RowInv, LateInv, DayInv
  <1> QED
    BY <1>1, <1>2, <1>3, <1>4, DayEndHistory DEF Moves

\* The first of the changes recorded after the day.
LEMMA FirstLaterChange ==
    ASSUME TypeInv, NEW e, LaterChanges(e) # {}
    PROVE  /\ Min(LaterChanges(e)) \in LaterChanges(e)
           /\ \A j \in LaterChanges(e) : Min(LaterChanges(e)) <= j
  <1> DEFINE R == {p \in Nat \X Nat : p[1] < p[2]}
             S == LaterChanges(e)
  <1>1. IsWellFoundedOn(R, Nat)
    BY NatLessThanWellFounded DEF OpToRel
  <1>2. S \subseteq Nat /\ S # {}
    BY HistoryRows DEF LaterChanges
  <1>3. PICK x \in S : \A y \in S : ~(<<y, x>> \in R)
    <2> HIDE DEF R, S
    <2> QED
      BY <1>1, <1>2, WFMin
  <1> HIDE DEF S
  <1>4. ASSUME NEW y \in S
        PROVE  x <= y
    <2>1. x \in Nat /\ y \in Nat
      BY <1>2
    <2>2. ~(<<y, x>> \in R)
      BY <1>3
    <2>3. ~(y < x)
      BY <2>1, <2>2
    <2> QED
      BY <2>1, <2>3
  <1>5. Min(S) \in S /\ \A y \in S : Min(S) <= y
    BY <1>4 DEF Min
  <1> QED
    BY <1>5 DEF S

\* The scheduled job judges eligibility by the status an employee had when the work
\* date ended, however many changes overlap afterwards, unless one had read the old
\* status before that moment: the first change that became visible after the day has
\* read the status of that moment, since whatever else it could have read became
\* visible even earlier and is recorded earlier.
THEOREM StatusOfTheDayIsFound == Spec => []StatusAsOfDayEndIsRight
  <1>1. Init => HistoryInv
    BY InitRight
  <1>2. TypeInv /\ HistoryInv /\ [Next]_vars => HistoryInv'
    BY NextMoves, HistoryKeeps
  <1>3. TypeInv /\ HistoryInv => StatusAsOfDayEndIsRight
    <2> SUFFICES ASSUME TypeInv, HistoryInv, dayEnd.passed, NEW e \in Present \ dayEnd.straddled
                 PROVE  StatusAsOfDayEnd(e) = dayEnd.status[e]
      BY DEF StatusAsOfDayEndIsRight
    <2>1. e \in People \ dayEnd.straddled
      BY DEF Present
    <2>2. CASE LaterChanges(e) = {}
      BY <2>1, <2>2 DEF HistoryInv, DayInv, StatusAsOfDayEnd
    <2>3. CASE LaterChanges(e) # {}
      <3> DEFINE i == Min(LaterChanges(e))
      <3>1. i \in LaterChanges(e) /\ \A j \in LaterChanges(e) : i <= j
        BY <2>3, FirstLaterChange
      <3>2. StatusAsOfDayEnd(e) = history[i].before
        BY <2>3 DEF StatusAsOfDayEnd
      <3> HIDE DEF i
      <3>3. /\ i \in DOMAIN history /\ history[i].employee = e
            /\ history[i].event = "STATUS" /\ history[i].late
        BY <3>1 DEF LaterChanges
      <3>4. \A j \in LaterChanges(e) : ~(j < i)
        BY <3>1, HistoryRows DEF LaterChanges
      <3>5. history[i].before = dayEnd.status[e]
        BY <2>1, <3>3, <3>4 DEF HistoryInv, DayInv
      <3> QED
        BY <3>2, <3>5
    <2> QED
      BY <2>2, <2>3
  <1> QED
    BY <1>1, <1>2, <1>3, EmployeesTyped, PTL DEF Spec
-----------------------------------------------------------------------------
(* What the checks of a call are worth                                     *)

\* The other calls stay where they are; none forgets that it is outdated.
Leaves(c) ==
    \A d \in Calls \ {c} : Same(call[d], call'[d]) /\ (call[d].outdated => call'[d].outdated)

\* The write of c concerns these calls, and whichever of them has checked something
\* is told.
Tells(c, concern) ==
    /\ Concern(call[c].op) = concern
    /\ \A d \in Calls \ {c} :
          HasChecked(d) /\ Concern(call[d].op) = concern => call'[d].outdated

\* Nobody comes, goes to another manager or is archived.
LineKept ==
    \A e \in People : /\ employee'[e].present = employee[e].present
                      /\ employee'[e].manager = employee[e].manager
                      /\ employee'[e].archived = employee[e].archived

\* Nobody's onboarding goes on.
BoardKept ==
    checklist' = checklist /\ \A e \in People : employee'[e].onboarding = employee[e].onboarding

\* A step that contradicts nobody's checks without telling, and whose own call is
\* as well founded as before.
Steady(c) ==
    /\ Leaves(c)
    /\ LineKept \/ Tells(c, "line")
    /\ BoardKept \/ Tells(c, "onboarding")
    /\ Founded(call[c])'

\* How WriteAs tells.
LEMMA Telling ==
    ASSUME TypeInv, NEW c \in Calls, NEW q, Become(c, q) \/ WriteAs(c, q)
    PROVE  /\ Leaves(c) /\ call'[c] = q
           /\ WriteAs(c, q) => Tells(c, Concern(call[c].op))
  <1>1. CASE WriteAs(c, q)
    <2> DEFINE told(d) == call[d].outdated \/ (HasChecked(d) /\ Concern(call[d].op) = Concern(call[c].op))
               other(d) == [call[d] EXCEPT !.outdated = told(d)]
    <2>1. call' = [d \in Calls |-> IF d = c THEN q ELSE other(d)]
      BY <1>1 DEF WriteAs
    <2>2. ASSUME NEW d \in Calls
          PROVE  Same(call[d], other(d)) /\ other(d).outdated = told(d)
      <3>1. call[d] \in Call
        BY DEF TypeInv, TypeOK
      <3> HIDE DEF told
      <3> QED
        BY <3>1 DEF Call, Same
    <2>3. ASSUME NEW d \in Calls \ {c}
          PROVE  Same(call[d], call'[d]) /\ call'[d].outdated = told(d)
      <3>1. call'[d] = other(d)
        BY <2>1
      <3> HIDE DEF other
      <3> QED
        BY <2>2, <3>1
    <2>4. call'[c] = q
      BY <2>1
    <2>5. Leaves(c) /\ Tells(c, Concern(call[c].op))
      BY <2>3, Zenon DEF Leaves, Tells
    <2> QED
      BY <2>4, <2>5
  <1>2. CASE Become(c, q) /\ ~WriteAs(c, q)
    BY <1>2 DEF Become, Leaves, Same, TypeInv, TypeOK
  <1> QED
    BY <1>1, <1>2

\* Whoever's checks a step contradicts is told, so what the others have found holds.
LEMMA SteadyKeeps ==
    ASSUME TypeInv, CheckInv, NEW c \in Calls, Steady(c)
    PROVE  CheckInv'
  <1> SUFFICES ASSUME NEW d \in Calls \ {c} PROVE Founded(call[d])'
    BY DEF CheckInv, Steady
  <1> DEFINE p == call[d]
             q == call'[d]
  <1>1. /\ q.pc = p.pc /\ q.op = p.op /\ q.subject = p.subject /\ q.to = p.to /\ q.seen = p.seen
        /\ p.outdated => q.outdated
    BY DEF Steady, Leaves, Same
  <1>2. Founded(p) /\ Stage(p)
    BY DEF CheckInv, TypeInv, Stages
  <1>3. ASSUME Tells(c, "line"), p.op \in {"ASSIGN", "CREATE", "ARCHIVE"},
               p.pc \in {"walk", "begin", "commit", "issue", "insert"}
        PROVE  q.outdated
    BY <1>3 DEF Tells, HasChecked, Concern
  <1>4. ASSUME Tells(c, "onboarding"), p.op = "TASK",
               p.pc \in {"find", "toggle", "remaining", "progress", "stamp", "settle"}
        PROVE  q.outdated
    BY <1>4 DEF Tells, HasChecked, Concern
  <1> HIDE DEF p, q
  <1>5. ASSUME ~q.outdated, q.op \in {"ASSIGN", "CREATE"}, q.to # None,
               q.pc \in {"walk", "begin", "commit", "issue", "insert"}
        PROVE  ~employee'[q.to].archived
    <2>1. LineKept
      BY <1>1, <1>3, <1>5 DEF Steady
    <2>2. p.to \in People
      BY <1>1, <1>2, <1>5 DEF Stage
    <2> QED
      BY <1>1, <1>2, <1>5, <2>1, <2>2 DEF Founded, LineKept
  <1>6. ASSUME ~q.outdated, q.op = "ARCHIVE", q.pc = "commit",
               NEW e \in Present', employee'[e].manager = q.subject
        PROVE  employee'[e].archived
    <2>1. LineKept
      BY <1>1, <1>3, <1>6 DEF Steady
    <2>2. e \in Present
      BY <2>1 DEF Present, LineKept
    <2> QED
      BY <1>1, <1>2, <1>6, <2>1, <2>2 DEF Founded, LineKept, Present
  <1>7. ASSUME ~q.outdated, q.op = "TASK"
        PROVE  LET l == checklist'[q.subject]
               IN  /\ q.pc \in {"find", "toggle", "remaining"} =>
                         q.seen = employee'[q.subject].onboarding
                   /\ q.pc \in {"toggle", "remaining", "progress", "stamp", "settle"} =>
                         q.to \in l.tasks
                   /\ q.pc = "progress" => l.done # l.tasks
                   /\ q.pc \in {"stamp", "settle"} => l.done = l.tasks
    <2>1. CASE q.pc \notin {"find", "toggle", "remaining", "progress", "stamp", "settle"}
      BY <2>1
    <2>2. CASE q.pc \in {"find", "toggle", "remaining", "progress", "stamp", "settle"}
      <3>1. BoardKept
        BY <1>1, <1>4, <1>7, <2>2 DEF Steady
      <3>2. p.subject \in People
        BY <1>1, <1>2, <1>7 DEF Stage
      <3>3. /\ checklist'[q.subject] = checklist[p.subject]
            /\ employee'[q.subject].onboarding = employee[p.subject].onboarding
        BY <1>1, <3>1, <3>2 DEF BoardKept
      <3> QED
        BY <1>1, <1>2, <1>7, <3>3 DEF Founded
    <2> QED
      BY <2>1, <2>2
  <1> QED
    BY <1>5, <1>6, <1>7 DEF Founded, p, q

\* A step that writes no employee and no checklist.
LEMMA StaysSteady ==
    ASSUME TypeInv, NEW c \in Calls, NEW q, Become(c, q) \/ WriteAs(c, q), Founded(q),
           UNCHANGED <<employee, checklist>>
    PROVE  Steady(c)
  <1>1. Leaves(c) /\ call'[c] = q
    BY Telling
  <1>2. LineKept /\ BoardKept
    BY DEF LineKept, BoardKept
  <1>3. Founded(call[c])'
    BY <1>1 DEF Founded, Present
  <1> QED
    BY <1>1, <1>2, <1>3 DEF Steady

\* A request that has checked nothing yet, or checks nothing of the kind.
Plain(q) ==
    \/ q.pc \in {"new", "read", "scope", "manager", "count", "checklist", "tasks", "occupied",
                 "write", "over", "lost"}
    \/ q.op \in {"PLACE", "STATUS", "START", "MOVE", "SWITCH", "NONE"}
    \/ q.op \in {"ASSIGN", "CREATE"} /\ q.to = None

LEMMA PlainFounded ==
    ASSUME NEW q, Plain(q)
    PROVE  Founded(q)
  <1>1. CASE q.pc \in {"new", "read", "scope", "manager", "count", "checklist", "tasks", "occupied",
                       "write", "over", "lost"}
    BY <1>1 DEF Founded
  <1>2. CASE q.op \in {"PLACE", "STATUS", "START", "MOVE", "SWITCH", "NONE"}
    BY <1>2 DEF Founded
  <1>3. CASE q.op \in {"ASSIGN", "CREATE"} /\ q.to = None
    BY <1>3 DEF Founded
  <1> QED
    BY <1>1, <1>2, <1>3 DEF Plain

\* A call that ends, in one way or another, without a write of its own.
LEMMA EndsSteadily ==
    ASSUME TypeInv, NEW c \in Calls, Finish(c) \/ Become(c, [Fresh EXCEPT !.pc = "lost"]),
           UNCHANGED <<employee, checklist>>
    PROVE  Steady(c)
  <1> DEFINE lost == [Fresh EXCEPT !.pc = "lost"]
  <1>1. Plain(Over) /\ Plain(lost)
    BY FreshTyped DEF Plain
  <1> HIDE DEF lost
  <1>2. Founded(Over) /\ Founded(lost)
    BY <1>1, PlainFounded
  <1> QED
    BY <1>2, StaysSteady DEF Finish, lost

\* A request has checked nothing when it arrives.
LEMMA RequestSteady ==
    ASSUME TypeInv, NEW c \in Calls, Request(c)
    PROVE  Steady(c)
  <1>1. Fresh \in Call /\ call \in [Calls -> Call]
    BY FreshTyped DEF TypeInv, TypeOK
  <1>2. ASSUME NEW q, Arrive(c, q), Plain(q)
        PROVE  Steady(c)
    <2>1. Become(c, q) /\ UNCHANGED <<employee, checklist>>
      BY <1>2 DEF Arrive
    <2> QED
      BY <1>2, <2>1, PlainFounded, StaysSteady
  <1>3. ASSUME NEW e, NEW lead, NEW op, NEW to, ArriveUpdate(c, e, lead, op, to)
        PROVE  Steady(c)
    <2> DEFINE q == [Fresh EXCEPT !.pc = "read", !.op = op, !.subject = e, !.lead = lead, !.to = to]
    <2>1. Plain(q)
      BY <1>1 DEF Plain, Call
    <2> QED
      BY <1>2, <1>3, <2>1 DEF ArriveUpdate
  <1>4. ASSUME NEW e, NEW s, ArriveStatus(c, e, s)
        PROVE  Steady(c)
    <2> DEFINE q == [Fresh EXCEPT !.pc = "read", !.op = "STATUS", !.subject = e, !.to = s]
    <2>1. Plain(q)
      BY <1>1 DEF Plain, Call
    <2> QED
      BY <1>2, <1>4, <2>1 DEF ArriveStatus
  <1>5. ASSUME NEW e, ArriveArchive(c, e)
        PROVE  Steady(c)
    <2> DEFINE q == [Fresh EXCEPT !.pc = "read", !.op = "ARCHIVE", !.subject = e]
    <2>1. Plain(q)
      BY <1>1 DEF Plain, Call
    <2> QED
      BY <1>2, <1>5, <2>1 DEF ArriveArchive
  <1>6. ASSUME NEW e, ArriveStart(c, e)
        PROVE  Steady(c)
    <2> DEFINE q == [Fresh EXCEPT !.pc = "read", !.op = "START", !.subject = e]
    <2>1. Plain(q)
      BY <1>1 DEF Plain, Call
    <2> QED
      BY <1>2, <1>6, <2>1 DEF ArriveStart
  <1>7. ASSUME NEW e, NEW t, NEW done, ArriveTask(c, e, t, done)
        PROVE  Steady(c)
    <2> DEFINE q == [Fresh EXCEPT !.pc = "read", !.op = "TASK", !.subject = e, !.to = t, !.flag = done]
    <2>1. Plain(q)
      BY <1>1 DEF Plain, Call
    <2> QED
      BY <1>2, <1>7, <2>1 DEF ArriveTask
  <1>8. ASSUME NEW n, NEW m, ArriveCreate(c, n, m)
        PROVE  Steady(c)
    <2> DEFINE first == IF m = None THEN "issue" ELSE "manager"
               q == [Fresh EXCEPT !.pc = first, !.op = "CREATE", !.subject = n, !.to = m]
    <2>1. q.pc = first /\ q.op = "CREATE" /\ q.to = m
      BY <1>1 DEF Call
    <2>2. Plain(q)
      BY <2>1 DEF Plain
    <2> QED
      BY <1>2, <1>8, <2>2 DEF ArriveCreate
  <1>9. ASSUME NEW d, NEW p, ArriveMove(c, d, p)
        PROVE  Steady(c)
    <2> DEFINE first == IF p = None THEN "write" ELSE "walk"
               q == [Fresh EXCEPT !.pc = first, !.op = "MOVE", !.subject = d, !.to = p, !.at = p]
    <2>1. q.op = "MOVE"
      BY <1>1 DEF Call
    <2>2. Plain(q)
      BY <2>1 DEF Plain
    <2> QED
      BY <1>2, <1>9, <2>2 DEF ArriveMove
  <1>10. ASSUME NEW u, NEW kind, NEW active, ArriveSwitch(c, u, kind, active)
         PROVE  Steady(c)
    <2> DEFINE first == IF active THEN "write" ELSE "occupied"
               q == [Fresh EXCEPT !.pc = first, !.op = "SWITCH", !.subject = u, !.flag = active]
    <2>1. q.op = "SWITCH"
      BY <1>1 DEF Call
    <2>2. Plain(q)
      BY <2>1 DEF Plain
    <2> QED
      BY <1>2, <1>10, <2>2 DEF ArriveSwitch
  <1> HIDE DEF Steady
  <1> QED
    BY <1>3, <1>4, <1>5, <1>6, <1>7, <1>8, <1>9, <1>10, Zenon
    DEF Request, SetDepartmentActive, SetDesignationActive, SetBranchActive

\* A call that only goes on to its next statement.
LEMMA GoesSteadily ==
    ASSUME TypeInv, NEW c \in Calls, NEW pc, Goto(c, pc),
           UNCHANGED <<employee, checklist>>,
           \A q \in Call : (/\ q.pc = pc /\ q.op = call[c].op /\ q.subject = call[c].subject
                            /\ q.to = call[c].to /\ q.seen = call[c].seen
                            /\ q.outdated = call[c].outdated) => Founded(q),
           pc \in Pcs
    PROVE  Steady(c)
  <1> DEFINE q == [call[c] EXCEPT !.pc = pc]
  <1>1. call[c] \in Call
    BY DEF TypeInv, TypeOK
  <1>2. /\ q \in Call /\ q.pc = pc /\ q.op = call[c].op /\ q.subject = call[c].subject
        /\ q.to = call[c].to /\ q.seen = call[c].seen /\ q.outdated = call[c].outdated
    BY <1>1 DEF Call
  <1>3. Become(c, q)
    BY DEF Goto
  <1> HIDE DEF q
  <1>4. Founded(q)
    BY <1>2
  <1> QED
    BY <1>3, <1>4, StaysSteady

\* The first read: what it finds is what there is.
LEMMA ReadSteady ==
    ASSUME TypeInv, NEW c \in Calls, ReadEmployee(c)
    PROVE  Steady(c)
  <1> DEFINE p == call[c]
             e == employee[p.subject]
             found == CASE p.op = "ASSIGN" -> e.manager
                        [] p.op = "PLACE" -> e.unit[FieldOf(p.to)]
                        [] p.op = "STATUS" -> e.status
                        [] p.op = "TASK" -> e.onboarding
                        [] OTHER -> None
             next == CASE p.op \in {"ASSIGN", "PLACE"} /\ p.lead # None -> "scope"
                       [] p.op = "ASSIGN" /\ p.to # None -> "manager"
                       [] p.op = "ARCHIVE" -> "count"
                       [] p.op \in {"START", "TASK"} -> "find"
                       [] OTHER -> "begin"
             q == [p EXCEPT !.seen = found, !.pc = next]
  <1>1. p \in Call /\ Stage(p)
    BY DEF TypeInv, TypeOK, Stages
  <1>2. p.pc = "read" /\ Become(c, q) /\ UNCHANGED <<employee, checklist>>
    BY DEF ReadEmployee
  <1>3. p.op = "TASK" => found = employee[p.subject].onboarding
    OBVIOUS
  <1>4. p.op \in {"ASSIGN", "PLACE", "STATUS", "ARCHIVE", "START", "TASK"}
    BY <1>1, <1>2 DEF Stage
  <1>5. /\ p.op = "ASSIGN" => p.to = None \/ next \in {"scope", "manager"}
        /\ p.op = "ARCHIVE" => next = "count"
        /\ p.op \in {"START", "TASK"} => next = "find"
    BY <1>4
  <1> HIDE DEF found, next
  <1>6. q.seen = found /\ q.pc = next /\ q.op = p.op /\ q.subject = p.subject /\ q.to = p.to
    BY <1>1 DEF Call
  <1> HIDE DEF q, p
  <1>7. CASE p.op = "TASK"
    <2>1. Founded(q)
      BY <1>3, <1>5, <1>6, <1>7 DEF Founded
    <2> QED
      BY <1>2, <2>1, StaysSteady
  <1>8. CASE p.op # "TASK"
    <2>1. Plain(q)
      BY <1>4, <1>5, <1>6, <1>8 DEF Plain
    <2> QED
      BY <1>2, <2>1, PlainFounded, StaysSteady
  <1> QED
    BY <1>7, <1>8

\* Whom a MANAGER may place is checked before anything else.
LEMMA ScopeSteady ==
    ASSUME TypeInv, NEW c \in Calls, AssertManagerMayChange(c)
    PROVE  Steady(c)
  <1> DEFINE p == call[c]
             next == IF p.op = "ASSIGN" /\ p.to # None THEN "manager" ELSE "begin"
  <1>1. p \in Call /\ Stage(p)
    BY DEF TypeInv, TypeOK, Stages
  <1>2. p.pc = "scope" /\ UNCHANGED <<employee, checklist>> /\ (Finish(c) \/ Goto(c, next))
    BY Zenon DEF AssertManagerMayChange
  <1>3. p.op \in {"ASSIGN", "PLACE"}
    BY <1>1, <1>2 DEF Stage
  <1>4. next \in Pcs
    BY DEF Pcs
  <1>5. ASSUME NEW q \in Call, q.pc = next, q.op = p.op, q.to = p.to
        PROVE  Founded(q)
    <2>1. Plain(q)
      BY <1>3, <1>5 DEF Plain
    <2> QED
      BY <2>1, PlainFounded
  <1> HIDE DEF next
  <1> QED
    BY <1>2, <1>4, <1>5, EndsSteadily, GoesSteadily

\* The manager is found not to be archived.
LEMMA ManagerSteady ==
    ASSUME TypeInv, NEW c \in Calls, AssertValidManager(c)
    PROVE  Steady(c)
  <1> DEFINE p == call[c]
             next == IF p.op = "CREATE" THEN "issue" ELSE "walk"
             q == [p EXCEPT !.pc = next, !.at = p.to]
  <1>1. p \in Call /\ Stage(p)
    BY DEF TypeInv, TypeOK, Stages
  <1>2. /\ p.pc = "manager" /\ UNCHANGED <<employee, checklist>>
        /\ Finish(c) \/ (~employee[p.to].archived /\ Become(c, q))
    BY Zenon DEF AssertValidManager
  <1>3. p.op \in {"ASSIGN", "CREATE"}
    BY <1>1, <1>2 DEF Stage
  <1>4. q.pc = next /\ q.op = p.op /\ q.to = p.to /\ q.subject = p.subject
    BY <1>1 DEF Call
  <1> HIDE DEF q, next
  <1>5. CASE ~employee[p.to].archived /\ Become(c, q)
    <2>1. Founded(q)
      BY <1>3, <1>4, <1>5 DEF Founded
    <2> QED
      BY <1>2, <1>5, <2>1, StaysSteady
  <1> QED
    BY <1>2, <1>5, EndsSteadily

\* The walk changes nothing of what the manager was found to be.
LEMMA WalkSteady ==
    ASSUME TypeInv, CheckInv, NEW c \in Calls, Walk(c)
    PROVE  Steady(c)
  <1> DEFINE p == call[c]
             next == IF p.op = "MOVE" THEN "write" ELSE "begin"
             q == [p EXCEPT !.visited = @ \cup {p.at}, !.at = Up(p.at)]
  <1>1. p \in Call /\ Stage(p) /\ Founded(p)
    BY DEF TypeInv, TypeOK, Stages, CheckInv
  <1>2. /\ p.pc = "walk" /\ UNCHANGED <<employee, checklist>>
        /\ Finish(c) \/ Goto(c, next) \/ Become(c, q)
    BY Zenon DEF Walk
  <1>3. p.op \in {"ASSIGN", "MOVE"}
    BY <1>1, <1>2 DEF Stage
  <1>4. next \in Pcs
    BY DEF Pcs
  <1>5. ASSUME NEW r, r.pc \in {"walk", next}, r.op = p.op, r.subject = p.subject, r.to = p.to,
               r.outdated = p.outdated
        PROVE  Founded(r)
    BY <1>1, <1>2, <1>3, <1>5 DEF Founded
  <1>6. q.pc = "walk" /\ q.op = p.op /\ q.subject = p.subject /\ q.to = p.to /\ q.outdated = p.outdated
    BY <1>1, <1>2 DEF Call
  <1> HIDE DEF next, q
  <1>7. CASE Become(c, q)
    <2>1. Founded(q)
      BY <1>5, <1>6
    <2> QED
      BY <1>2, <1>7, <2>1, StaysSteady
  <1> QED
    BY <1>2, <1>4, <1>5, <1>7, EndsSteadily, GoesSteadily

\* A transaction begins: an archival when nobody active reports to the employee.
LEMMA BeginSteady ==
    ASSUME TypeInv, CheckInv, NEW c \in Calls, BeginUpdate(c) \/ CountActiveDirectReports(c)
    PROVE  Steady(c)
  <1> DEFINE p == call[c]
  <1>1. p \in Call /\ Stage(p) /\ Founded(p)
    BY DEF TypeInv, TypeOK, Stages, CheckInv
  <1>2. /\ UNCHANGED <<employee, checklist>>
        /\ \/ Finish(c)
           \/ p.pc = "begin" /\ Goto(c, "commit")
           \/ p.pc = "count" /\ Reports(p.subject) = {} /\ Goto(c, "commit")
    BY Zenon DEF BeginUpdate, CountActiveDirectReports
  <1>3. /\ p.pc = "begin" => p.op \in {"ASSIGN", "PLACE", "STATUS"}
        /\ p.pc = "count" => p.op = "ARCHIVE"
    BY <1>1 DEF Stage
  <1>4. ASSUME NEW q, q.pc = "commit", q.op = p.op, q.subject = p.subject, q.to = p.to,
               q.outdated = p.outdated, p.pc = "begin" \/ (p.pc = "count" /\ Reports(p.subject) = {})
        PROVE  Founded(q)
    BY <1>1, <1>3, <1>4 DEF Founded, Reports
  <1>5. "commit" \in Pcs
    BY DEF Pcs
  <1> QED
    BY <1>2, <1>4, <1>5, EndsSteadily, GoesSteadily

\* A number is issued.
LEMMA IssueSteady ==
    ASSUME TypeInv, CheckInv, NEW c \in Calls, IssueNextNumber(c)
    PROVE  Steady(c)
  <1> DEFINE p == call[c]
             q == [p EXCEPT !.pc = "insert", !.number = counter]
  <1>1. p \in Call /\ Stage(p) /\ Founded(p)
    BY DEF TypeInv, TypeOK, Stages, CheckInv
  <1>2. p.pc = "issue" /\ Become(c, q) /\ UNCHANGED <<employee, checklist>>
    BY DEF IssueNextNumber
  <1>3. /\ q.pc = "insert" /\ q.op = p.op /\ q.subject = p.subject /\ q.to = p.to
        /\ q.outdated = p.outdated
    BY <1>1 DEF Call
  <1>4. p.op = "CREATE"
    BY <1>1, <1>2 DEF Stage
  <1> HIDE DEF q
  <1>5. Founded(q)
    BY <1>1, <1>2, <1>3, <1>4 DEF Founded
  <1> QED
    BY <1>2, <1>5, StaysSteady

\* The task is found, or counted, as it is.
LEMMA LookSteady ==
    ASSUME TypeInv, CheckInv, NEW c \in Calls,
           FindOnboarding(c) \/ CountIncomplete(c) \/ ExistsActiveIn(c)
    PROVE  Steady(c)
  <1> DEFINE p == call[c]
             l == checklist[p.subject]
  <1>1. p \in Call /\ Stage(p) /\ Founded(p)
    BY DEF TypeInv, TypeOK, Stages, CheckInv
  <1>2. /\ UNCHANGED <<employee, checklist>>
        /\ \/ Finish(c)
           \/ p.pc = "find" /\ p.op = "START" /\ Goto(c, "checklist")
           \/ p.pc = "find" /\ p.op # "START" /\ p.to \in l.tasks /\ Goto(c, "toggle")
           \/ p.pc = "remaining" /\ l.tasks = l.done /\ Goto(c, "stamp")
           \/ p.pc = "remaining" /\ l.tasks # l.done /\ Goto(c, "progress")
           \/ p.pc = "occupied" /\ Goto(c, "write")
    BY Zenon DEF FindOnboarding, CountIncomplete, ExistsActiveIn
  <1>3. /\ p.pc = "find" => p.op \in {"START", "TASK"}
        /\ p.pc = "remaining" => p.op = "TASK"
    BY <1>1 DEF Stage
  <1>4. ASSUME NEW pc \in {"checklist", "toggle", "stamp", "progress", "write"}, Goto(c, pc),
               \/ pc \in {"checklist", "write"}
               \/ p.pc = "find" /\ p.op # "START" /\ p.to \in l.tasks /\ pc = "toggle"
               \/ p.pc = "remaining" /\ l.tasks = l.done /\ pc = "stamp"
               \/ p.pc = "remaining" /\ l.tasks # l.done /\ pc = "progress"
        PROVE  Steady(c)
    <2>1. ASSUME NEW q, q.pc = pc, q.op = p.op, q.subject = p.subject, q.to = p.to,
                 q.seen = p.seen, q.outdated = p.outdated
          PROVE  Founded(q)
      <3>1. CASE pc \in {"checklist", "write"}
        BY <2>1, <3>1, PlainFounded DEF Plain
      <3>2. CASE pc \in {"toggle", "stamp", "progress"}
        <4>1. p.op = "TASK"
          BY <1>3, <1>4, <3>2
        <4> QED
          BY <1>1, <1>4, <2>1, <3>2, <4>1 DEF Founded
      <3> QED
        BY <3>1, <3>2
    <2>2. pc \in Pcs
      BY DEF Pcs
    <2> QED
      BY <1>2, <1>4, <2>1, <2>2, GoesSteadily
  <1> QED
    BY <1>2, <1>4, EndsSteadily

-----------------------------------------------------------------------------
(* The steps that write                                                    *)

\* A write of the reporting line or of a placement, or of what a checklist says.
LEMMA WritesSteadily ==
    ASSUME TypeInv, NEW c \in Calls, NEW q, WriteAs(c, q),
           LineKept \/ Concern(call[c].op) = "line",
           BoardKept \/ Concern(call[c].op) = "onboarding",
           q.op = "NONE" \/ q.op = "START" \/ Founded(call[c])'
    PROVE  Steady(c)
  <1>1. Leaves(c) /\ call'[c] = q /\ Tells(c, Concern(call[c].op))
    BY Telling
  <1>2. Founded(call[c])'
    BY <1>1 DEF Founded
  <1> QED
    BY <1>1, <1>2 DEF Steady

\* What each update leaves of an employee.
LEMMA UpdatedKeeps ==
    ASSUME NEW e \in Employee, NEW q \in Call, Stage(q), q.pc = "commit"
    PROVE  LET n == Updated(e, q)
           IN  /\ n.present = e.present /\ n.onboarding = e.onboarding
               /\ n.manager = IF q.op = "ASSIGN" THEN q.to ELSE e.manager
               /\ q.op # "ARCHIVE" => n.archived = e.archived
               /\ q.op = "ARCHIVE" => n.archived
  <1>1. q.op \in {"ASSIGN", "PLACE", "STATUS", "ARCHIVE"}
    BY DEF Stage
  <1>2. CASE q.op = "ASSIGN"
    BY <1>2 DEF Updated, Employee
  <1>3. CASE q.op = "PLACE"
    <2> DEFINE k == FieldOf(q.to)
    <2>1. Updated(e, q) = [e EXCEPT !.unit[k] = q.to]
      BY <1>3 DEF Updated
    <2> HIDE DEF k
    <2> QED
      BY <1>3, <2>1 DEF Employee
  <1>4. CASE q.op = "STATUS"
    BY <1>4 DEF Updated, Employee
  <1>5. CASE q.op = "ARCHIVE"
    BY <1>5 DEF Updated, Employee
  <1> QED
    BY <1>1, <1>2, <1>3, <1>4, <1>5

\* An update, as a step of the table of employees.
LEMMA CommitWrites ==
    ASSUME TypeInv, NEW c \in Calls, Commit(c)
    PROVE  LET q == call[c]
           IN  /\ q.pc = "commit" /\ q.op \in {"ASSIGN", "PLACE", "STATUS", "ARCHIVE"}
               /\ q.subject \in People /\ WriteAs(c, Over) /\ checklist' = checklist
               /\ \A e \in People :
                     /\ employee'[e].present = employee[e].present
                     /\ employee'[e].onboarding = employee[e].onboarding
                     /\ employee'[e].manager =
                           IF e = q.subject /\ q.op = "ASSIGN" THEN q.to ELSE employee[e].manager
                     /\ ~(e = q.subject /\ q.op = "ARCHIVE") =>
                           employee'[e].archived = employee[e].archived
                     /\ e = q.subject /\ q.op = "ARCHIVE" => employee'[e].archived
  <1> DEFINE q == call[c]
  <1>1. q \in Call /\ Stage(q) /\ employee \in [People -> Employee]
    BY DEF TypeInv, TypeOK, Stages
  <1>2. /\ q.pc = "commit" /\ WriteAs(c, Over) /\ checklist' = checklist
        /\ employee' = [employee EXCEPT ![q.subject] = Updated(@, q)]
    BY Zenon DEF Commit
  <1>3. q.op \in {"ASSIGN", "PLACE", "STATUS", "ARCHIVE"} /\ q.subject \in People
    BY <1>1, <1>2 DEF Stage
  <1>4. /\ employee'[q.subject] = Updated(employee[q.subject], q)
        /\ \A e \in People \ {q.subject} : employee'[e] = employee[e]
    BY <1>1, <1>2, <1>3
  <1> DEFINE n == Updated(employee[q.subject], q)
             o == employee[q.subject]
  <1>5. /\ n.present = o.present /\ n.onboarding = o.onboarding
        /\ n.manager = IF q.op = "ASSIGN" THEN q.to ELSE o.manager
        /\ q.op # "ARCHIVE" => n.archived = o.archived
        /\ q.op = "ARCHIVE" => n.archived
    BY <1>1, <1>2, <1>3, UpdatedKeeps
  <1> HIDE DEF q
  <1>6. ASSUME NEW e \in People
        PROVE  /\ employee'[e].present = employee[e].present
               /\ employee'[e].onboarding = employee[e].onboarding
               /\ employee'[e].manager =
                     IF e = q.subject /\ q.op = "ASSIGN" THEN q.to ELSE employee[e].manager
               /\ ~(e = q.subject /\ q.op = "ARCHIVE") =>
                     employee'[e].archived = employee[e].archived
               /\ e = q.subject /\ q.op = "ARCHIVE" => employee'[e].archived
    <2>1. CASE e = q.subject
      <3>1. employee'[e] = n /\ employee[e] = o
        BY <1>4, <2>1
      <3> HIDE DEF n, o
      <3> QED
        BY <1>5, <2>1, <3>1
    <2>2. CASE e # q.subject
      BY <1>4, <2>2
    <2> QED
      BY <2>1, <2>2
  <1> QED
    BY <1>2, <1>3, <1>6 DEF q

LEMMA CommitSteady ==
    ASSUME TypeInv, NEW c \in Calls, Commit(c)
    PROVE  Steady(c)
  <1> DEFINE q == call[c]
  <1>1. /\ q.op \in {"ASSIGN", "PLACE", "STATUS", "ARCHIVE"}
        /\ WriteAs(c, Over) /\ checklist' = checklist
        /\ \A e \in People :
              /\ employee'[e].present = employee[e].present
              /\ employee'[e].onboarding = employee[e].onboarding
              /\ q.op # "ASSIGN" => employee'[e].manager = employee[e].manager
              /\ q.op # "ARCHIVE" => employee'[e].archived = employee[e].archived
    BY CommitWrites
  <1>2. BoardKept
    BY <1>1 DEF BoardKept
  <1>3. LineKept \/ Concern(q.op) = "line"
    BY <1>1 DEF LineKept, Concern
  <1> QED
    BY <1>1, <1>2, <1>3, FreshTyped, WritesSteadily

\* A creation: refused, or a new employee of the manager.
LEMMA InsertWrites ==
    ASSUME TypeInv, NEW c \in Calls, Insert(c)
    PROVE  LET q == call[c]
           IN  /\ q.pc = "insert" /\ q.op = "CREATE" /\ q.subject \in People
               /\ checklist' = checklist
               /\ \/ Finish(c) /\ employee' = employee
                  \/ /\ WriteAs(c, Over) /\ q.subject \notin Present
                     /\ \A e \in People :
                           /\ employee'[e].onboarding = employee[e].onboarding
                           /\ employee'[e].archived = employee[e].archived
                           /\ e # q.subject => employee'[e] = employee[e]
                           /\ e = q.subject => employee'[e].present /\ employee'[e].manager = q.to
  <1> DEFINE q == call[c]
  <1>1. q \in Call /\ Stage(q) /\ employee \in [People -> Employee]
    BY DEF TypeInv, TypeOK, Stages
  <1>2. /\ q.pc = "insert" /\ checklist' = checklist
        /\ \/ Finish(c) /\ employee' = employee
           \/ /\ WriteAs(c, Over)
              /\ ~ \E e \in Present : \/ EmailOf[e] = EmailOf[q.subject]
                                     \/ employee[e].number = q.number
              /\ employee' = [employee EXCEPT ![q.subject].present = TRUE,
                                              ![q.subject].number = q.number,
                                              ![q.subject].manager = q.to]
    BY Zenon DEF Insert
  <1>3. q.op = "CREATE" /\ q.subject \in People
    BY <1>1, <1>2 DEF Stage
  <1> DEFINE yes == TRUE
             one == [employee EXCEPT ![q.subject].present = yes]
             two == [one EXCEPT ![q.subject].number = q.number]
             new == [two EXCEPT ![q.subject].manager = q.to]
  <1>4. yes \in BOOLEAN /\ q.number \in Nat
    BY <1>1 DEF Call
  <1> HIDE DEF yes
  <1>5. /\ one \in [People -> Employee]
        /\ \A e \in People : /\ one[e].onboarding = employee[e].onboarding
                             /\ one[e].archived = employee[e].archived
                             /\ e # q.subject => one[e] = employee[e]
                             /\ e = q.subject => one[e].present = yes
    BY <1>1, <1>3, <1>4 DEF Employee
  <1>6. /\ two \in [People -> Employee]
        /\ \A e \in People : /\ two[e].onboarding = one[e].onboarding
                             /\ two[e].archived = one[e].archived
                             /\ e # q.subject => two[e] = one[e]
                             /\ e = q.subject => two[e].present = one[e].present
    <2> HIDE DEF one
    <2> QED
      BY <1>3, <1>4, <1>5 DEF Employee
  <1>7. \A e \in People : /\ new[e].onboarding = two[e].onboarding
                          /\ new[e].archived = two[e].archived
                          /\ e # q.subject => new[e] = two[e]
                          /\ e = q.subject => new[e].manager = q.to /\ new[e].present = two[e].present
    <2> HIDE DEF two
    <2> QED
      BY <1>3, <1>6 DEF Employee
  <1>8. CASE /\ WriteAs(c, Over) /\ employee' = new
             /\ ~ \E e \in Present : EmailOf[e] = EmailOf[q.subject] \/ employee[e].number = q.number
    <2>1. q.subject \notin Present
      BY <1>8
    <2>2. employee'[q.subject] = new[q.subject] /\ new[q.subject].present = yes
      <3> HIDE DEF one, two, new
      <3> QED
        BY <1>3, <1>5, <1>6, <1>7, <1>8
    <2>3. employee'[q.subject].present /\ employee'[q.subject].manager = q.to
      <3>1. new[q.subject].manager = q.to
        BY <1>3, <1>7
      <3> HIDE DEF new
      <3> QED
        BY <1>8, <2>2, <3>1 DEF yes
    <2> HIDE DEF one, two, new, yes
    <2>4. ASSUME NEW e \in People
          PROVE  /\ employee'[e].onboarding = employee[e].onboarding
                 /\ employee'[e].archived = employee[e].archived
                 /\ e # q.subject => employee'[e] = employee[e]
                 /\ e = q.subject => employee'[e].present /\ employee'[e].manager = q.to
      <3>1. employee'[e] = new[e]
        BY <1>8
      <3>2. new[e].onboarding = employee[e].onboarding /\ new[e].archived = employee[e].archived
        BY <1>5, <1>6, <1>7
      <3>3. e # q.subject => new[e] = employee[e]
        BY <1>5, <1>6, <1>7
      <3> HIDE DEF q
      <3> QED
        BY <2>3, <3>1, <3>2, <3>3
    <2> HIDE DEF q
    <2>5. WriteAs(c, Over)
      BY <1>8
    <2> QED
      BY <1>2, <1>3, <2>1, <2>4, <2>5 DEF q
  <1> QED
    BY <1>2, <1>3, <1>8 DEF yes

LEMMA InsertSteady ==
    ASSUME TypeInv, NEW c \in Calls, Insert(c)
    PROVE  Steady(c)
  <1>1. /\ call[c].op = "CREATE" /\ checklist' = checklist
        /\ \/ Finish(c) /\ employee' = employee
           \/ /\ WriteAs(c, Over)
              /\ \A e \in People : employee'[e].onboarding = employee[e].onboarding
    BY InsertWrites
  <1>2. CASE Finish(c) /\ employee' = employee
    BY <1>1, <1>2, EndsSteadily
  <1>3. CASE WriteAs(c, Over) /\ \A e \in People : employee'[e].onboarding = employee[e].onboarding
    <2>1. BoardKept /\ Concern(call[c].op) = "line"
      BY <1>1, <1>3 DEF BoardKept, Concern
    <2> QED
      BY <1>3, <2>1, FreshTyped, WritesSteadily
  <1> QED
    BY <1>1, <1>2, <1>3

\* The steps of the onboarding that write tell every other call of its kind.
LEMMA BoardSteady ==
    ASSUME TypeInv, CheckInv, NEW c \in Calls,
           \/ CreateChecklist(c) \/ CreateTasks(c) \/ SetCompleted(c) \/ MarkCompleted(c)
           \/ SetInProgress(c) \/ SetOnboardingCompleted(c)
    PROVE  Steady(c)
  <1> DEFINE p == call[c]
             at(pc) == [p EXCEPT !.pc = pc]
             s == p.subject
  <1>1. p \in Call /\ Stage(p) /\ Founded(p)
    BY DEF TypeInv, TypeOK, Stages, CheckInv
  <1>2. /\ employee \in [People -> Employee] /\ checklist \in [People -> Checklist]
        /\ call \in [Calls -> Call]
    BY DEF TypeInv, TypeOK
  <1>3. ASSUME NEW pc
        PROVE  /\ at(pc).pc = pc /\ at(pc).op = p.op /\ at(pc).subject = s /\ at(pc).to = p.to
               /\ at(pc).seen = p.seen /\ at(pc).outdated = p.outdated
    BY <1>1 DEF Call
  <1>4. ASSUME p.op \in {"START", "TASK"}, LineKept, NEW q, WriteAs(c, q),
               q.op \in {"NONE", "START"} \/ Founded(call[c])'
        PROVE  Steady(c)
    <2>1. Concern(p.op) = "onboarding"
      BY <1>4 DEF Concern
    <2> QED
      BY <1>4, <2>1, WritesSteadily
  <1> HIDE DEF at
  <1>5. CASE CreateChecklist(c) \/ CreateTasks(c)
    <2>1. /\ p.pc \in {"checklist", "tasks"} /\ employee' = employee
          /\ \/ Finish(c) /\ checklist' = checklist
             \/ WriteAs(c, at("tasks")) \/ WriteAs(c, at("progress"))
      BY <1>5, Zenon DEF CreateChecklist, CreateTasks, at
    <2>2. p.op = "START" /\ LineKept
      BY <1>1, <2>1 DEF Stage, LineKept
    <2> QED
      BY <1>3, <1>4, <2>1, <2>2, EndsSteadily
  <1>6. CASE SetInProgress(c) \/ SetOnboardingCompleted(c)
    <2>1. PICK stage \in {"IN_PROGRESS", "COMPLETED"} :
             /\ p.pc \in {"progress", "settle"} /\ WriteAs(c, Over)
             /\ employee' = [employee EXCEPT ![s].onboarding = stage]
      BY <1>6, Zenon DEF SetInProgress, SetOnboardingCompleted
    <2>2. p.op \in {"START", "TASK"}
      BY <1>1, <2>1 DEF Stage
    <2>3. LineKept
      BY <1>2, <2>1 DEF Employee, LineKept
    <2> QED
      BY <1>4, <2>1, <2>2, <2>3, FreshTyped
  <1>7. CASE SetCompleted(c) \/ MarkCompleted(c)
    <2>1. /\ employee' = employee
          /\ \/ p.pc = "toggle" /\ WriteAs(c, at("remaining"))
             \/ p.pc = "stamp" /\ WriteAs(c, at("settle"))
      BY <1>7, Zenon DEF SetCompleted, MarkCompleted, at
    <2>2. p.op = "TASK" /\ s \in People
      BY <1>1, <2>1 DEF Stage
    <2>3. /\ p.pc = "toggle" => checklist'[s].tasks = checklist[s].tasks
          /\ p.pc = "stamp" => /\ checklist'[s].tasks = checklist[s].tasks
                               /\ checklist'[s].done = checklist[s].done
      BY <1>2, <1>7, <2>1, <2>2 DEF SetCompleted, MarkCompleted, Checklist
    <2>4. /\ call'[c].subject = s /\ call'[c].op = p.op /\ call'[c].to = p.to
          /\ call'[c].seen = p.seen /\ call'[c].outdated = p.outdated
          /\ call'[c].pc = IF p.pc = "toggle" THEN "remaining" ELSE "settle"
      BY <1>3, <2>1, Telling
    <2>5. Founded(call[c])'
      BY <1>1, <2>1, <2>2, <2>3, <2>4 DEF Founded
    <2>6. LineKept
      BY <2>1 DEF LineKept
    <2> QED
      BY <1>4, <2>1, <2>2, <2>5, <2>6
  <1> QED
    BY <1>5, <1>6, <1>7

\* What is about units checks nothing of the kind.
LEMMA UnitSteady ==
    ASSUME TypeInv, NEW c \in Calls, UpdateUnit(c)
    PROVE  Steady(c)
  <1>1. WriteAs(c, Over) /\ UNCHANGED <<employee, checklist>>
    BY Zenon DEF UpdateUnit
  <1>2. Founded(Over)
    BY FreshTyped, PlainFounded DEF Plain
  <1> QED
    BY <1>1, <1>2, StaysSteady

LEMMA StepSteady ==
    ASSUME TypeInv, CheckInv, NEW c \in Calls, Step(c)
    PROVE  Steady(c)
  <1>1. CASE ReadEmployee(c) \/ AssertManagerMayChange(c) \/ AssertValidManager(c) \/ Walk(c)
    BY <1>1, ReadSteady, ScopeSteady, ManagerSteady, WalkSteady
  <1>2. CASE BeginUpdate(c) \/ CountActiveDirectReports(c) \/ IssueNextNumber(c)
    BY <1>2, BeginSteady, IssueSteady
  <1>3. CASE Commit(c) \/ Insert(c) \/ UpdateUnit(c)
    BY <1>3, CommitSteady, InsertSteady, UnitSteady
  <1>4. CASE FindOnboarding(c) \/ CountIncomplete(c) \/ ExistsActiveIn(c)
    BY <1>4, LookSteady
  <1>5. CASE \/ CreateChecklist(c) \/ CreateTasks(c) \/ SetCompleted(c) \/ MarkCompleted(c)
             \/ SetInProgress(c) \/ SetOnboardingCompleted(c)
    BY <1>5, BoardSteady
  <1> HIDE DEF Steady
  <1> QED
    BY <1>1, <1>2, <1>3, <1>4, <1>5, Zenon DEF Step

LEMMA CrashSteady ==
    ASSUME TypeInv, NEW c \in Calls, Crash(c)
    PROVE  Steady(c) /\ call'[c].pc = "lost"
  <1>1. Become(c, [Fresh EXCEPT !.pc = "lost"]) /\ UNCHANGED <<employee, checklist>>
    BY Zenon DEF Crash
  <1>2. call'[c] = [Fresh EXCEPT !.pc = "lost"]
    BY <1>1, Telling
  <1> QED
    BY <1>1, <1>2, EndsSteadily, FreshTyped

\* No step of anybody invalidates what a call has found without telling it.
LEMMA ChecksKeep ==
    ASSUME TypeInv, CheckInv, [Next]_vars
    PROVE  CheckInv'
  <1>1. CASE EndOfDay \/ UNCHANGED vars
    BY <1>1 DEF EndOfDay, vars, CheckInv, Founded, Present
  <1>2. ASSUME NEW c \in Calls, Request(c) \/ Step(c) \/ Crash(c)
        PROVE  CheckInv'
    <2>1. Steady(c)
      BY <1>2, RequestSteady, StepSteady, CrashSteady
    <2> QED
      BY <2>1, SteadyKeeps
  <1> QED
    BY <1>1, <1>2 DEF Next

LEMMA InitFounded == Init => CheckInv
  <1> SUFFICES ASSUME Init, NEW c \in Calls PROVE Founded(call[c])
    BY DEF CheckInv
  <1>1. call[c] = Fresh
    BY DEF Init
  <1> QED
    BY <1>1, FreshTyped, PlainFounded DEF Plain

LEMMA ChecksHold == Spec => []CheckInv
  <1>1. Init => CheckInv
    BY InitFounded
  <1>2. TypeInv /\ CheckInv /\ [Next]_vars => CheckInv'
    BY ChecksKeep
  <1> QED
    BY <1>1, <1>2, EmployeesTyped, PTL DEF Spec

\* Only its own steps end a call, and a call that dies is not over.
LEMMA EndsItself ==
    ASSUME TypeInv, CheckInv, [Next]_vars, NEW c \in Calls, InFlight(c), call'[c].pc = "over"
    PROVE  Step(c)
  <1>1. ~(EndOfDay \/ UNCHANGED vars)
    BY DEF EndOfDay, vars, InFlight
  <1>2. PICK d \in Calls : Request(d) \/ Step(d) \/ Crash(d)
    BY <1>1 DEF Next
  <1>3. Leaves(d)
    BY <1>2, RequestSteady, StepSteady, CrashSteady DEF Steady
  <1>4. d = c
    BY <1>3 DEF Leaves, Same, InFlight
  <1>5. ~Request(c) /\ ~Crash(c)
    BY CrashSteady DEF Request, InFlight
  <1> QED
    BY <1>2, <1>4, <1>5

\* A write that ends a call is a commit, an insertion or an update of a unit.
LEMMA WhatWrites ==
    ASSUME TypeInv, CheckInv, [Next]_vars, NEW c \in Calls, Writes(c)
    PROVE  Commit(c) \/ Insert(c) \/ UpdateUnit(c)
  <1> DEFINE q == call[c]
  <1>1. q.pc \in {"commit", "insert", "write"} /\ call'[c].pc = "over"
    BY DEF Writes
  <1>2. Step(c)
    BY <1>1, EndsItself DEF InFlight
  <1>3. ~(ReadEmployee(c) \/ AssertManagerMayChange(c) \/ AssertValidManager(c) \/ Walk(c))
    BY <1>1 DEF ReadEmployee, AssertManagerMayChange, AssertValidManager, Walk
  <1>4. ~(BeginUpdate(c) \/ CountActiveDirectReports(c) \/ IssueNextNumber(c))
    BY <1>1 DEF BeginUpdate, CountActiveDirectReports, IssueNextNumber
  <1>5. ~(FindOnboarding(c) \/ CountIncomplete(c) \/ ExistsActiveIn(c))
    BY <1>1 DEF FindOnboarding, CountIncomplete, ExistsActiveIn
  <1>6. ~(CreateChecklist(c) \/ CreateTasks(c) \/ SetCompleted(c) \/ MarkCompleted(c))
    BY <1>1 DEF CreateChecklist, CreateTasks, SetCompleted, MarkCompleted
  <1>7. ~(SetInProgress(c) \/ SetOnboardingCompleted(c))
    BY <1>1 DEF SetInProgress, SetOnboardingCompleted
  <1> QED
    BY <1>2, <1>3, <1>4, <1>5, <1>6, <1>7, Zenon DEF Step

\* An archival, an assignment or a creation whose checks nobody else's change
\* contradicts leaves no active employee under an archived manager.
THEOREM ManagersStayActive == Spec => FreshChecksKeepManagersActive
  <1> DEFINE Kept == \A c \in Calls : Writes(c) /\ ~call[c].outdated => UnderArchived' \subseteq UnderArchived
  <1>1. ASSUME TypeInv, CheckInv, [Next]_vars
        PROVE  Kept
    <2> SUFFICES ASSUME NEW c \in Calls, Writes(c), ~call[c].outdated
                 PROVE  UnderArchived' \subseteq UnderArchived
      OBVIOUS
    <2> DEFINE q == call[c]
    <2>1. q.pc \in {"commit", "insert", "write"} /\ call'[c].pc = "over"
      BY DEF Writes
    <2>2. Step(c)
      BY <1>1, <2>1, EndsItself DEF InFlight
    <2>3. Founded(q) /\ Stage(q)
      BY <1>1 DEF CheckInv, TypeInv, Stages
    <2>4. CASE Commit(c)
      <3>1. /\ q.pc = "commit" /\ q.subject \in People
            /\ \A e \in People :
                  /\ employee'[e].present = employee[e].present
                  /\ employee'[e].manager =
                        IF e = q.subject /\ q.op = "ASSIGN" THEN q.to ELSE employee[e].manager
                  /\ ~(e = q.subject /\ q.op = "ARCHIVE") =>
                        employee'[e].archived = employee[e].archived
                  /\ e = q.subject /\ q.op = "ARCHIVE" => employee'[e].archived
        BY <1>1, <2>4, CommitWrites
      <3> SUFFICES ASSUME NEW e \in UnderArchived' PROVE e \in UnderArchived
        OBVIOUS
      <3>2. /\ e \in People /\ employee'[e].present /\ ~employee'[e].archived
            /\ employee'[e].manager # None /\ employee'[employee'[e].manager].archived
        BY DEF UnderArchived, Present
      <3>3. employee[e].present /\ ~employee[e].archived
        BY <3>1, <3>2
      <3>4. employee'[e].manager \in People
        <4>1. TypeInv'
          BY <1>1, NextMoves
        <4> QED
          BY <3>2, <4>1 DEF TypeInv, TypeOK, Employee
      <3>5. CASE e = q.subject /\ q.op = "ASSIGN"
        <4>1. employee'[e].manager = q.to /\ employee'[q.to].archived = employee[q.to].archived
          BY <3>1, <3>2, <3>4, <3>5
        <4>2. ~employee[q.to].archived
          BY <2>3, <3>1, <3>2, <3>5, <4>1 DEF Founded
        <4> QED
          BY <3>2, <4>1, <4>2
      <3>6. CASE ~(e = q.subject /\ q.op = "ASSIGN")
        <4>1. employee'[e].manager = employee[e].manager
          BY <3>1, <3>2, <3>6
        <4>2. CASE employee[e].manager = q.subject /\ q.op = "ARCHIVE"
          <5>1. e \in Present
            BY <3>2, <3>3 DEF Present
          <5> QED
            BY <2>3, <3>1, <3>3, <4>2, <5>1 DEF Founded
        <4>3. CASE ~(employee[e].manager = q.subject /\ q.op = "ARCHIVE")
          BY <3>1, <3>2, <3>3, <3>4, <4>1, <4>3 DEF UnderArchived, Present
        <4> QED
          BY <4>2, <4>3
      <3> QED
        BY <3>5, <3>6
    <2>5. CASE Insert(c)
      <3>1. /\ q.pc = "insert" /\ q.op = "CREATE" /\ q.subject \in People
            /\ \/ Finish(c) /\ employee' = employee
               \/ /\ WriteAs(c, Over)
                  /\ \A e \in People :
                        /\ employee'[e].archived = employee[e].archived
                        /\ e # q.subject => employee'[e] = employee[e]
                        /\ e = q.subject => employee'[e].manager = q.to
        BY <1>1, <2>5, InsertWrites
      <3>2. CASE employee' = employee
        BY <3>2 DEF UnderArchived, Present
      <3>3. CASE \A e \in People :
                    /\ employee'[e].archived = employee[e].archived
                    /\ e # q.subject => employee'[e] = employee[e]
                    /\ e = q.subject => employee'[e].manager = q.to
        <4> SUFFICES ASSUME NEW e \in UnderArchived' PROVE e \in UnderArchived
          OBVIOUS
        <4>1. /\ e \in People /\ employee'[e].present /\ ~employee'[e].archived
              /\ employee'[e].manager # None /\ employee'[employee'[e].manager].archived
          BY DEF UnderArchived, Present
        <4>2. employee'[e].manager \in People
          <5>1. TypeInv'
            BY <1>1, NextMoves
          <5> QED
            BY <4>1, <5>1 DEF TypeInv, TypeOK, Employee
        <4>3. employee[employee'[e].manager].archived
          BY <3>3, <4>1, <4>2
        <4>4. CASE e = q.subject
          <5>1. employee'[e].manager = q.to
            BY <3>3, <4>4, <4>1
          <5>2. ~employee[q.to].archived
            BY <2>3, <3>1, <4>1, <5>1 DEF Founded
          <5> QED
            BY <4>3, <5>1, <5>2
        <4>5. CASE e # q.subject
          BY <3>3, <4>1, <4>3, <4>5 DEF UnderArchived, Present
        <4> QED
          BY <4>4, <4>5
      <3> QED
        BY <3>1, <3>2, <3>3
    <2>6. CASE UpdateUnit(c)
      <3>1. employee' = employee
        BY <2>6, Zenon DEF UpdateUnit
      <3> QED
        BY <3>1 DEF UnderArchived, Present
    <2>7. Commit(c) \/ Insert(c) \/ UpdateUnit(c)
      BY <1>1, WhatWrites
    <2> QED
      BY <2>4, <2>5, <2>6, <2>7
  <1>2. TypeInv /\ CheckInv /\ [Next]_vars => [Kept]_vars
    BY <1>1
  <1>3. Spec => [][Kept]_vars
    BY <1>2, EmployeesTyped, ChecksHold, PTL DEF Spec
  <1> QED
    BY <1>3 DEF FreshChecksKeepManagersActive

\* A task update that no other overlaps leaves the status COMPLETED exactly when
\* every task is, whatever calls that overlapped or died have left behind.
THEOREM TaskUpdatesSettle == Spec => TaskUpdateSettles
  <1> DEFINE Kept == \A c \in Calls, e \in People :
                /\ call[c].op = "TASK" /\ call[c].subject = e /\ ~call[c].outdated
                /\ call[c].pc \in {"remaining", "progress", "settle"} /\ call'[c].pc = "over"
                => Settled(e)'
  <1>1. ASSUME TypeInv, CheckInv, [Next]_vars
        PROVE  Kept
    <2> SUFFICES ASSUME NEW c \in Calls, NEW e \in People,
                        call[c].op = "TASK", call[c].subject = e, ~call[c].outdated,
                        call[c].pc \in {"remaining", "progress", "settle"}, call'[c].pc = "over"
                 PROVE  Settled(e)'
      OBVIOUS
    <2> DEFINE q == call[c]
               l == checklist[e]
    <2>1. Step(c)
      BY <1>1, EndsItself DEF InFlight
    <2>2. Founded(q) /\ q \in Call /\ l \in Checklist
      BY <1>1 DEF CheckInv, TypeInv, TypeOK
    <2>3. employee \in [People -> Employee]
      BY <1>1 DEF TypeInv, TypeOK
    <2>4. CountIncomplete(c) \/ SetInProgress(c) \/ SetOnboardingCompleted(c)
      <3>1. ~(ReadEmployee(c) \/ AssertManagerMayChange(c) \/ AssertValidManager(c) \/ Walk(c))
        BY DEF ReadEmployee, AssertManagerMayChange, AssertValidManager, Walk
      <3>2. ~(BeginUpdate(c) \/ CountActiveDirectReports(c) \/ IssueNextNumber(c))
        BY DEF BeginUpdate, CountActiveDirectReports, IssueNextNumber
      <3>3. ~(FindOnboarding(c) \/ Commit(c) \/ Insert(c) \/ ExistsActiveIn(c) \/ UpdateUnit(c))
        BY DEF FindOnboarding, Commit, Insert, ExistsActiveIn, UpdateUnit
      <3>4. ~(CreateChecklist(c) \/ CreateTasks(c) \/ SetCompleted(c) \/ MarkCompleted(c))
        BY DEF CreateChecklist, CreateTasks, SetCompleted, MarkCompleted
      <3> QED
        BY <2>1, <3>1, <3>2, <3>3, <3>4, Zenon DEF Step
    <2>5. CASE CountIncomplete(c)
      <3>1. /\ q.pc = "remaining" /\ UNCHANGED <<employee, checklist>>
            /\ \/ l.tasks = l.done /\ Goto(c, "stamp")
               \/ l.tasks # l.done /\ q.seen = "COMPLETED" /\ Goto(c, "progress")
               \/ l.tasks # l.done /\ q.seen # "COMPLETED" /\ Finish(c)
        BY <2>5, Zenon DEF CountIncomplete
      <3>2. ~(Goto(c, "stamp") \/ Goto(c, "progress"))
        BY <1>1, <2>2 DEF Goto, Become, TypeInv, TypeOK, Call
      <3>3. q.seen = employee[e].onboarding
        BY <2>2, <3>1 DEF Founded
      <3> QED
        BY <3>1, <3>2, <3>3 DEF Settled
    <2>6. CASE SetInProgress(c)
      <3>1. /\ q.pc = "progress" /\ checklist' = checklist
            /\ employee' = [employee EXCEPT ![e].onboarding = "IN_PROGRESS"]
        BY <2>6, Zenon DEF SetInProgress
      <3>2. l.done # l.tasks
        BY <2>2, <3>1 DEF Founded
      <3>3. employee'[e].onboarding = "IN_PROGRESS"
        BY <2>3, <3>1 DEF Employee
      <3> QED
        BY <3>1, <3>2, <3>3 DEF Settled
    <2>7. CASE SetOnboardingCompleted(c)
      <3>1. /\ q.pc = "settle" /\ checklist' = checklist
            /\ employee' = [employee EXCEPT ![e].onboarding = "COMPLETED"]
        BY <2>7, Zenon DEF SetOnboardingCompleted
      <3>2. l.done = l.tasks /\ l.tasks # {}
        BY <2>2, <3>1 DEF Founded
      <3>3. employee'[e].onboarding = "COMPLETED"
        BY <2>3, <3>1 DEF Employee
      <3> QED
        BY <3>1, <3>2, <3>3 DEF Settled
    <2> QED
      BY <2>4, <2>5, <2>6, <2>7
  <1>2. TypeInv /\ CheckInv /\ [Next]_vars => [Kept]_vars
    BY <1>1
  <1>3. Spec => [][Kept]_vars
    BY <1>2, EmployeesTyped, ChecksHold, PTL DEF Spec
  <1> QED
    BY <1>3 DEF TaskUpdateSettles

-----------------------------------------------------------------------------
(* Iteration                                                               *)

\* Whatever holds of no least number holds of none.
LEMMA LeastNumber ==
    ASSUME NEW S \in SUBSET Nat, S # {}
    PROVE  \E x \in S : \A y \in S : x <= y
  <1> DEFINE R == {p \in Nat \X Nat : p[1] < p[2]}
  <1>1. IsWellFoundedOn(R, Nat)
    BY NatLessThanWellFounded DEF OpToRel
  <1>2. PICK x \in S : \A y \in S : ~(<<y, x>> \in R)
    <2> HIDE DEF R
    <2> QED
      BY <1>1, WFMin
  <1>3. ASSUME NEW y \in S
        PROVE  x <= y
    <2>1. x \in Nat /\ y \in Nat /\ ~(<<y, x>> \in R)
      BY <1>2
    <2> QED
      BY <2>1
  <1> QED
    BY <1>3

\* A step on the subsets of a set, taken n times.
Iterates(f, nodes, start, step, n) ==
    /\ f \in [0..n -> SUBSET nodes]
    /\ f[0] = start /\ \A i \in 1..n : f[i] = step[f[i - 1]]

\* It can be taken as often as one likes.
LEMMA Iterated ==
    ASSUME NEW nodes, NEW start \in SUBSET nodes, NEW step \in [SUBSET nodes -> SUBSET nodes],
           NEW n \in Nat
    PROVE  \E f : Iterates(f, nodes, start, step, n)
  <1> DEFINE Steps(f, k) == f[0] = start /\ \A i \in 1..k : f[i] = step[f[i - 1]]
             Bad == {k \in Nat : ~\E f \in [0..k -> SUBSET nodes] : Steps(f, k)}
  <1>1. CASE Bad = {}
    <2>1. \E f \in [0..n -> SUBSET nodes] : Steps(f, n)
      <3> HIDE DEF Steps
      <3> QED
        BY <1>1
    <2> QED
      BY <2>1, Zenon DEF Iterates
  <1>2. CASE Bad # {}
    <2>1. Bad \in SUBSET Nat
      OBVIOUS
    <2> HIDE DEF Bad
    <2>2. PICK k \in Bad : \A j \in Bad : k <= j
      BY <1>2, <2>1, LeastNumber
    <2>3. k \in Nat /\ ~\E f \in [0..k -> SUBSET nodes] : Steps(f, k)
      <3> HIDE DEF Steps
      <3> QED
        BY <2>2 DEF Bad
    <2>4. k # 0
      <3>1. Steps([i \in 0..0 |-> start], 0)
        OBVIOUS
      <3>2. [i \in 0..0 |-> start] \in [0..0 -> SUBSET nodes]
        OBVIOUS
      <3> HIDE DEF Steps
      <3> QED
        BY <2>3, <3>1, <3>2
    <2>5. k - 1 \in Nat /\ k - 1 \notin Bad
      <3>1. k - 1 \in Nat /\ ~(k <= k - 1)
        BY <2>3, <2>4
      <3> QED
        BY <2>2, <3>1
    <2>6. PICK f \in [0..(k - 1) -> SUBSET nodes] : Steps(f, k - 1)
      <3> HIDE DEF Steps
      <3> QED
        BY <2>5 DEF Bad
    <2> DEFINE g == [i \in 0..k |-> IF i = k THEN step[f[k - 1]] ELSE f[i]]
    <2>7. g \in [0..k -> SUBSET nodes]
      BY <2>3, <2>5
    <2>8. \A i \in 0..(k - 1) : g[i] = f[i]
      BY <2>3, <2>5
    <2>9. g[k] = step[f[k - 1]]
      BY <2>3
    <2>10. Steps(g, k)
      <3> HIDE DEF g
      <3>1. g[0] = start
        BY <2>5, <2>6, <2>8
      <3>2. ASSUME NEW i \in 1..k
            PROVE  g[i] = step[g[i - 1]]
        <4>1. CASE i = k
          BY <2>3, <2>5, <2>8, <2>9, <4>1
        <4>2. CASE i # k
          <5>1. i \in 0..(k - 1) /\ i - 1 \in 0..(k - 1) /\ i \in 1..(k - 1)
            BY <2>3, <4>2
          <5> QED
            BY <2>6, <2>8, <5>1
        <4> QED
          BY <4>1, <4>2
      <3> QED
        BY <3>1, <3>2
    <2> HIDE DEF g, Steps
    <2> QED
      BY <2>3, <2>7, <2>10
  <1> QED
    BY <1>1, <1>2

\* Nor does it lead anywhere else.
LEMMA IteratedTyped ==
    ASSUME NEW nodes, NEW start \in SUBSET nodes, NEW step \in [SUBSET nodes -> SUBSET nodes],
           NEW n \in Nat, NEW f, f = [i \in 0..n |-> f[i]], f[0] = start,
           \A i \in 1..n : f[i - 1] \in SUBSET nodes => f[i] = step[f[i - 1]]
    PROVE  Iterates(f, nodes, start, step, n)
  <1> DEFINE Bad == {i \in 0..n : f[i] \notin SUBSET nodes}
  <1>1. Bad = {}
    <2> SUFFICES ASSUME Bad # {} PROVE FALSE
      OBVIOUS
    <2>1. Bad \in SUBSET Nat
      OBVIOUS
    <2> HIDE DEF Bad
    <2>2. PICK k \in Bad : \A j \in Bad : k <= j
      BY <2>1, LeastNumber
    <2>3. k \in 0..n /\ f[k] \notin SUBSET nodes
      BY <2>2 DEF Bad
    <2>4. k # 0
      BY <2>3
    <2>5. k \in 1..n /\ k - 1 \in 0..n /\ ~(k <= k - 1)
      BY <2>3, <2>4
    <2>6. f[k - 1] \in SUBSET nodes
      BY <2>2, <2>5 DEF Bad
    <2>7. f[k] = step[f[k - 1]]
      BY <2>5, <2>6, Zenon
    <2>8. step[f[k - 1]] \in SUBSET nodes
      BY <2>6, Zenon
    <2> QED
      BY <2>3, <2>7, <2>8, Zenon
  <1>2. \A i \in 0..n : f[i] \in SUBSET nodes
    BY <1>1
  <1>3. f \in [0..n -> SUBSET nodes]
    BY <1>2
  <1>4. ASSUME NEW i \in 1..n
        PROVE  f[i] = step[f[i - 1]]
    <2>1. i - 1 \in 0..n
      OBVIOUS
    <2> QED
      BY <1>2, <2>1
  <1> QED
    BY <1>3, <1>4 DEF Iterates

\* A reporting line is made of people.
LEMMA TeamOfPeople ==
    ASSUME TypeInv, NEW m
    PROVE  Team(m) \subseteq People
  <1> DEFINE n == Cardinality(People)
             further(s) == s \cup UNION {Reports(x) : x \in s}
             step == [s \in SUBSET People |-> further(s)]
             within == CHOOSE w : w = [i \in 0..n |->
                          IF i = 0 THEN Reports(m)
                          ELSE LET nearer == w[i - 1] IN nearer \cup UNION {Reports(x) : x \in nearer}]
  <1>1. n \in Nat
    BY PeopleAssumption, FS_CardinalityType
  <1>2. \A x : Reports(x) \subseteq People
    BY DEF Reports, Present
  <1>3. step \in [SUBSET People -> SUBSET People] /\ \A s \in SUBSET People : step[s] = further(s)
    BY <1>2
  <1>4. Team(m) = within[n] \ {m}
    BY DEF Team, Reach
  <1>12. Reports(m) \in SUBSET People
    BY <1>2
  <1>13. step \in [SUBSET People -> SUBSET People]
    BY <1>3
  <1> DEFINE start == Reports(m)
  <1> HIDE DEF n, step, start
  <1>14. start \in SUBSET People
    BY <1>12 DEF start
  <1>15. PICK f : Iterates(f, People, start, step, n)
    BY <1>1, <1>13, <1>14, Iterated
  <1>5. /\ f \in [0..n -> SUBSET People]
        /\ f[0] = Reports(m) /\ \A i \in 1..n : f[i] = step[f[i - 1]]
    BY <1>15 DEF start, Iterates
  <1>6. f = [i \in 0..n |-> IF i = 0 THEN Reports(m)
                            ELSE LET nearer == f[i - 1] IN nearer \cup UNION {Reports(x) : x \in nearer}]
    <2>1. ASSUME NEW i \in 0..n
          PROVE  f[i] = IF i = 0 THEN Reports(m)
                        ELSE LET nearer == f[i - 1] IN nearer \cup UNION {Reports(x) : x \in nearer}
      <3>1. CASE i = 0
        BY <1>5, <3>1
      <3>2. CASE i # 0
        <4>1. i \in 1..n /\ i - 1 \in 0..n
          BY <1>1, <3>2
        <4>2. f[i - 1] \in SUBSET People /\ f[i] = step[f[i - 1]]
          BY <1>5, <4>1
        <4> QED
          BY <1>3, <3>2, <4>2
      <3> QED
        BY <3>1, <3>2
    <2>2. f = [i \in 0..n |-> f[i]]
      BY <1>5
    <2> QED
      BY <2>1, <2>2
  <1>7. within = [i \in 0..n |->
                    IF i = 0 THEN Reports(m)
                    ELSE LET nearer == within[i - 1] IN nearer \cup UNION {Reports(x) : x \in nearer}]
    BY <1>6
  <1> HIDE DEF within
  <1>8. within = [i \in 0..n |-> within[i]]
    BY <1>7
  <1>9. within[0] = Reports(m)
    BY <1>1, <1>7
  <1>10. ASSUME NEW i \in 1..n, within[i - 1] \in SUBSET People
         PROVE  within[i] = step[within[i - 1]]
    <2>1. i \in 0..n /\ i # 0
      BY <1>1
    <2>2. within[i] = within[i - 1] \cup UNION {Reports(x) : x \in within[i - 1]}
      BY <1>7, <2>1
    <2> QED
      BY <1>3, <1>10, <2>2, Zenon
  <1>11. within \in [0..n -> SUBSET People]
    <2>1. within[0] = start
      BY <1>9 DEF start
    <2>2. \A i \in 1..n : within[i - 1] \in SUBSET People => within[i] = step[within[i - 1]]
      BY <1>10
    <2>3. Iterates(within, People, start, step, n)
      BY <1>1, <1>13, <1>14, <1>8, <2>1, <2>2, IteratedTyped
    <2> QED
      BY <2>3 DEF Iterates
  <1> QED
    BY <1>1, <1>4, <1>11

-----------------------------------------------------------------------------
(* Cycles                                                                  *)

\* Where the nodes of a set lead.
Onward(up, s) == {up[x] : x \in s} \ {None}

\* OnCycle finds the largest set of nodes each of which somebody of the set leads to.
LEMMA CyclicIs ==
    ASSUME NEW nodes, IsFiniteSet(nodes), None \notin nodes,
           NEW up \in [nodes -> nodes \cup {None}]
    PROVE  /\ Cyclic(up) \subseteq nodes /\ Onward(up, Cyclic(up)) = Cyclic(up)
           /\ \A s \in SUBSET nodes : s \subseteq Onward(up, s) => s \subseteq Cyclic(up)
  <1> DEFINE n == Cardinality(nodes)
             step == [s \in SUBSET nodes |-> Onward(up, s)]
             above == CHOOSE w : w = [i \in 0..n |->
                         IF i = 0 THEN nodes ELSE {up[x] : x \in w[i - 1]} \ {None}]
  <1>1. n \in Nat /\ DOMAIN up = nodes
    BY FS_CardinalityType
  <1>2. Cyclic(up) = above[n]
    BY <1>1 DEF Cyclic
  <1>3. \A s \in SUBSET nodes : Onward(up, s) \in SUBSET nodes
    BY DEF Onward
  <1>4. step \in [SUBSET nodes -> SUBSET nodes] /\ \A s \in SUBSET nodes : step[s] = Onward(up, s)
    BY <1>3
  <1>5. step \in [SUBSET nodes -> SUBSET nodes] /\ nodes \in SUBSET nodes
    BY <1>4
  <1> HIDE DEF n, step
  <1>6. PICK f : Iterates(f, nodes, nodes, step, n)
    BY <1>1, <1>5, Iterated
  <1>7. \A i \in 1..n : i - 1 \in 0..n /\ i \in 0..n
    BY <1>1
  <1>8. f = [i \in 0..n |-> IF i = 0 THEN nodes ELSE {up[x] : x \in f[i - 1]} \ {None}]
    <2>1. ASSUME NEW i \in 0..n
          PROVE  f[i] = IF i = 0 THEN nodes ELSE {up[x] : x \in f[i - 1]} \ {None}
      <3>1. CASE i = 0
        BY <1>6, <3>1 DEF Iterates
      <3>2. CASE i # 0
        <4>1. i \in 1..n /\ i - 1 \in 0..n
          BY <1>1, <3>2
        <4>2. f[i - 1] \in SUBSET nodes /\ f[i] = step[f[i - 1]]
          BY <1>6, <4>1 DEF Iterates
        <4>3. f[i] = Onward(up, f[i - 1])
          BY <1>4, <4>2
        <4> QED
          BY <3>2, <4>3 DEF Onward
      <3> QED
        BY <3>1, <3>2
    <2>2. f = [i \in 0..n |-> f[i]]
      BY <1>6 DEF Iterates
    <2> QED
      BY <2>1, <2>2
  <1>9. above = [i \in 0..n |-> IF i = 0 THEN nodes ELSE {up[x] : x \in above[i - 1]} \ {None}]
    BY <1>8
  <1> HIDE DEF above
  <1>10. above[0] = nodes
    BY <1>1, <1>9
  <1>11. ASSUME NEW i \in 1..n
         PROVE  above[i] = Onward(up, above[i - 1])
    <2>1. i \in 0..n /\ i # 0
      BY <1>1
    <2> QED
      BY <1>9, <2>1 DEF Onward
  <1>12. \A i \in 0..n : above[i] \in SUBSET nodes
    <2>1. above = [i \in 0..n |-> above[i]]
      BY <1>9
    <2>2. \A i \in 1..n : above[i - 1] \in SUBSET nodes => above[i] = step[above[i - 1]]
      BY <1>4, <1>11
    <2>3. Iterates(above, nodes, nodes, step, n)
      BY <1>1, <1>5, <1>10, <2>1, <2>2, IteratedTyped
    <2> QED
      BY <2>3 DEF Iterates
  <1>13. ASSUME NEW i \in 1..n
         PROVE  above[i] \subseteq above[i - 1]
    <2> DEFINE Bad == {j \in 1..n : ~(above[j] \subseteq above[j - 1])}
    <2> SUFFICES ASSUME Bad # {} PROVE FALSE
      OBVIOUS
    <2>1. Bad \in SUBSET Nat
      OBVIOUS
    <2> HIDE DEF Bad
    <2>2. PICK k \in Bad : \A j \in Bad : k <= j
      BY <2>1, LeastNumber
    <2>3. k \in 1..n /\ ~(above[k] \subseteq above[k - 1])
      BY <2>2 DEF Bad
    <2>4. CASE k = 1
      BY <1>7, <1>10, <1>12, <2>3, <2>4
    <2>5. CASE k # 1
      <3>1. k - 1 \in 1..n /\ ~(k <= k - 1)
        BY <1>1, <2>3, <2>5
      <3>2. above[k - 1] \subseteq above[k - 1 - 1]
        BY <2>2, <3>1 DEF Bad
      <3>3. above[k] = Onward(up, above[k - 1]) /\ above[k - 1] = Onward(up, above[k - 1 - 1])
        BY <1>11, <2>3, <3>1
      <3>4. \A s, t : s \subseteq t => Onward(up, s) \subseteq Onward(up, t)
        BY DEF Onward
      <3>5. Onward(up, above[k - 1]) \subseteq Onward(up, above[k - 1 - 1])
        BY <3>2, <3>4
      <3> QED
        BY <2>3, <3>3, <3>5
    <2> QED
      BY <2>4, <2>5
  <1>14. ASSUME NEW i \in 0..n
         PROVE  Cardinality(above[i]) <= n - i \/ Onward(up, above[i]) = above[i]
    <2> DEFINE Bad == {j \in 0..n : ~(Cardinality(above[j]) <= n - j \/ Onward(up, above[j]) = above[j])}
    <2> SUFFICES ASSUME Bad # {} PROVE FALSE
      OBVIOUS
    <2>1. Bad \in SUBSET Nat
      OBVIOUS
    <2> HIDE DEF Bad
    <2>2. PICK k \in Bad : \A j \in Bad : k <= j
      BY <2>1, LeastNumber
    <2>3. /\ k \in 0..n /\ ~(Cardinality(above[k]) <= n - k)
          /\ Onward(up, above[k]) # above[k]
      BY <2>2 DEF Bad
    <2>4. k # 0
      BY <1>1, <1>10, <2>3 DEF n
    <2>5. k \in 1..n /\ k - 1 \in 0..n /\ ~(k <= k - 1) /\ k \in Nat
      BY <1>1, <2>3, <2>4
    <2>6. Cardinality(above[k - 1]) <= n - (k - 1) \/ Onward(up, above[k - 1]) = above[k - 1]
      BY <2>2, <2>5 DEF Bad
    <2>7. above[k] = Onward(up, above[k - 1]) /\ above[k] \subseteq above[k - 1]
      BY <1>11, <1>13, <2>5
    <2>8. above[k] # above[k - 1]
      BY <2>3, <2>7
    <2>9. above[k - 1] \subseteq nodes
      BY <1>12, <2>5
    <2>10. IsFiniteSet(above[k - 1])
      BY <2>9, FS_Subset
    <2> DEFINE a == above[k - 1]
               b == above[k]
    <2>11. a \in SUBSET nodes /\ b \in SUBSET a /\ a # b /\ IsFiniteSet(a)
      BY <2>7, <2>8, <2>9, <2>10
    <2> HIDE DEF a, b
    <2>12. Cardinality(b) <= Cardinality(a) /\ Cardinality(a) # Cardinality(b) /\ IsFiniteSet(b)
      BY <2>11, FS_Subset
    <2>13. Cardinality(b) \in Nat /\ Cardinality(a) \in Nat
      BY <2>11, <2>12, FS_CardinalityType
    <2>14. Cardinality(a) <= n - (k - 1)
      BY <2>6, <2>7, <2>8 DEF a
    <2>15. Cardinality(b) <= n - k
      BY <1>1, <2>5, <2>12, <2>13, <2>14
    <2> QED
      BY <2>3, <2>15 DEF b
  <1>15. Onward(up, above[n]) = above[n]
    <2>1. n \in 0..n /\ above[n] \in SUBSET nodes
      BY <1>1, <1>12
    <2>2. CASE Cardinality(above[n]) <= n - n
      <3>1. IsFiniteSet(above[n])
        BY <2>1, FS_Subset
      <3>2. Cardinality(above[n]) \in Nat
        BY <3>1, FS_CardinalityType
      <3>3. Cardinality(above[n]) = 0
        BY <1>1, <2>2, <3>2
      <3>4. above[n] = {}
        BY <3>1, <3>3, FS_EmptySet
      <3> QED
        BY <3>4 DEF Onward
    <2> QED
      BY <1>14, <2>1, <2>2
  <1>16. ASSUME NEW s \in SUBSET nodes, s \subseteq Onward(up, s)
         PROVE  s \subseteq above[n]
    <2> DEFINE Bad == {j \in 0..n : ~(s \subseteq above[j])}
    <2>1. Bad = {}
      <3> SUFFICES ASSUME Bad # {} PROVE FALSE
        OBVIOUS
      <3>1. Bad \in SUBSET Nat
        OBVIOUS
      <3> HIDE DEF Bad
      <3>2. PICK k \in Bad : \A j \in Bad : k <= j
        BY <3>1, LeastNumber
      <3>3. k \in 0..n /\ ~(s \subseteq above[k])
        BY <3>2 DEF Bad
      <3>4. k # 0
        BY <1>10, <3>3
      <3>5. k \in 1..n /\ k - 1 \in 0..n /\ ~(k <= k - 1)
        BY <1>1, <3>3, <3>4
      <3>6. s \subseteq above[k - 1]
        BY <3>2, <3>5 DEF Bad
      <3>7. Onward(up, s) \subseteq Onward(up, above[k - 1])
        BY <3>6 DEF Onward
      <3>8. above[k] = Onward(up, above[k - 1])
        BY <1>11, <3>5
      <3> QED
        BY <1>16, <3>3, <3>7, <3>8
    <2>2. n \in 0..n
      BY <1>1
    <2> QED
      BY <2>1, <2>2
  <1>17. above[n] \subseteq nodes
    BY <1>1, <1>12
  <1> QED
    BY <1>2, <1>15, <1>16, <1>17

\* A finite set is mapped onto itself as soon as it is mapped into itself without
\* two of its members meeting.
LEMMA Onto ==
    ASSUME NEW s, IsFiniteSet(s), NEW f \in [s -> s], \A x, y \in s : f[x] = f[y] => x = y
    PROVE  \A y \in s : \E x \in s : f[x] = y
  <1>1. f \in Injection(s, s)
    BY DEF Injection, IsInjective
  <1>2. f \in Surjection(s, s)
    BY <1>1, FS_Injection
  <1> QED
    BY <1>2 DEF Surjection

\* Who leads to somebody of a cycle's nodes is one of them, and leads to one only.
LEMMA CycleIsOneToOne ==
    ASSUME NEW s, IsFiniteSet(s), NEW up, s = Onward(up, s)
    PROVE  /\ \A x \in s : up[x] \in s
           /\ \A x, y \in s : up[x] = up[y] => x = y
  <1> DEFINE pre == [y \in s |-> CHOOSE x \in s : up[x] = y]
  <1>1. \A y \in s : \E x \in s : up[x] = y
    BY DEF Onward
  <1>2. \A y \in s : pre[y] \in s /\ up[pre[y]] = y
    BY <1>1
  <1>3. pre \in [s -> s]
    BY <1>2
  <1> HIDE DEF pre
  <1>4. \A x \in s : \E y \in s : pre[y] = x
    <2>1. \A x, y \in s : pre[x] = pre[y] => x = y
      BY <1>2
    <2> QED
      BY <1>3, <2>1, Onto
  <1>5. \A x \in s : up[x] \in s
    BY <1>2, <1>4
  <1>6. ASSUME NEW x \in s, NEW y \in s, up[x] = up[y]
        PROVE  x = y
    <2>1. PICK a \in s : pre[a] = x
      BY <1>4
    <2>2. PICK b \in s : pre[b] = y
      BY <1>4
    <2>3. up[x] = a /\ up[y] = b
      BY <1>2, <2>1, <2>2
    <2> QED
      BY <1>6, <2>1, <2>2, <2>3
  <1> QED
    BY <1>5, <1>6

\* One node that is led elsewhere comes onto no cycle if it leads nowhere, if nobody
\* leads to it, or if it leads into a set of nodes that is without it and that
\* nothing leaves.
LEMMA NoNewCycle ==
    ASSUME NEW nodes, IsFiniteSet(nodes), None \notin nodes,
           NEW f \in [nodes -> nodes \cup {None}], NEW g \in [nodes -> nodes \cup {None}],
           NEW s \in nodes, \A x \in nodes \ {s} : g[x] = f[x],
           \/ g[s] = None
           \/ \A x \in nodes : g[x] # s
           \/ \E w \in SUBSET nodes :
                 s \notin w /\ g[s] \in w /\ \A x \in w : f[x] \in w \cup {None}
    PROVE  Cyclic(g) \subseteq Cyclic(f)
  <1> DEFINE c == Cyclic(g)
  <1>1. c \in SUBSET nodes /\ c = Onward(g, c)
    BY CyclicIs
  <1>2. \A t \in SUBSET nodes : t \subseteq Onward(f, t) => t \subseteq Cyclic(f)
    BY CyclicIs
  <1> HIDE DEF c
  <1>3. IsFiniteSet(c)
    BY <1>1, FS_Subset
  <1>4. /\ \A x \in c : g[x] \in c
        /\ \A x, y \in c : g[x] = g[y] => x = y
    BY <1>1, <1>3, CycleIsOneToOne
  <1>5. s \notin c
    <2> SUFFICES ASSUME s \in c PROVE FALSE
      OBVIOUS
    <2>1. CASE g[s] = None
      BY <1>1, <1>4, <2>1
    <2>2. CASE \A x \in nodes : g[x] # s
      BY <1>1, <2>2 DEF Onward
    <2>3. ASSUME NEW w \in SUBSET nodes, s \notin w, g[s] \in w, \A x \in w : f[x] \in w \cup {None}
          PROVE  FALSE
      <3> DEFINE t == c \cap w
                 h == [x \in t |-> g[x]]
      <3>1. t \in SUBSET c /\ s \notin t
        BY <2>3
      <3>2. IsFiniteSet(t)
        BY <1>3, <3>1, FS_Subset
      <3>3. ASSUME NEW x \in t
            PROVE  g[x] \in t
        <4>1. x \in nodes \ {s} /\ x \in w /\ x \in c
          BY <1>1, <3>1
        <4>2. g[x] = f[x] /\ f[x] \in w \cup {None} /\ g[x] \in c
          BY <1>4, <2>3, <4>1
        <4>3. g[x] # None
          BY <1>1, <4>2
        <4> QED
          BY <4>2, <4>3
      <3>4. h \in [t -> t]
        BY <3>3
      <3>5. \A x, y \in t : h[x] = h[y] => x = y
        BY <1>4, <3>1
      <3> HIDE DEF h
      <3>6. \A y \in t : \E x \in t : h[x] = y
        BY <3>2, <3>4, <3>5, Onto
      <3>7. g[s] \in t
        BY <1>4, <2>3
      <3>8. PICK x \in t : h[x] = g[s]
        BY <3>6, <3>7
      <3>9. g[x] = g[s]
        BY <3>8 DEF h
      <3> QED
        BY <1>4, <3>1, <3>9
    <2> QED
      BY <2>1, <2>2, <2>3
  <1>6. c \subseteq Onward(f, c)
    BY <1>1, <1>5 DEF Onward
  <1> QED
    BY <1>1, <1>2, <1>6 DEF c

\* Nothing changes where nothing does.
LEMMA SameCycles ==
    ASSUME NEW nodes, NEW f \in [nodes -> nodes \cup {None}], NEW g \in [nodes -> nodes \cup {None}],
           \A x \in nodes : g[x] = f[x]
    PROVE  Cyclic(g) \subseteq Cyclic(f)
  <1>1. g = f
    OBVIOUS
  <1> QED
    BY <1>1

-----------------------------------------------------------------------------
(* What a walk has seen                                                    *)

\* No department comes under another.
UnitsKept == \A u \in Units : unit'[u].parent = unit[u].parent

\* The call c ends, or wants what it wanted.
Aims(c) ==
    LET p == call[c]
        q == call'[c]
    IN  \/ q.op = "NONE"
        \/ /\ q.op = p.op /\ q.subject = p.subject /\ q.to = p.to /\ q.outdated = p.outdated

\* A call that has nothing to walk, or nothing yet.
Unwalked(q) ==
    /\ q.pc \in {"read", "scope", "manager"} => q.visited = {}
    /\ \/ q.op \notin {"ASSIGN", "MOVE"}
       \/ q.to = None
       \/ q.pc \notin {"walk", "begin", "commit", "write"}

LEMMA UnwalkedWalked ==
    ASSUME NEW c \in Calls, NEW q, call'[c] = q, Unwalked(q)
    PROVE  Walked(call[c])'
  BY DEF Unwalked, Walked

\* What ends holds nothing.
LEMMA EndsUnwalked ==
    ASSUME TypeInv, NEW c \in Calls,
           Finish(c) \/ WriteAs(c, Over) \/ Become(c, [Fresh EXCEPT !.pc = "lost"])
    PROVE  call'[c].op = "NONE" /\ Aims(c) /\ Walked(call[c])'
  <1> DEFINE lost == [Fresh EXCEPT !.pc = "lost"]
  <1>1. call'[c] = Over \/ call'[c] = lost
    BY Telling DEF Finish
  <1>2. /\ Over.op = "NONE" /\ Over.pc = "over" /\ Unwalked(Over)
        /\ lost.op = "NONE" /\ lost.pc = "lost" /\ Unwalked(lost)
    BY FreshTyped DEF Unwalked
  <1> HIDE DEF lost
  <1> QED
    BY <1>1, <1>2, UnwalkedWalked DEF Aims

\* A call that goes on to its next statement keeps what it is about.
LEMMA GoesOnAs ==
    ASSUME TypeInv, NEW c \in Calls, NEW pc,
           Goto(c, pc) \/ WriteAs(c, [call[c] EXCEPT !.pc = pc])
    PROVE  LET p == call[c]
               q == call'[c]
           IN  /\ q.pc = pc /\ q.op = p.op /\ q.subject = p.subject /\ q.to = p.to
               /\ q.at = p.at /\ q.visited = p.visited /\ q.outdated = p.outdated
  <1> DEFINE q == [call[c] EXCEPT !.pc = pc]
  <1>1. call[c] \in Call
    BY DEF TypeInv, TypeOK
  <1>2. call'[c] = q
    BY Telling DEF Goto
  <1> QED
    BY <1>1, <1>2 DEF Call

\* A request has walked nowhere: a department that moves begins at its new parent.
LEMMA RequestWalks ==
    ASSUME TypeInv, NEW c \in Calls, Request(c)
    PROVE  /\ Walked(call[c])' /\ UNCHANGED <<employee, unit>>
           /\ call'[c].op \in {"ASSIGN", "CREATE"} => call'[c].to \in Present \cup {None}
  <1> DEFINE Goal == /\ Walked(call[c])' /\ UNCHANGED <<employee, unit>>
                     /\ call'[c].op \in {"ASSIGN", "CREATE"} => call'[c].to \in Present \cup {None}
  <1>1. /\ Fresh \in Call /\ call \in [Calls -> Call]
        /\ Fresh.visited = {}
    BY FreshTyped DEF TypeInv, TypeOK, Fresh
  <1>2. ASSUME NEW q, Arrive(c, q), Unwalked(q),
               q.op \in {"ASSIGN", "CREATE"} => q.to \in Present \cup {None}
        PROVE  Goal
    <2>1. call'[c] = q /\ UNCHANGED <<employee, unit>>
      BY <1>1, <1>2 DEF Arrive, Become
    <2> QED
      BY <1>2, <2>1, UnwalkedWalked
  <1>3. ASSUME NEW e, NEW lead, NEW op, NEW to, ArriveUpdate(c, e, lead, op, to)
        PROVE  Goal
    <2> DEFINE q == [Fresh EXCEPT !.pc = "read", !.op = op, !.subject = e, !.lead = lead, !.to = to]
    <2>1. q.pc = "read" /\ q.op = op /\ q.to = to /\ q.visited = {}
      BY <1>1 DEF Call
    <2>2. Arrive(c, q) /\ op \in {"ASSIGN", "PLACE"} /\ (op = "ASSIGN" => to \in Present \cup {None})
      BY <1>3, Zenon DEF ArriveUpdate
    <2> HIDE DEF q, Goal
    <2> QED
      BY <1>2, <2>1, <2>2 DEF Unwalked
  <1>4. ASSUME NEW e, NEW s, ArriveStatus(c, e, s)
        PROVE  Goal
    <2> DEFINE q == [Fresh EXCEPT !.pc = "read", !.op = "STATUS", !.subject = e, !.to = s]
    <2>1. q.op = "STATUS" /\ q.visited = {}
      BY <1>1 DEF Call
    <2>2. Arrive(c, q)
      BY <1>4 DEF ArriveStatus
    <2> HIDE DEF q, Goal
    <2> QED
      BY <1>2, <2>1, <2>2 DEF Unwalked
  <1>5. ASSUME NEW e, ArriveArchive(c, e)
        PROVE  Goal
    <2> DEFINE q == [Fresh EXCEPT !.pc = "read", !.op = "ARCHIVE", !.subject = e]
    <2>1. q.op = "ARCHIVE" /\ q.visited = {}
      BY <1>1 DEF Call
    <2>2. Arrive(c, q)
      BY <1>5 DEF ArriveArchive
    <2> HIDE DEF q, Goal
    <2> QED
      BY <1>2, <2>1, <2>2 DEF Unwalked
  <1>6. ASSUME NEW e, ArriveStart(c, e)
        PROVE  Goal
    <2> DEFINE q == [Fresh EXCEPT !.pc = "read", !.op = "START", !.subject = e]
    <2>1. q.op = "START" /\ q.visited = {}
      BY <1>1 DEF Call
    <2>2. Arrive(c, q)
      BY <1>6 DEF ArriveStart
    <2> HIDE DEF q, Goal
    <2> QED
      BY <1>2, <2>1, <2>2 DEF Unwalked
  <1>7. ASSUME NEW e, NEW t, NEW done, ArriveTask(c, e, t, done)
        PROVE  Goal
    <2> DEFINE q == [Fresh EXCEPT !.pc = "read", !.op = "TASK", !.subject = e, !.to = t, !.flag = done]
    <2>1. q.op = "TASK" /\ q.visited = {}
      BY <1>1 DEF Call
    <2>2. Arrive(c, q)
      BY <1>7 DEF ArriveTask
    <2> HIDE DEF q, Goal
    <2> QED
      BY <1>2, <2>1, <2>2 DEF Unwalked
  <1>8. ASSUME NEW n, NEW m, ArriveCreate(c, n, m), m \in Present \cup {None}
        PROVE  Goal
    <2> DEFINE first == IF m = None THEN "issue" ELSE "manager"
               q == [Fresh EXCEPT !.pc = first, !.op = "CREATE", !.subject = n, !.to = m]
    <2>1. q.op = "CREATE" /\ q.visited = {} /\ q.to = m
      BY <1>1 DEF Call
    <2>2. Arrive(c, q)
      BY <1>8 DEF ArriveCreate
    <2> HIDE DEF q, Goal
    <2> QED
      BY <1>2, <1>8, <2>1, <2>2 DEF Unwalked
  <1>9. ASSUME NEW d, NEW p, ArriveMove(c, d, p), p \in Departments \cup {None}
        PROVE  Goal
    <2> DEFINE first == IF p = None THEN "write" ELSE "walk"
               q == [Fresh EXCEPT !.pc = first, !.op = "MOVE", !.subject = d, !.to = p, !.at = p]
    <2>1. /\ q.op = "MOVE" /\ q.visited = {} /\ q.to = p /\ q.at = p /\ q.pc = first /\ q.subject = d
      BY <1>1 DEF Call
    <2>2. Arrive(c, q) /\ d # p
      BY <1>9, Zenon DEF ArriveMove
    <2>3. call'[c] = q /\ UNCHANGED <<employee, unit>>
      BY <1>1, <2>2 DEF Arrive, Become
    <2>4. CASE p = None
      <3> HIDE DEF q, Goal
      <3> QED
        BY <1>2, <2>1, <2>2, <2>4 DEF Unwalked
    <2>5. CASE p # None
      <3>1. q.pc = "walk" /\ p \in Units
        BY <1>9, <2>1, <2>5 DEF Departments
      <3> HIDE DEF q, first
      <3>2. Walked(call[c])'
        BY <2>1, <2>2, <2>3, <3>1 DEF Walked, Chain
      <3> QED
        BY <2>1, <2>3, <3>2
    <2> QED
      BY <2>4, <2>5
  <1>10. ASSUME NEW u, NEW kind, NEW active, ArriveSwitch(c, u, kind, active)
         PROVE  Goal
    <2> DEFINE first == IF active THEN "write" ELSE "occupied"
               q == [Fresh EXCEPT !.pc = first, !.op = "SWITCH", !.subject = u, !.flag = active]
    <2>1. q.op = "SWITCH" /\ q.visited = {}
      BY <1>1 DEF Call
    <2>2. Arrive(c, q)
      BY <1>10 DEF ArriveSwitch
    <2> HIDE DEF q, Goal
    <2> QED
      BY <1>2, <2>1, <2>2 DEF Unwalked
  <1>11. Goal
    <2> HIDE DEF Goal
    <2> QED
      BY <1>3, <1>4, <1>5, <1>6, <1>7, <1>8, <1>9, <1>10, Zenon
      DEF Request, SetDepartmentActive, SetDesignationActive, SetBranchActive
  <1> QED
    BY <1>11

\* The first read, the scope and the manager: the walk begins at the new manager.
LEMMA ReadWalks ==
    ASSUME TypeInv, WalkInv, NEW c \in Calls, ReadEmployee(c)
    PROVE  Aims(c) /\ Walked(call[c])'
  <1> DEFINE p == call[c]
             e == employee[p.subject]
             found == CASE p.op = "ASSIGN" -> e.manager
                        [] p.op = "PLACE" -> e.unit[FieldOf(p.to)]
                        [] p.op = "STATUS" -> e.status
                        [] p.op = "TASK" -> e.onboarding
                        [] OTHER -> None
             next == CASE p.op \in {"ASSIGN", "PLACE"} /\ p.lead # None -> "scope"
                       [] p.op = "ASSIGN" /\ p.to # None -> "manager"
                       [] p.op = "ARCHIVE" -> "count"
                       [] p.op \in {"START", "TASK"} -> "find"
                       [] OTHER -> "begin"
             q == [p EXCEPT !.seen = found, !.pc = next]
  <1>1. p \in Call /\ Stage(p) /\ Walked(p)
    BY DEF TypeInv, TypeOK, Stages, WalkInv
  <1>2. p.pc = "read" /\ Become(c, q)
    BY DEF ReadEmployee
  <1>3. p.op \in {"ASSIGN", "PLACE", "STATUS", "ARCHIVE", "START", "TASK"} /\ p.visited = {}
    BY <1>1, <1>2 DEF Stage, Walked
  <1>4. p.op = "ASSIGN" => p.to = None \/ next \in {"scope", "manager"}
    BY <1>3
  <1> HIDE DEF found, next
  <1>5. /\ q.pc = next /\ q.op = p.op /\ q.subject = p.subject /\ q.to = p.to
        /\ q.visited = p.visited /\ q.outdated = p.outdated
    BY <1>1 DEF Call
  <1>6. call'[c] = q
    BY <1>2, Telling
  <1> HIDE DEF q, p
  <1>7. Unwalked(q)
    BY <1>3, <1>4, <1>5 DEF Unwalked
  <1> QED
    BY <1>5, <1>6, <1>7, UnwalkedWalked DEF Aims, p

LEMMA ScopeWalks ==
    ASSUME TypeInv, WalkInv, NEW c \in Calls, AssertManagerMayChange(c)
    PROVE  Aims(c) /\ Walked(call[c])'
  <1> DEFINE p == call[c]
             next == IF p.op = "ASSIGN" /\ p.to # None THEN "manager" ELSE "begin"
  <1>1. Stage(p) /\ Walked(p)
    BY DEF TypeInv, Stages, WalkInv
  <1>2. p.pc = "scope" /\ (Finish(c) \/ Goto(c, next))
    BY Zenon DEF AssertManagerMayChange
  <1>3. p.op \in {"ASSIGN", "PLACE"} /\ p.visited = {}
    BY <1>1, <1>2 DEF Stage, Walked
  <1>4. CASE Goto(c, next)
    <2>1. /\ call'[c].pc = next /\ call'[c].op = p.op /\ call'[c].subject = p.subject
          /\ call'[c].to = p.to /\ call'[c].visited = p.visited /\ call'[c].outdated = p.outdated
      BY <1>4, GoesOnAs
    <2>2. Unwalked(call'[c])
      BY <1>3, <2>1 DEF Unwalked
    <2> QED
      BY <2>1, <2>2, UnwalkedWalked DEF Aims
  <1> QED
    BY <1>2, <1>4, EndsUnwalked

LEMMA ManagerWalks ==
    ASSUME TypeInv, WalkInv, NEW c \in Calls, AssertValidManager(c)
    PROVE  Aims(c) /\ Walked(call[c])'
  <1> DEFINE p == call[c]
             next == IF p.op = "CREATE" THEN "issue" ELSE "walk"
             q == [p EXCEPT !.pc = next, !.at = p.to]
  <1>1. p \in Call /\ Stage(p) /\ Walked(p)
    BY DEF TypeInv, TypeOK, Stages, WalkInv
  <1>2. p.pc = "manager" /\ (Finish(c) \/ (p.to # p.subject /\ Become(c, q)))
    BY Zenon DEF AssertValidManager
  <1>3. p.op \in {"ASSIGN", "CREATE"} /\ p.to \in People /\ p.visited = {}
    BY <1>1, <1>2 DEF Stage, Walked
  <1>4. /\ q.pc = next /\ q.op = p.op /\ q.to = p.to /\ q.subject = p.subject /\ q.at = p.to
        /\ q.visited = p.visited /\ q.outdated = p.outdated
    BY <1>1 DEF Call
  <1>5. CASE p.to # p.subject /\ Become(c, q)
    <2>1. call'[c] = q
      BY <1>5, Telling
    <2> HIDE DEF q, p
    <2>2. Walked(call[c])'
      BY <1>3, <1>4, <1>5, <2>1 DEF Walked, Chain
    <2> QED
      BY <1>4, <2>1, <2>2 DEF Aims, p
  <1> QED
    BY <1>2, <1>5, EndsUnwalked

\* One row of the chain more, or the end of it.
LEMMA WalkWalks ==
    ASSUME TypeInv, WalkInv, NEW c \in Calls, Walk(c)
    PROVE  Aims(c) /\ Walked(call[c])'
  <1> DEFINE p == call[c]
             up == Up(p.at)
             next == IF p.op = "MOVE" THEN "write" ELSE "begin"
             q == [p EXCEPT !.visited = @ \cup {p.at}, !.at = up]
  <1>1. p \in Call /\ Stage(p) /\ Walked(p)
    BY DEF TypeInv, TypeOK, Stages, WalkInv
  <1>2. /\ p.pc = "walk" /\ UNCHANGED <<employee, unit>>
        /\ \/ Finish(c)
           \/ (up = None \/ (up # p.subject /\ p.at \in p.visited)) /\ Goto(c, next)
           \/ up # p.subject /\ up # None /\ Become(c, q)
    BY Zenon DEF Walk
  <1>3. p.op \in {"ASSIGN", "MOVE"}
    BY <1>1, <1>2 DEF Stage
  <1>4. \A x : Up(x)' = Up(x)
    BY <1>2 DEF Up
  <1>5. CASE (up = None \/ (up # p.subject /\ p.at \in p.visited)) /\ Goto(c, next)
    <2>1. /\ call'[c].pc = next /\ call'[c].op = p.op /\ call'[c].subject = p.subject
          /\ call'[c].to = p.to /\ call'[c].visited = p.visited /\ call'[c].at = p.at
          /\ call'[c].outdated = p.outdated
      <3>1. Goto(c, next)
        BY <1>5
      <3> HIDE DEF next
      <3> QED
        BY <3>1, GoesOnAs
    <2>2. ASSUME ~p.outdated, p.to # None
          PROVE  up \in Chain(p) \cup {None}
      BY <1>1, <1>2, <1>3, <1>5, <2>2 DEF Walked
    <2> HIDE DEF p, up
    <2>3. Walked(call[c])'
      BY <1>1, <1>2, <1>3, <1>4, <2>1, <2>2 DEF Walked, Chain, up
    <2> QED
      BY <2>1, <2>3 DEF Aims, p
  <1>6. CASE up # p.subject /\ up # None /\ Become(c, q)
    <2>1. /\ q.pc = "walk" /\ q.op = p.op /\ q.subject = p.subject /\ q.to = p.to
          /\ q.visited = p.visited \cup {p.at} /\ q.at = up /\ q.outdated = p.outdated
      BY <1>1, <1>2 DEF Call
    <2>2. call'[c] = q
      BY <1>6, Telling
    <2>3. ASSUME ~p.outdated, p.to # None
          PROVE  /\ p.at \in (IF p.op = "ASSIGN" THEN People ELSE Units)
                 /\ up \in (IF p.op = "ASSIGN" THEN People ELSE Units)
      <3>1. p.at \in (IF p.op = "ASSIGN" THEN People ELSE Units)
        BY <1>1, <1>2, <1>3, <2>3 DEF Walked, Chain
      <3>2. CASE p.op = "ASSIGN"
        BY <1>6, <3>1, <3>2 DEF Up, TypeInv, TypeOK, Employee
      <3>3. CASE p.op = "MOVE"
        <4>1. p.at \in Units /\ p.at \notin People
          BY <3>1, <3>3, PeopleAssumption
        <4> QED
          BY <1>6, <3>3, <4>1 DEF Up, TypeInv, TypeOK, Unit
      <3> QED
        BY <1>3, <3>1, <3>2, <3>3
    <2> HIDE DEF q, p, up
    <2>4. Walked(call[c])'
      BY <1>1, <1>2, <1>3, <1>4, <1>6, <2>1, <2>2, <2>3 DEF Walked, Chain, up
    <2> QED
      BY <2>1, <2>2, <2>4 DEF Aims, p
  <1> QED
    BY <1>2, <1>5, <1>6, EndsUnwalked

\* The transaction begins where the walk has ended.
LEMMA BeginWalks ==
    ASSUME TypeInv, WalkInv, NEW c \in Calls, BeginUpdate(c) \/ CountActiveDirectReports(c)
    PROVE  Aims(c) /\ Walked(call[c])'
  <1> DEFINE p == call[c]
  <1>1. Stage(p) /\ Walked(p)
    BY DEF TypeInv, Stages, WalkInv
  <1>2. /\ UNCHANGED <<employee, unit>>
        /\ \/ Finish(c)
           \/ p.pc \in {"begin", "count"} /\ Goto(c, "commit")
    BY Zenon DEF BeginUpdate, CountActiveDirectReports
  <1>3. \A x : Up(x)' = Up(x)
    BY <1>2 DEF Up
  <1>4. CASE p.pc \in {"begin", "count"} /\ Goto(c, "commit")
    <2>1. /\ call'[c].pc = "commit" /\ call'[c].op = p.op /\ call'[c].subject = p.subject
          /\ call'[c].to = p.to /\ call'[c].visited = p.visited /\ call'[c].at = p.at
          /\ call'[c].outdated = p.outdated
      BY <1>4, GoesOnAs
    <2>2. p.pc = "count" => p.op = "ARCHIVE"
      BY <1>1 DEF Stage
    <2> HIDE DEF p
    <2>3. Walked(call[c])'
      BY <1>1, <1>3, <1>4, <2>1, <2>2 DEF Walked, Chain
    <2> QED
      BY <2>1, <2>3 DEF Aims, p
  <1> QED
    BY <1>2, <1>4, EndsUnwalked

\* The other steps walk nothing.
LEMMA OthersWalk ==
    ASSUME TypeInv, NEW c \in Calls,
           \/ IssueNextNumber(c) \/ FindOnboarding(c) \/ CountIncomplete(c) \/ ExistsActiveIn(c)
           \/ CreateChecklist(c) \/ CreateTasks(c) \/ SetCompleted(c) \/ MarkCompleted(c)
           \/ SetInProgress(c) \/ SetOnboardingCompleted(c)
           \/ Commit(c) \/ Insert(c) \/ UpdateUnit(c)
    PROVE  Aims(c) /\ Walked(call[c])'
  <1> DEFINE p == call[c]
             n == [p EXCEPT !.pc = "insert", !.number = counter]
             at(pc) == [p EXCEPT !.pc = pc]
  <1>1. p \in Call /\ Stage(p)
    BY DEF TypeInv, TypeOK, Stages
  <1>2. ASSUME p.op \notin {"ASSIGN", "MOVE"},
               NEW pc \in {"insert", "checklist", "toggle", "stamp", "progress", "write", "tasks",
                           "remaining", "settle"},
               call'[c].pc = pc, call'[c].op = p.op, call'[c].subject = p.subject,
               call'[c].to = p.to, call'[c].outdated = p.outdated
        PROVE  Aims(c) /\ Walked(call[c])'
    <2>1. Unwalked(call'[c])
      BY <1>2 DEF Unwalked
    <2> QED
      BY <1>2, <2>1, UnwalkedWalked DEF Aims
  <1>3. CASE IssueNextNumber(c)
    <2>1. p.pc = "issue" /\ call'[c] = n
      BY <1>3, Telling DEF IssueNextNumber
    <2>2. n.pc = "insert" /\ n.op = p.op /\ n.subject = p.subject /\ n.to = p.to /\ n.outdated = p.outdated
      BY <1>1 DEF Call
    <2>3. p.op = "CREATE"
      BY <1>1, <2>1 DEF Stage
    <2> HIDE DEF n
    <2> QED
      BY <1>2, <2>1, <2>2, <2>3
  <1>4. ASSUME p.pc \in {"find", "remaining", "occupied", "checklist", "tasks", "toggle", "stamp"},
               NEW pc \in {"insert", "checklist", "toggle", "stamp", "progress", "write", "tasks",
                           "remaining", "settle"},
               Goto(c, pc) \/ WriteAs(c, at(pc))
        PROVE  Aims(c) /\ Walked(call[c])'
    <2>1. /\ call'[c].pc = pc /\ call'[c].op = p.op /\ call'[c].subject = p.subject
          /\ call'[c].to = p.to /\ call'[c].outdated = p.outdated
      BY <1>4, GoesOnAs
    <2>2. p.op \notin {"ASSIGN", "MOVE"}
      BY <1>1, <1>4 DEF Stage
    <2> QED
      BY <1>2, <2>1, <2>2
  <1>5. CASE FindOnboarding(c) \/ CountIncomplete(c) \/ ExistsActiveIn(c)
    <2>1. \/ Finish(c)
          \/ p.pc = "find" /\ Goto(c, "checklist")
          \/ p.pc = "find" /\ Goto(c, "toggle")
          \/ p.pc = "remaining" /\ Goto(c, "stamp")
          \/ p.pc = "remaining" /\ Goto(c, "progress")
          \/ p.pc = "occupied" /\ Goto(c, "write")
      BY <1>5, Zenon DEF FindOnboarding, CountIncomplete, ExistsActiveIn
    <2> QED
      BY <1>4, <2>1, EndsUnwalked
  <1>6. CASE CreateChecklist(c) \/ CreateTasks(c) \/ SetCompleted(c) \/ MarkCompleted(c)
    <2>1. \/ Finish(c)
          \/ p.pc = "checklist" /\ WriteAs(c, at("tasks"))
          \/ p.pc = "tasks" /\ WriteAs(c, at("progress"))
          \/ p.pc = "toggle" /\ WriteAs(c, at("remaining"))
          \/ p.pc = "stamp" /\ WriteAs(c, at("settle"))
      BY <1>6, Zenon DEF CreateChecklist, CreateTasks, SetCompleted, MarkCompleted
    <2> HIDE DEF at
    <2> QED
      BY <1>4, <2>1, EndsUnwalked
  <1>7. CASE SetInProgress(c) \/ SetOnboardingCompleted(c) \/ Commit(c) \/ Insert(c) \/ UpdateUnit(c)
    <2>1. Finish(c) \/ WriteAs(c, Over)
      BY <1>7, Zenon DEF SetInProgress, SetOnboardingCompleted, Commit, Insert, UpdateUnit
    <2> QED
      BY <2>1, EndsUnwalked
  <1> QED
    BY <1>3, <1>5, <1>6, <1>7

LEMMA StepWalks ==
    ASSUME TypeInv, WalkInv, NEW c \in Calls, Step(c)
    PROVE  Aims(c) /\ Walked(call[c])'
  <1>1. CASE ReadEmployee(c) \/ AssertManagerMayChange(c) \/ AssertValidManager(c) \/ Walk(c)
    BY <1>1, ReadWalks, ScopeWalks, ManagerWalks, WalkWalks
  <1>2. CASE BeginUpdate(c) \/ CountActiveDirectReports(c)
    BY <1>2, BeginWalks
  <1>3. CASE \/ IssueNextNumber(c) \/ FindOnboarding(c) \/ CountIncomplete(c) \/ ExistsActiveIn(c)
             \/ CreateChecklist(c) \/ CreateTasks(c) \/ SetCompleted(c) \/ MarkCompleted(c)
             \/ SetInProgress(c) \/ SetOnboardingCompleted(c)
             \/ Commit(c) \/ Insert(c) \/ UpdateUnit(c)
    BY <1>3, OthersWalk
  <1> HIDE DEF Aims, Walked
  <1> QED
    BY <1>1, <1>2, <1>3, Zenon DEF Step

\* Who changes the reporting line, and who the tree of departments.
LEMMA LineChanges ==
    ASSUME TypeInv, NEW c \in Calls, Step(c) \/ Crash(c)
    PROVE  /\ LineKept \/ Commit(c) \/ Insert(c)
           /\ UnitsKept \/ (call[c].op = "MOVE" /\ Tells(c, "departments"))
  <1>1. /\ UNCHANGED employee \/ Commit(c) \/ Insert(c) \/ SetInProgress(c) \/ SetOnboardingCompleted(c)
        /\ UNCHANGED unit \/ UpdateUnit(c)
    <2>1. CASE Crash(c)
      BY <2>1, Zenon DEF Crash
    <2>2. CASE \/ ReadEmployee(c) \/ AssertManagerMayChange(c) \/ AssertValidManager(c) \/ Walk(c)
               \/ BeginUpdate(c) \/ CountActiveDirectReports(c) \/ IssueNextNumber(c)
               \/ FindOnboarding(c) \/ CountIncomplete(c) \/ ExistsActiveIn(c)
      BY <2>2, Zenon DEF ReadEmployee, AssertManagerMayChange, AssertValidManager, Walk, BeginUpdate,
         CountActiveDirectReports, IssueNextNumber, FindOnboarding, CountIncomplete, ExistsActiveIn
    <2>3. CASE \/ CreateChecklist(c) \/ CreateTasks(c) \/ SetCompleted(c) \/ MarkCompleted(c)
               \/ SetInProgress(c) \/ SetOnboardingCompleted(c)
      BY <2>3, Zenon DEF CreateChecklist, CreateTasks, SetCompleted, MarkCompleted, SetInProgress,
         SetOnboardingCompleted
    <2>4. CASE Commit(c) \/ Insert(c) \/ UpdateUnit(c)
      BY <2>4, Zenon DEF Commit, Insert, UpdateUnit
    <2> QED
      BY <2>1, <2>2, <2>3, <2>4, Zenon DEF Step
  <1>2. employee \in [People -> Employee] /\ unit \in [Units -> Unit] /\ Stage(call[c])
    BY DEF TypeInv, TypeOK, Stages
  <1>3. ASSUME SetInProgress(c) \/ SetOnboardingCompleted(c)
        PROVE  LineKept
    <2> DEFINE s == call[c].subject
    <2>1. PICK stage \in {"IN_PROGRESS", "COMPLETED"} :
             /\ call[c].pc \in {"progress", "settle"}
             /\ employee' = [employee EXCEPT ![s].onboarding = stage]
      BY <1>3, Zenon DEF SetInProgress, SetOnboardingCompleted
    <2> HIDE DEF s
    <2> QED
      BY <1>2, <2>1 DEF Employee, LineKept
  <1>4. UNCHANGED employee => LineKept
    BY DEF LineKept
  <1>5. UNCHANGED unit => UnitsKept
    BY DEF UnitsKept
  <1>6. ASSUME UpdateUnit(c)
        PROVE  UnitsKept \/ (call[c].op = "MOVE" /\ Tells(c, "departments"))
    <2> DEFINE q == call[c]
    <2>1. /\ q.pc = "write" /\ WriteAs(c, Over)
          /\ unit' = IF q.op = "MOVE" THEN [unit EXCEPT ![q.subject].parent = q.to]
                     ELSE [unit EXCEPT ![q.subject].active = q.flag]
      BY <1>6, Zenon DEF UpdateUnit
    <2>2. CASE q.op = "MOVE"
      <3>1. Tells(c, Concern(q.op))
        BY <2>1, Telling
      <3>2. Concern(q.op) = "departments"
        BY <2>2 DEF Concern
      <3> QED
        BY <2>2, <3>1, <3>2
    <2>3. CASE q.op # "MOVE"
      <3>1. unit' = [unit EXCEPT ![q.subject].active = q.flag]
        BY <2>1, <2>3
      <3> HIDE DEF q
      <3>2. UnitsKept
        BY <1>2, <3>1 DEF Unit, UnitsKept
      <3> QED
        BY <3>2
    <2> QED
      BY <2>2, <2>3
  <1> HIDE DEF LineKept, UnitsKept, Tells
  <1>7. LineKept \/ Commit(c) \/ Insert(c)
    BY <1>1, <1>3, <1>4
  <1>8. UnitsKept \/ (call[c].op = "MOVE" /\ Tells(c, "departments"))
    BY <1>1, <1>5, <1>6
  <1> QED
    BY <1>7, <1>8

\* What the others have walked stays as they saw it, or they are told.
LEMMA WalksKeep ==
    ASSUME TypeInv, WalkInv, NEW c \in Calls, Leaves(c), LineKept \/ Tells(c, "line"),
           UnitsKept \/ Tells(c, "departments"), Walked(call[c])'
    PROVE  WalkInv'
  <1> SUFFICES ASSUME NEW d \in Calls \ {c} PROVE Walked(call[d])'
    BY DEF WalkInv
  <1> DEFINE p == call[d]
             q == call'[d]
  <1>1. /\ q.pc = p.pc /\ q.op = p.op /\ q.subject = p.subject /\ q.to = p.to /\ q.at = p.at
        /\ q.visited = p.visited /\ (p.outdated => q.outdated)
    BY DEF Leaves, Same
  <1>2. Walked(p) /\ Stage(p)
    BY DEF WalkInv, TypeInv, Stages
  <1>3. ASSUME Tells(c, "line"), p.op = "ASSIGN", p.pc \in {"walk", "begin", "commit", "write"}
        PROVE  q.outdated
    BY <1>3 DEF Tells, HasChecked, Concern
  <1>4. ASSUME Tells(c, "departments"), p.op = "MOVE", p.pc \in {"walk", "begin", "commit", "write"}
        PROVE  q.outdated
    BY <1>4 DEF Tells, HasChecked, Concern
  <1> DEFINE now(x) == IF x \in People THEN employee'[x].manager ELSE unit'[x].parent
  <1> HIDE DEF p, q
  <1>5. ASSUME ~q.outdated, q.op \in {"ASSIGN", "MOVE"}, q.to # None,
               q.pc \in {"walk", "begin", "commit", "write"}
        PROVE  /\ Chain(q) \subseteq (IF q.op = "ASSIGN" THEN People ELSE Units)
               /\ q.to \in Chain(q) /\ q.subject \notin Chain(q)
               /\ \A x \in q.visited : now(x) \in Chain(q) \cup {None}
               /\ q.pc # "walk" => now(q.at) \in Chain(q) \cup {None}
    <2>1. /\ Chain(p) \subseteq (IF p.op = "ASSIGN" THEN People ELSE Units)
          /\ p.to \in Chain(p) /\ p.subject \notin Chain(p)
          /\ \A x \in p.visited : Up(x) \in Chain(p) \cup {None}
          /\ p.pc # "walk" => Up(p.at) \in Chain(p) \cup {None}
      BY <1>1, <1>2, <1>5 DEF Walked
    <2>2. Chain(q) = Chain(p)
      BY <1>1 DEF Chain
    <2>3. \A x \in Chain(p) : now(x) = Up(x)
      <3> SUFFICES ASSUME NEW x \in Chain(p) PROVE now(x) = Up(x)
        OBVIOUS
      <3>1. CASE p.op = "ASSIGN"
        <4>1. LineKept /\ x \in People
          BY <1>1, <1>3, <1>5, <2>1, <3>1
        <4> QED
          BY <4>1 DEF LineKept, Up
      <3>2. CASE p.op = "MOVE"
        <4>1. UnitsKept /\ x \in Units
          BY <1>1, <1>4, <1>5, <2>1, <3>2
        <4> QED
          BY <4>1, PeopleAssumption DEF UnitsKept, Up
      <3> QED
        BY <1>1, <1>5, <3>1, <3>2
    <2>4. p.visited \subseteq Chain(p) /\ p.at \in Chain(p)
      BY DEF Chain
    <2> HIDE DEF now
    <2> QED
      BY <1>1, <2>1, <2>2, <2>3, <2>4
  <1>6. q.pc \in {"read", "scope", "manager"} => q.visited = {}
    BY <1>1, <1>2 DEF Walked
  <1>7. /\ \A x : now(x) = Up(x)'
        /\ Chain(q) = Chain(call[d])'
    BY DEF Up, Chain, q
  <1> HIDE DEF now
  <1> QED
    BY <1>5, <1>6, <1>7 DEF Walked, q

\* Nobody who manages somebody goes away, and a creation adds nobody else.
LEMMA ManagersKeep ==
    ASSUME TypeInv, ManagerInv, NEW c \in Calls, Leaves(c), LineKept \/ Commit(c) \/ Insert(c),
           \/ Aims(c)
           \/ (call'[c].op \in {"ASSIGN", "CREATE"} => call'[c].to \in Present \cup {None})
    PROVE  ManagerInv'
  <1> DEFINE q == call[c]
  <1>1. /\ Present \subseteq Present'
        /\ \A e \in People : \/ employee'[e].manager = employee[e].manager
                             \/ q.op \in {"ASSIGN", "CREATE"} /\ employee'[e].manager = q.to
    <2>1. CASE LineKept
      BY <2>1 DEF LineKept, Present
    <2>2. CASE Commit(c)
      <3>1. \A e \in People :
               /\ employee'[e].present = employee[e].present
               /\ employee'[e].manager =
                     IF e = q.subject /\ q.op = "ASSIGN" THEN q.to ELSE employee[e].manager
        BY <2>2, CommitWrites
      <3> HIDE DEF q
      <3> QED
        BY <3>1 DEF Present
    <2>3. CASE Insert(c)
      <3>1. /\ q.op = "CREATE"
            /\ \/ employee' = employee
               \/ \A e \in People :
                     /\ e # q.subject => employee'[e] = employee[e]
                     /\ e = q.subject => employee'[e].present /\ employee'[e].manager = q.to
        BY <2>3, InsertWrites
      <3> HIDE DEF q
      <3> QED
        BY <3>1 DEF Present
    <2> QED
      BY <2>1, <2>2, <2>3
  <1>2. ASSUME NEW e \in People
        PROVE  employee'[e].manager \in Present' \cup {None}
    BY <1>1 DEF ManagerInv
  <1>3. ASSUME NEW d \in Calls, call'[d].op \in {"ASSIGN", "CREATE"}
        PROVE  call'[d].to \in Present' \cup {None}
    <2>1. CASE d = c
      BY <1>1, <1>3, <2>1 DEF ManagerInv, Aims
    <2>2. CASE d # c
      BY <1>1, <1>3, <2>2 DEF ManagerInv, Leaves, Same
    <2> QED
      BY <2>1, <2>2
  <1> QED
    BY <1>2, <1>3 DEF ManagerInv

LEMMA WalksAndManagersKeep ==
    ASSUME TypeInv, CheckInv, WalkInv, ManagerInv, [Next]_vars
    PROVE  WalkInv' /\ ManagerInv'
  <1>1. CASE EndOfDay \/ UNCHANGED vars
    <2>1. UNCHANGED <<employee, unit, call>>
      BY <1>1 DEF EndOfDay, vars
    <2>2. \A x : Up(x)' = Up(x)
      BY <2>1 DEF Up
    <2> QED
      BY <2>1, <2>2 DEF WalkInv, Walked, Chain, ManagerInv, Present
  <1>2. ASSUME NEW c \in Calls, Request(c)
        PROVE  WalkInv' /\ ManagerInv'
    <2>1. Leaves(c)
      BY <1>2, RequestSteady DEF Steady
    <2>2. /\ Walked(call[c])' /\ UNCHANGED <<employee, unit>>
          /\ call'[c].op \in {"ASSIGN", "CREATE"} => call'[c].to \in Present \cup {None}
      BY <1>2, RequestWalks
    <2>3. LineKept /\ UnitsKept
      BY <2>2 DEF LineKept, UnitsKept
    <2> QED
      BY <2>1, <2>2, <2>3, WalksKeep, ManagersKeep
  <1>3. ASSUME NEW c \in Calls, Step(c) \/ Crash(c)
        PROVE  WalkInv' /\ ManagerInv'
    <2>1. Leaves(c) /\ (LineKept \/ Tells(c, "line"))
      BY <1>3, StepSteady, CrashSteady DEF Steady
    <2>2. /\ LineKept \/ Commit(c) \/ Insert(c)
          /\ UnitsKept \/ Tells(c, "departments")
      BY <1>3, LineChanges
    <2>3. CASE Step(c)
      <3>1. Aims(c) /\ Walked(call[c])'
        BY <2>3, StepWalks
      <3> QED
        BY <2>1, <2>2, <3>1, WalksKeep, ManagersKeep
    <2>4. CASE Crash(c)
      <3>1. Become(c, [Fresh EXCEPT !.pc = "lost"])
        BY <2>4, Zenon DEF Crash
      <3>2. Aims(c) /\ Walked(call[c])'
        BY <3>1, EndsUnwalked
      <3> QED
        BY <2>1, <2>2, <3>2, WalksKeep, ManagersKeep
    <2> QED
      BY <1>3, <2>3, <2>4
  <1> QED
    BY <1>1, <1>2, <1>3 DEF Next

\* Who is there at the start, and whom each reports to.
LEMMA InitLine ==
    ASSUME Init, NEW e \in People
    PROVE  \E s \in Starts : /\ employee[e].manager = s.manager[e]
                              /\ \A x \in Hired : employee[x].present
  <1> DEFINE number == CHOOSE n \in [Hired -> 1..Cardinality(Hired)] : IsInjective(n)
             begun(s, x) == s.done # {None} /\ x \in Subjects["TASK"]
             stage(s, x) == IF ~begun(s, x) THEN "DRAFT"
                            ELSE IF s.done = Tasks THEN "COMPLETED" ELSE "IN_PROGRESS"
             no == FALSE
  <1>1. PICK s \in Starts : employee = [x \in People |->
           [present |-> x \in Hired, number |-> IF x \in Hired THEN number[x] ELSE 0,
            manager |-> s.manager[x], unit |-> NoPlacement, status |-> "ACTIVE",
            archived |-> no, onboarding |-> stage(s, x)]]
    BY Zenon DEF Init
  <1> HIDE DEF number, stage, no
  <1>2. employee[e].manager = s.manager[e]
    BY <1>1
  <1>3. \A x \in Hired : employee[x].present
    BY <1>1, PeopleAssumption
  <1> QED
    BY <1>2, <1>3

LEMMA InitWalked == Init => WalkInv /\ ManagerInv
  <1> SUFFICES ASSUME Init PROVE WalkInv /\ ManagerInv
    OBVIOUS
  <1>1. call = [c \in Calls |-> Fresh]
    BY DEF Init
  <1>2. Fresh.op = "NONE" /\ Fresh.visited = {}
    BY DEF Fresh
  <1>3. WalkInv
    BY <1>1, <1>2 DEF WalkInv, Walked
  <1>4. ASSUME NEW e \in People
        PROVE  employee[e].manager \in Present \cup {None}
    <2>1. \E s \in Starts : /\ employee[e].manager = s.manager[e]
                             /\ \A x \in Hired : employee[x].present
      BY InitLine
    <2>3. PICK s \in Starts : /\ employee[e].manager = s.manager[e]
                              /\ \A x \in Hired : employee[x].present
      BY <2>1
    <2>2. s.manager[e] \in Hired \cup {None}
      BY PeopleAssumption
    <2> QED
      BY <2>2, <2>3, PeopleAssumption DEF Present
  <1> QED
    BY <1>1, <1>2, <1>3, <1>4 DEF ManagerInv

LEMMA WalksHold == Spec => [](WalkInv /\ ManagerInv)
  <1>1. Init => WalkInv /\ ManagerInv
    BY InitWalked
  <1>2. TypeInv /\ CheckInv /\ WalkInv /\ ManagerInv /\ [Next]_vars => (WalkInv /\ ManagerInv)'
    BY WalksAndManagersKeep
  <1> QED
    BY <1>1, <1>2, EmployeesTyped, ChecksHold, PTL DEF Spec

\* assertNoCircularManagerHierarchy, assertNoCircularDepartmentHierarchy: a change
\* whose walk nobody else's change contradicts puts nobody on a cycle, also where
\* older cycles exist.
THEOREM FreshWalksCloseNoCycle == Spec => NoCycleFromAFreshWalk
  <1> DEFINE Kept == \A c \in Calls : Writes(c) /\ ~call[c].outdated => OnCycle' \subseteq OnCycle
  <1>1. ASSUME TypeInv, CheckInv, WalkInv, ManagerInv, [Next]_vars
        PROVE  Kept
    <2> SUFFICES ASSUME NEW c \in Calls, Writes(c), ~call[c].outdated
                 PROVE  OnCycle' \subseteq OnCycle
      OBVIOUS
    <2> DEFINE p == call[c]
               s == p.subject
               nodes == People \cup Units
               f == [x \in nodes |-> Up(x)]
               now(x) == IF x \in People THEN employee'[x].manager ELSE unit'[x].parent
               g == [x \in nodes |-> now(x)]
    <2>1. OnCycle = Cyclic(f) /\ OnCycle' = Cyclic(g)
      BY DEF OnCycle, Up
    <2>2. TypeInv' /\ Stage(p) /\ Walked(p)
      BY <1>1, NextMoves DEF TypeInv, Stages, WalkInv
    <2>3. IsFiniteSet(nodes) /\ None \notin nodes /\ People \cap Units = {}
      BY PeopleAssumption, FS_Union
    <2>4. f \in [nodes -> nodes \cup {None}]
      BY <1>1 DEF TypeInv, TypeOK, Employee, Unit, Up
    <2>5. g \in [nodes -> nodes \cup {None}]
      BY <2>2 DEF TypeInv, TypeOK, Employee, Unit
    <2>6. /\ \A x \in nodes : f[x] = Up(x) /\ g[x] = now(x)
          /\ \A x \in People : f[x] = employee[x].manager /\ g[x] = employee'[x].manager
          /\ \A x \in Units : f[x] = unit[x].parent /\ g[x] = unit'[x].parent
      BY <2>3 DEF Up
    <2> HIDE DEF f, g
    <2> SUFFICES Cyclic(g) \subseteq Cyclic(f)
      BY <2>1
    <2>7. ASSUME \A x \in nodes : g[x] = f[x]
          PROVE  Cyclic(g) \subseteq Cyclic(f)
      BY <2>4, <2>5, <2>7, SameCycles
    <2>8. ASSUME s \in nodes, \A x \in nodes \ {s} : g[x] = f[x], g[s] = p.to,
                 p.op \in {"ASSIGN", "MOVE"}, p.pc \in {"commit", "write"}
          PROVE  Cyclic(g) \subseteq Cyclic(f)
      <3>1. CASE p.to = None
        BY <2>3, <2>4, <2>5, <2>8, <3>1, NoNewCycle
      <3>2. CASE p.to # None
        <4> DEFINE w == Chain(p)
        <4>1. /\ w \subseteq (IF p.op = "ASSIGN" THEN People ELSE Units)
              /\ p.to \in w /\ s \notin w
              /\ \A x \in p.visited : Up(x) \in w \cup {None}
              /\ Up(p.at) \in w \cup {None}
          BY <2>2, <2>8, <3>2 DEF Walked
        <4>2. w \in SUBSET nodes
          BY <2>8, <4>1
        <4>3. \A x \in w : f[x] \in w \cup {None}
          BY <2>6, <4>1, <4>2 DEF Chain
        <4> HIDE DEF w
        <4>4. \E v \in SUBSET nodes :
                 s \notin v /\ g[s] \in v /\ \A x \in v : f[x] \in v \cup {None}
          BY <2>8, <4>1, <4>2, <4>3
        <4> QED
          BY <2>3, <2>4, <2>5, <2>8, <4>4, NoNewCycle
      <3> QED
        BY <3>1, <3>2
    <2>9. CASE Commit(c)
      <3>1. /\ p.pc = "commit" /\ s \in People
            /\ \A e \in People :
                  employee'[e].manager = IF e = s /\ p.op = "ASSIGN" THEN p.to ELSE employee[e].manager
        BY <1>1, <2>9, CommitWrites
      <3>2. unit' = unit
        BY <2>9, Zenon DEF Commit
      <3>3. \A x \in nodes : ~(x = s /\ p.op = "ASSIGN") => g[x] = f[x]
        BY <2>6, <3>1, <3>2
      <3>4. p.op = "ASSIGN" => g[s] = p.to
        BY <2>6, <3>1
      <3> QED
        BY <2>7, <2>8, <3>1, <3>3, <3>4
    <2>10. CASE Insert(c)
      <3>1. /\ p.op = "CREATE" /\ s \in People
            /\ \/ employee' = employee
               \/ /\ s \notin Present
                  /\ \A e \in People : /\ e # s => employee'[e] = employee[e]
                                       /\ e = s => employee'[e].manager = p.to
        BY <1>1, <2>10, InsertWrites
      <3>2. unit' = unit
        BY <2>10, Zenon DEF Insert
      <3>3. CASE employee' = employee
        <4>1. \A x \in nodes : g[x] = f[x]
          BY <2>6, <3>2, <3>3
        <4> QED
          BY <2>7, <4>1
      <3>4. CASE /\ s \notin Present
                 /\ \A e \in People : /\ e # s => employee'[e] = employee[e]
                                      /\ e = s => employee'[e].manager = p.to
        <4>1. \A x \in nodes \ {s} : g[x] = f[x]
          BY <2>6, <3>2, <3>4
        <4>2. p.to # s /\ \A x \in People : employee[x].manager # s
          BY <1>1, <2>3, <3>1, <3>4 DEF ManagerInv
        <4>3. \A x \in Units : g[x] # s
          BY <1>1, <2>3, <2>6, <3>1, <3>2 DEF TypeInv, TypeOK, Unit
        <4>4. \A x \in nodes : g[x] # s
          BY <2>6, <3>4, <4>2, <4>3
        <4> QED
          BY <2>3, <2>4, <2>5, <3>1, <4>1, <4>4, NoNewCycle
      <3> QED
        BY <3>1, <3>3, <3>4
    <2>11. CASE UpdateUnit(c)
      <3>1. /\ p.pc = "write" /\ employee' = employee
            /\ unit' = IF p.op = "MOVE" THEN [unit EXCEPT ![s].parent = p.to]
                       ELSE [unit EXCEPT ![s].active = p.flag]
        BY <2>11, Zenon DEF UpdateUnit
      <3>2. p.op \in {"MOVE", "SWITCH"} /\ s \in Units
        BY <2>2, <3>1 DEF Stage
      <3>3. unit \in [Units -> Unit]
        BY <1>1 DEF TypeInv, TypeOK
      <3>4. CASE p.op = "MOVE"
        <4>1. unit' = [unit EXCEPT ![s].parent = p.to]
          BY <3>1, <3>4
        <4> HIDE DEF p, s
        <4>2. unit'[s].parent = p.to /\ \A x \in Units \ {s} : unit'[x].parent = unit[x].parent
          BY <3>2, <3>3, <4>1 DEF Unit
        <4>3. g[s] = p.to /\ \A x \in nodes \ {s} : g[x] = f[x]
          BY <2>6, <3>1, <3>2, <4>2
        <4> QED
          BY <2>8, <3>1, <3>2, <3>4, <4>3
      <3>5. CASE p.op # "MOVE"
        <4>1. unit' = [unit EXCEPT ![s].active = p.flag]
          BY <3>1, <3>5
        <4> HIDE DEF p, s
        <4>2. \A x \in Units : unit'[x].parent = unit[x].parent
          BY <3>2, <3>3, <4>1 DEF Unit
        <4>3. \A x \in nodes : g[x] = f[x]
          BY <2>6, <3>1, <4>2
        <4> QED
          BY <2>7, <4>3
      <3> QED
        BY <3>4, <3>5
    <2> QED
      BY <1>1, <2>9, <2>10, <2>11, WhatWrites
  <1>2. TypeInv /\ CheckInv /\ (WalkInv /\ ManagerInv) /\ [Next]_vars => [Kept]_vars
    BY <1>1
  <1>3. Spec => [][Kept]_vars
    BY <1>2, EmployeesTyped, ChecksHold, WalksHold, PTL DEF Spec
  <1> QED
    BY <1>3 DEF NoCycleFromAFreshWalk
=============================================================================
