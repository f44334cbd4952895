---------------------------- MODULE Overview_proofs ----------------------------
(***************************************************************************)
(* What HR and managers are shown, for every number of employees, dates,   *)
(* viewers and dismissals: the pages, the figures above them, the export   *)
(* and the queue of exceptions.                                            *)
(***************************************************************************)
EXTENDS Overview, Employees_proofs

-----------------------------------------------------------------------------
(* The inductive invariants                                                *)

Watching == Viewers \cup Dismissers

\* What a view is about, by its stage.
Looking(q) ==
    /\ q.pc \in {"scope", "queries", "cells", "answer"} => q.op \in Listings
    /\ q.pc = "scope" => q.lead \in Leads
    /\ q.pc = "cells" => q.op = "calendar"
    /\ q.pc \in {"scope", "queries", "cells", "answer"} => q.page > 0
    /\ q.pc \in {"count", "fetch"} => q.op = "export"
    /\ q.pc \in {"exists", "upsert", "delete"} => q.op \in {"dismiss", "undismiss"} /\ q.about \in Dismissal
    /\ q.lead # None => q.op \in {"dashboard", "directory"}

ViewInv ==
    /\ TypeInv
    /\ record \in [People \X WorkDates -> DayRecords \cup {None}]
    /\ dismissal \subseteq Dismissal /\ noticed \subseteq Dismissal
    /\ view \in [Watching -> View]
    /\ writes \in 0..MaxWrites
    /\ \A v \in Watching : Looking(view[v])

\* A dismissal is of what has been seen, and so is what is about to be dismissed.
NoticeInv ==
    /\ dismissal \subseteq noticed
    /\ \A v \in Watching : view[v].pc = "upsert" => view[v].about \in noticed

\* Whom a manager's queries look at, and whoever has been shown, was in the line.
LineInv ==
    \A w \in Watching :
        LET q == view[w] IN
        q.lead # None =>
            /\ q.pc \in {"queries", "cells", "answer"} => q.scope \subseteq q.line
            /\ q.named \cup {r[1] : r \in q.shown} \subseteq q.line

\* An export that goes on to fetch has counted no more rows than it may have.
ExportInv ==
    \A w \in Watching :
        view[w].pc = "fetch" =>
            IsFiniteSet(view[w].counted) /\ Cardinality(view[w].counted) <= MaxExportRows

\* The dashboard's short lists, as they are now.
Named(q) ==
    {e \in Present \cap q.scope :
        /\ <<e, Today>> \in Recorded
        /\ record[<<e, Today>>].status \in {"LATE", "INCOMPLETE"}}

\* The cells of the people of the page.
CellsOf(rows) == {r \in Recorded : <<r[1], NoDate>> \in rows}

\* The pages so far, and the rows whose cells have been counted.
Pages(q) == IF "page" \in q.pending THEN q.page - 1 ELSE q.page

Counted(q) ==
    IF q.pc = "cells" \/ (q.pc = "queries" /\ "page" \notin q.pending) THEN q.shown \ q.last ELSE q.shown

\* The figures that have been read are those of the rows.
FiguresRight(q) ==
    /\ "total" \notin q.pending => q.total = Cardinality(Rows(q))
    /\ "headcount" \in QueriesOf(q.op) \ q.pending => q.headcount = Cardinality(Active \cap q.scope)
    /\ "counts" \in QueriesOf(q.op) \ q.pending => q.counts = Counts(q)
    /\ "lists" \in QueriesOf(q.op) \ q.pending => q.named = Named(q)

\* The smaller of two numbers: how many rows there are of those that pages may hold.
AtMost(n, m) == IF n <= m THEN n ELSE m

\* The rows shown so far are the first ones, as many as the pages hold.
RowsRight(q) ==
    /\ q.shown \subseteq Rows(q) /\ Leading(q.op, q.shown, Rows(q)) /\ ~q.repeated
    /\ Cardinality(q.shown) = AtMost(Pages(q) * PageSize, Cardinality(Rows(q)))
    /\ q.op = "calendar" => q.last \subseteq q.shown /\ q.cells = Cardinality(CellsOf(Counted(q)))

\* The ORDER BY of the listing says which of any two of its rows comes first.
InOrder(q) == q.op \in {"report", "calendar", "exceptions"} \/ Ordered(q)

\* A manager's queries look at the line as it is, once it has been read.
Lined(q) ==
    q.lead # None =>
        \/ q.scope = Scope(q.lead)
        \/ q.pc = "scope" /\ q.page = 1 /\ q.shown = {} /\ ~q.repeated

\* What an undisturbed view of a listing has come to.
PageInv(q) ==
    q.op \in Listings /\ ~q.disturbed =>
        /\ q.pc \in {"scope", "queries", "cells", "answer", "done"}
        /\ q.pc = "scope" => q.pending = QueriesOf(q.op)
        /\ q.pc \in {"cells", "answer", "done"} => q.pending = {}
        /\ FiguresRight(q) /\ Lined(q)
        /\ InOrder(q) => RowsRight(q)
        /\ q.pc = "done" => q.page * PageSize >= q.total

PagesInv == \A w \in Watching, q \in View : view[w] = q => PageInv(q)

-----------------------------------------------------------------------------
(* Views                                                                   *)

LEMMA FreshView == NoView \in View /\ Looking(NoView) /\ NoView.pc = "new"
  <1> DEFINE no == FALSE
             none == [l \in Labels |-> 0]
             all == Everything
             q == [pc |-> "new", op |-> "NONE", lead |-> None, types |-> {}, narrow |-> all,
                   about |-> None, scope |-> People,
                   page |-> 0, pending |-> {}, last |-> {}, shown |-> {}, repeated |-> no, named |-> {},
                   total |-> 0, headcount |-> 0, counts |-> none, cells |-> 0,
                   line |-> {}, disturbed |-> no, counted |-> {}]
  <1>1. NoView = q
    BY DEF NoView
  <1>2. no \in BOOLEAN /\ none \in [Labels -> Nat] /\ all \in Narrowing
    BY DEF Everything, Narrowing
  <1> HIDE DEF no, none, all
  <1>3. q \in View
    BY <1>2 DEF View
  <1>4. q.pc = "new" /\ q.lead = None
    OBVIOUS
  <1> HIDE DEF q
  <1> QED
    BY <1>1, <1>3, <1>4 DEF Looking

\* What a change of the world makes of the view of whoever is under way.
Unsettled(q) == [q EXCEPT !.disturbed = TRUE]

\* All that a change of the world does to a view.
Alike(p, q) ==
    /\ q.pc = p.pc /\ q.op = p.op /\ q.lead = p.lead /\ q.types = p.types /\ q.narrow = p.narrow
    /\ q.about = p.about /\ q.scope = p.scope /\ q.page = p.page /\ q.pending = p.pending
    /\ q.last = p.last /\ q.shown = p.shown /\ q.repeated = p.repeated /\ q.named = p.named
    /\ q.total = p.total /\ q.headcount = p.headcount /\ q.counts = p.counts /\ q.cells = p.cells
    /\ q.line = p.line /\ q.counted = p.counted

LEMMA Unsettling ==
    ASSUME NEW q \in View
    PROVE  LET u == Unsettled(q)
           IN  u \in View /\ Alike(q, u) /\ u.disturbed
  <1> DEFINE yes == TRUE
             u == [q EXCEPT !.disturbed = yes]
  <1>1. yes \in BOOLEAN /\ Unsettled(q) = u
    BY DEF Unsettled
  <1> HIDE DEF yes
  <1>2. u \in View /\ Alike(q, u) /\ u.disturbed = yes
    BY <1>1 DEF View, Alike
  <1> QED
    BY <1>1, <1>2 DEF yes

\* One view goes on, and the others stay as they are.
ShownTo(v, q) == view'[v] = q /\ \A w \in Watching \ {v} : view'[w] = view[w]

LEMMA Seeing ==
    ASSUME ViewInv, NEW v \in Watching, NEW q \in View, Looking(q), See(v, q)
    PROVE  /\ view' \in [Watching -> View] /\ \A w \in Watching : Looking(view'[w])
           /\ ShownTo(v, q)
  BY DEF ViewInv, See, ShownTo

\* Or something has changed under them.
Disturbs(v) ==
    \A w \in Watching \ {v} :
        IF view[w].pc = "new" THEN view'[w] = view[w] ELSE view'[w] = Unsettled(view[w])

LEMMA Disturbing ==
    ASSUME ViewInv, NEW v, NEW q \in View, Looking(q), SeeAs(v, q)
    PROVE  /\ view' \in [Watching -> View] /\ \A w \in Watching : Looking(view'[w])
           /\ v \in Watching => view'[v] = q
           /\ Disturbs(v)
  <1>1. view' = [w \in Watching |->
                   IF w = v THEN q
                   ELSE IF view[w].pc = "new" THEN view[w] ELSE Unsettled(view[w])]
    BY Zenon DEF SeeAs, Unsettled, Watching
  <1>2. ASSUME NEW w \in Watching
        PROVE  /\ view[w] \in View /\ Looking(view[w])
               /\ Unsettled(view[w]) \in View /\ Alike(view[w], Unsettled(view[w]))
    BY Unsettling DEF ViewInv
  <1>3. \A w \in Watching : Looking(Unsettled(view[w]))
    <2> SUFFICES ASSUME NEW w \in Watching PROVE Looking(Unsettled(view[w]))
      OBVIOUS
    <2> DEFINE u == Unsettled(view[w])
    <2>1. Alike(view[w], u) /\ Looking(view[w])
      BY <1>2
    <2> HIDE DEF u
    <2>2. Looking(u)
      BY <2>1 DEF Alike, Looking
    <2> QED
      BY <2>2 DEF u
  <1> QED
    BY <1>1, <1>2, <1>3 DEF Disturbs

-----------------------------------------------------------------------------
(* What the queries return                                                 *)

\* What is counted is finite.
LEMMA Finite ==
    ASSUME ViewInv
    PROVE  /\ Present \subseteq People /\ IsFiniteSet(Present)
           /\ Recorded \subseteq Present \X WorkDates /\ IsFiniteSet(Recorded)
           /\ IsFiniteSet(Present \X {NoDate})
  <1>1. Present \subseteq People /\ IsFiniteSet(Present)
    BY PeopleAssumption, FS_Subset DEF Present
  <1>2. IsFiniteSet(Present \X WorkDates) /\ IsFiniteSet(Present \X {NoDate})
    BY <1>1, OverviewAssumption, FS_Product, FS_Singleton
  <1>3. Recorded \subseteq Present \X WorkDates
    BY DEF Recorded
  <1> QED
    BY <1>1, <1>2, <1>3, FS_Subset

\* The rows of a listing are rows, and finitely many.
LEMMA RowsFinite ==
    ASSUME ViewInv, NEW q
    PROVE  /\ Rows(q) \subseteq Row /\ IsFiniteSet(Rows(q)) /\ Cardinality(Rows(q)) \in Nat
           /\ q.op \in {"dashboard", "directory"} => Rows(q) \subseteq q.scope \X {NoDate}
           /\ q.op \in {"dashboard", "directory", "calendar"} => Rows(q) \subseteq Present \X {NoDate}
           /\ q.op \notin {"dashboard", "directory", "calendar"} => Rows(q) \subseteq Recorded
  <1>1. CASE q.op \in {"dashboard", "directory", "calendar"}
    <2>1. /\ Rows(q) \subseteq Present \X {NoDate}
          /\ q.op \in {"dashboard", "directory"} => Rows(q) \subseteq q.scope \X {NoDate}
      <3>1. q.op = "dashboard" =>
              Rows(q) = {e \in Active \cap q.scope : InUnit(q, e) /\ HasStatus(q, <<e, Today>>)} \X {NoDate}
        BY DEF Rows
      <3>2. q.op = "directory" => Rows(q) = {e \in Unarchived \cap q.scope : InUnit(q, e)} \X {NoDate}
        BY DEF Rows
      <3>3. q.op = "calendar" => Rows(q) = {e \in Present : InUnit(q, e)} \X {NoDate}
        BY DEF Rows
      <3> QED
        BY <1>1, <3>1, <3>2, <3>3 DEF Active, Unarchived
    <2>2. Rows(q) \subseteq Row /\ IsFiniteSet(Rows(q)) /\ Cardinality(Rows(q)) \in Nat
      BY <2>1, Finite, FS_Subset, FS_CardinalityType DEF Row
    <2> QED
      BY <1>1, <2>1, <2>2
  <1>2. CASE q.op \notin {"dashboard", "directory", "calendar"}
    <2>1. Rows(q) \subseteq Recorded
      <3>1. CASE q.op = "exceptions"
        BY <3>1 DEF Rows, Exceptions
      <3>2. CASE q.op # "exceptions"
        BY <1>2, <3>2 DEF Rows
      <3> QED
        BY <3>1, <3>2
    <2>2. Rows(q) \subseteq Row /\ IsFiniteSet(Rows(q)) /\ Cardinality(Rows(q)) \in Nat
      BY <2>1, Finite, FS_Subset, FS_CardinalityType DEF Row
    <2> QED
      BY <1>2, <2>1, <2>2
  <1> QED
    BY <1>1, <1>2

\* What a summary counts is finite, and of the rows of the report and of the queue.
LEMMA SummarisedFinite ==
    ASSUME ViewInv, NEW q
    PROVE  /\ IsFiniteSet(Summarised(q))
           /\ q.op # "directory" => Summarised(q) \subseteq Recorded
           /\ q.op \notin {"dashboard", "calendar"} => Summarised(q) = Rows(q)
  <1>1. CASE q.op \in {"dashboard", "calendar"}
    <2>1. Summarised(q) \subseteq Recorded
      BY <1>1 DEF Summarised
    <2> QED
      BY <1>1, <2>1, Finite, FS_Subset
  <1>2. CASE q.op \notin {"dashboard", "calendar"}
    <2>1. Summarised(q) = Rows(q)
      BY <1>2 DEF Summarised
    <2> QED
      BY <1>2, <2>1, RowsFinite
  <1> QED
    BY <1>1, <1>2

\* How many records of some kind there are is a number.
LEMMA CountsTyped ==
    ASSUME ViewInv, NEW q
    PROVE  Counts(q) \in [Labels -> Nat]
  <1>1. ASSUME NEW S, S \subseteq Summarised(q)
        PROVE  Cardinality(S) \in Nat
    BY <1>1, SummarisedFinite, FS_Subset, FS_CardinalityType
  <1>2. ASSUME NEW l \in Labels
        PROVE  /\ Cardinality({r \in Summarised(q) : ExceptionType(r) = l}) \in Nat
               /\ Having(Summarised(q), l) \in Nat
    <2>1. {r \in Summarised(q) : ExceptionType(r) = l} \subseteq Summarised(q)
      OBVIOUS
    <2>2. {r \in Summarised(q) : record[r].status = l} \subseteq Summarised(q)
      OBVIOUS
    <2> QED
      BY <1>1, <2>1, <2>2 DEF Having
  <1> QED
    BY <1>2 DEF Counts

\* How many people the dashboard is about is a number.
LEMMA HeadcountTyped ==
    ASSUME ViewInv, NEW S
    PROVE  IsFiniteSet(Active \cap S) /\ Cardinality(Active \cap S) \in Nat
  <1>1. Active \cap S \subseteq Present
    BY DEF Active, Unarchived
  <1> QED
    BY <1>1, Finite, FS_Subset, FS_CardinalityType

LEMMA ScopeOfPeople ==
    ASSUME ViewInv, NEW m \in Leads
    PROVE  Scope(m) \subseteq People
  <1>1. Team(m) \subseteq People
    BY TeamOfPeople DEF ViewInv
  <1> QED
    BY <1>1, PeopleAssumption DEF Scope

-----------------------------------------------------------------------------
(* What each step makes of a view                                          *)

ViewPcs == {"new", "scope", "queries", "cells", "answer", "count", "fetch", "exists", "upsert",
            "delete", "done", "refused"}

Queries == {"page", "total", "headcount", "counts", "lists"}

\* The fields that a step may leave: what a view is about, whom it may see, which
\* request it is at, what the pages held, the figures above them, what happened.
Subject(p, q) ==
    /\ q.op = p.op /\ q.lead = p.lead /\ q.types = p.types /\ q.narrow = p.narrow
    /\ q.about = p.about

Sight(p, q) == q.scope = p.scope /\ q.line = p.line

Turn(p, q) == q.page = p.page /\ q.pending = p.pending

Gathered(p, q) ==
    /\ q.last = p.last /\ q.shown = p.shown /\ q.repeated = p.repeated /\ q.cells = p.cells

Figures(p, q) ==
    q.total = p.total /\ q.headcount = p.headcount /\ q.counts = p.counts /\ q.named = p.named

Past(p, q) == q.disturbed = p.disturbed /\ q.counted = p.counted

\* One field changes.
LEMMA SetPc ==
    ASSUME NEW q \in View, NEW x \in ViewPcs
    PROVE  LET r == [q EXCEPT !.pc = x]
           IN  /\ r \in View /\ r.pc = x
               /\ Subject(q, r) /\ Sight(q, r) /\ Turn(q, r) /\ Gathered(q, r)
               /\ Figures(q, r) /\ Past(q, r)
  BY DEF View, ViewPcs, Queries, Subject, Sight, Turn, Gathered, Figures, Past

LEMMA SetOp ==
    ASSUME NEW q \in View, NEW x \in ViewOps
    PROVE  LET r == [q EXCEPT !.op = x]
           IN  /\ r \in View /\ r.op = x
               /\ r.pc = q.pc /\ r.lead = q.lead /\ r.types = q.types /\ r.narrow = q.narrow
               /\ r.about = q.about
               /\ Sight(q, r) /\ Turn(q, r) /\ Gathered(q, r) /\ Figures(q, r) /\ Past(q, r)
  BY DEF View, ViewPcs, Queries, Subject, Sight, Turn, Gathered, Figures, Past

LEMMA SetLead ==
    ASSUME NEW q \in View, NEW x \in Leads \cup {None}
    PROVE  LET r == [q EXCEPT !.lead = x]
           IN  /\ r \in View /\ r.lead = x
               /\ r.pc = q.pc /\ r.op = q.op /\ r.types = q.types /\ r.narrow = q.narrow
               /\ r.about = q.about
               /\ Sight(q, r) /\ Turn(q, r) /\ Gathered(q, r) /\ Figures(q, r) /\ Past(q, r)
  BY DEF View, ViewPcs, Queries, Subject, Sight, Turn, Gathered, Figures, Past

LEMMA SetTypes ==
    ASSUME NEW q \in View, NEW x \in SUBSET Types
    PROVE  LET r == [q EXCEPT !.types = x]
           IN  /\ r \in View /\ r.types = x
               /\ r.pc = q.pc /\ r.op = q.op /\ r.lead = q.lead /\ r.narrow = q.narrow
               /\ r.about = q.about
               /\ Sight(q, r) /\ Turn(q, r) /\ Gathered(q, r) /\ Figures(q, r) /\ Past(q, r)
  BY DEF View, ViewPcs, Queries, Subject, Sight, Turn, Gathered, Figures, Past

LEMMA SetNarrow ==
    ASSUME NEW q \in View, NEW x \in Narrowing
    PROVE  LET r == [q EXCEPT !.narrow = x]
           IN  /\ r \in View /\ r.narrow = x
               /\ r.pc = q.pc /\ r.op = q.op /\ r.lead = q.lead /\ r.types = q.types
               /\ r.about = q.about
               /\ Sight(q, r) /\ Turn(q, r) /\ Gathered(q, r) /\ Figures(q, r) /\ Past(q, r)
  BY DEF View, ViewPcs, Queries, Subject, Sight, Turn, Gathered, Figures, Past

LEMMA SetAbout ==
    ASSUME NEW q \in View, NEW x \in Dismissal \cup {None}
    PROVE  LET r == [q EXCEPT !.about = x]
           IN  /\ r \in View /\ r.about = x
               /\ r.pc = q.pc /\ r.op = q.op /\ r.lead = q.lead /\ r.types = q.types
               /\ r.narrow = q.narrow
               /\ Sight(q, r) /\ Turn(q, r) /\ Gathered(q, r) /\ Figures(q, r) /\ Past(q, r)
  BY DEF View, ViewPcs, Queries, Subject, Sight, Turn, Gathered, Figures, Past

LEMMA SetScope ==
    ASSUME NEW q \in View, NEW x \in SUBSET People
    PROVE  LET r == [q EXCEPT !.scope = x]
           IN  /\ r \in View /\ r.scope = x
               /\ r.pc = q.pc /\ Subject(q, r) /\ r.line = q.line /\ Turn(q, r)
               /\ Gathered(q, r) /\ Figures(q, r) /\ Past(q, r)
  BY DEF View, ViewPcs, Queries, Subject, Sight, Turn, Gathered, Figures, Past

LEMMA SetLine ==
    ASSUME NEW q \in View, NEW x \in SUBSET People
    PROVE  LET r == [q EXCEPT !.line = x]
           IN  /\ r \in View /\ r.line = x
               /\ r.pc = q.pc /\ Subject(q, r) /\ r.scope = q.scope /\ Turn(q, r)
               /\ Gathered(q, r) /\ Figures(q, r) /\ Past(q, r)
  BY DEF View, ViewPcs, Queries, Subject, Sight, Turn, Gathered, Figures, Past

LEMMA SetPage ==
    ASSUME NEW q \in View, NEW x \in Nat
    PROVE  LET r == [q EXCEPT !.page = x]
           IN  /\ r \in View /\ r.page = x
               /\ r.pc = q.pc /\ Subject(q, r) /\ Sight(q, r) /\ r.pending = q.pending
               /\ Gathered(q, r) /\ Figures(q, r) /\ Past(q, r)
  BY DEF View, ViewPcs, Queries, Subject, Sight, Turn, Gathered, Figures, Past

LEMMA SetPending ==
    ASSUME NEW q \in View, NEW x \in SUBSET Queries
    PROVE  LET r == [q EXCEPT !.pending = x]
           IN  /\ r \in View /\ r.pending = x
               /\ r.pc = q.pc /\ Subject(q, r) /\ Sight(q, r) /\ r.page = q.page
               /\ Gathered(q, r) /\ Figures(q, r) /\ Past(q, r)
  BY DEF View, ViewPcs, Queries, Subject, Sight, Turn, Gathered, Figures, Past

LEMMA SetLast ==
    ASSUME NEW q \in View, NEW x \in SUBSET Row
    PROVE  LET r == [q EXCEPT !.last = x]
           IN  /\ r \in View /\ r.last = x
               /\ r.pc = q.pc /\ Subject(q, r) /\ Sight(q, r) /\ Turn(q, r)
               /\ r.shown = q.shown /\ r.repeated = q.repeated /\ r.cells = q.cells
               /\ Figures(q, r) /\ Past(q, r)
  BY DEF View, ViewPcs, Queries, Subject, Sight, Turn, Gathered, Figures, Past

LEMMA SetShown ==
    ASSUME NEW q \in View, NEW x \in SUBSET Row
    PROVE  LET r == [q EXCEPT !.shown = x]
           IN  /\ r \in View /\ r.shown = x
               /\ r.pc = q.pc /\ Subject(q, r) /\ Sight(q, r) /\ Turn(q, r)
               /\ r.last = q.last /\ r.repeated = q.repeated /\ r.cells = q.cells
               /\ Figures(q, r) /\ Past(q, r)
  BY DEF View, ViewPcs, Queries, Subject, Sight, Turn, Gathered, Figures, Past

LEMMA SetRepeated ==
    ASSUME NEW q \in View, NEW x \in BOOLEAN
    PROVE  LET r == [q EXCEPT !.repeated = x]
           IN  /\ r \in View /\ r.repeated = x
               /\ r.pc = q.pc /\ Subject(q, r) /\ Sight(q, r) /\ Turn(q, r)
               /\ r.last = q.last /\ r.shown = q.shown /\ r.cells = q.cells /\ Figures(q, r)
               /\ Past(q, r)
  BY DEF View, ViewPcs, Queries, Subject, Sight, Turn, Gathered, Figures, Past

LEMMA SetCells ==
    ASSUME NEW q \in View, NEW x \in Nat
    PROVE  LET r == [q EXCEPT !.cells = x]
           IN  /\ r \in View /\ r.cells = x
               /\ r.pc = q.pc /\ Subject(q, r) /\ Sight(q, r) /\ Turn(q, r)
               /\ r.last = q.last /\ r.shown = q.shown /\ r.repeated = q.repeated
               /\ Figures(q, r) /\ Past(q, r)
  BY DEF View, ViewPcs, Queries, Subject, Sight, Turn, Gathered, Figures, Past

LEMMA SetTotal ==
    ASSUME NEW q \in View, NEW x \in Nat
    PROVE  LET r == [q EXCEPT !.total = x]
           IN  /\ r \in View /\ r.total = x
               /\ r.pc = q.pc /\ Subject(q, r) /\ Sight(q, r) /\ Turn(q, r)
               /\ Gathered(q, r) /\ r.headcount = q.headcount /\ r.counts = q.counts
               /\ r.named = q.named /\ Past(q, r)
  BY DEF View, ViewPcs, Queries, Subject, Sight, Turn, Gathered, Figures, Past

LEMMA SetHeadcount ==
    ASSUME NEW q \in View, NEW x \in Nat
    PROVE  LET r == [q EXCEPT !.headcount = x]
           IN  /\ r \in View /\ r.headcount = x
               /\ r.pc = q.pc /\ Subject(q, r) /\ Sight(q, r) /\ Turn(q, r)
               /\ Gathered(q, r) /\ r.total = q.total /\ r.counts = q.counts
               /\ r.named = q.named /\ Past(q, r)
  BY DEF View, ViewPcs, Queries, Subject, Sight, Turn, Gathered, Figures, Past

LEMMA SetCounts ==
    ASSUME NEW q \in View, NEW x \in [Labels -> Nat]
    PROVE  LET r == [q EXCEPT !.counts = x]
           IN  /\ r \in View /\ r.counts = x
               /\ r.pc = q.pc /\ Subject(q, r) /\ Sight(q, r) /\ Turn(q, r)
               /\ Gathered(q, r) /\ r.total = q.total /\ r.headcount = q.headcount
               /\ r.named = q.named /\ Past(q, r)
  BY DEF View, ViewPcs, Queries, Subject, Sight, Turn, Gathered, Figures, Past

LEMMA SetNamed ==
    ASSUME NEW q \in View, NEW x \in SUBSET People
    PROVE  LET r == [q EXCEPT !.named = x]
           IN  /\ r \in View /\ r.named = x
               /\ r.pc = q.pc /\ Subject(q, r) /\ Sight(q, r) /\ Turn(q, r)
               /\ Gathered(q, r) /\ r.total = q.total /\ r.headcount = q.headcount
               /\ r.counts = q.counts /\ Past(q, r)
  BY DEF View, ViewPcs, Queries, Subject, Sight, Turn, Gathered, Figures, Past

LEMMA SetCounted ==
    ASSUME NEW q \in View, NEW x \in SUBSET Row
    PROVE  LET r == [q EXCEPT !.counted = x]
           IN  /\ r \in View /\ r.counted = x
               /\ r.pc = q.pc /\ Subject(q, r) /\ Sight(q, r) /\ Turn(q, r)
               /\ Gathered(q, r) /\ Figures(q, r) /\ r.disturbed = q.disturbed
  BY DEF View, ViewPcs, Queries, Subject, Sight, Turn, Gathered, Figures, Past

\* v goes on and nothing else changes.
Goes(v, q) == q \in View /\ Looking(q) /\ See(v, q) /\ ViewOnly

\* The next request: whose scope is read first is said by its lead.
LEMMA AskingGoes ==
    ASSUME NEW q \in View, NEW n \in Nat
    PROVE  LET r == Asking(q, n)
           IN  /\ r \in View /\ r.pc = (IF q.lead = None THEN "queries" ELSE "scope")
               /\ r.page = n /\ r.pending = QueriesOf(q.op)
               /\ Subject(q, r) /\ Sight(q, r) /\ Gathered(q, r) /\ Figures(q, r) /\ Past(q, r)
  <1> DEFINE first == IF q.lead = None THEN "queries" ELSE "scope"
             queries == QueriesOf(q.op)
             a == [q EXCEPT !.pc = first]
             b == [a EXCEPT !.page = n]
             r == [b EXCEPT !.pending = queries]
  <1>1. first \in ViewPcs /\ queries \in SUBSET Queries
    <2>1. CASE q.op = "directory"
      BY <2>1 DEF ViewPcs, QueriesOf, Queries
    <2>2. CASE q.op = "dashboard"
      BY <2>2 DEF ViewPcs, QueriesOf, Queries
    <2>3. CASE q.op \notin {"directory", "dashboard"}
      BY <2>3 DEF ViewPcs, QueriesOf, Queries
    <2> QED
      BY <2>1, <2>2, <2>3
  <1>2. Asking(q, n) = r
    BY DEF Asking, View
  <1> HIDE DEF first, queries
  <1>3. /\ a \in View /\ a.pc = first /\ Turn(q, a)
        /\ Subject(q, a) /\ Sight(q, a) /\ Gathered(q, a) /\ Figures(q, a) /\ Past(q, a)
    BY <1>1, SetPc
  <1> HIDE DEF a
  <1>4. /\ b \in View /\ b.pc = a.pc /\ b.page = n
        /\ Subject(a, b) /\ Sight(a, b) /\ Gathered(a, b) /\ Figures(a, b) /\ Past(a, b)
    BY <1>3, SetPage
  <1> HIDE DEF b
  <1>5. /\ r \in View /\ r.pc = b.pc /\ r.page = b.page /\ r.pending = queries
        /\ Subject(b, r) /\ Sight(b, r) /\ Gathered(b, r) /\ Figures(b, r) /\ Past(b, r)
    BY <1>1, <1>4, SetPending
  <1> HIDE DEF r
  <1>6. Subject(q, r) /\ Sight(q, r) /\ Gathered(q, r) /\ Figures(q, r) /\ Past(q, r)
    BY <1>3, <1>4, <1>5 DEF Subject, Sight, Gathered, Figures, Past
  <1> QED
    BY <1>2, <1>3, <1>4, <1>5, <1>6 DEF first, queries

\* A request for the first page.
Opened(q) ==
    /\ q.op \in Listings /\ q.pc = (IF q.lead = None THEN "queries" ELSE "scope")
    /\ q.page = 1 /\ q.pending = QueriesOf(q.op) /\ Sight(NoView, q)
    /\ Gathered(NoView, q) /\ Figures(NoView, q) /\ Past(NoView, q)

LEMMA OpenGoes ==
    ASSUME ViewInv, NEW v \in Watching, NEW op \in Listings, NEW lead \in Leads \cup {None},
           NEW types \in {{}, {"LATE"}, Bad}, NEW narrow \in Narrowings, Open(v, op, lead, types, narrow)
    PROVE  \E q \in View : Goes(v, q) /\ view[v].pc = "new" /\ Opened(q)
  <1> DEFINE a == [NoView EXCEPT !.op = op]
             b == [a EXCEPT !.lead = lead]
             m == [b EXCEPT !.types = types]
             o == [m EXCEPT !.narrow = narrow]
             q == Asking(o, 1)
  <1>1. /\ view[v].pc = "new" /\ See(v, q) /\ ViewOnly
        /\ lead # None => op \in {"dashboard", "directory"}
    <2> HIDE DEF Asking
    <2> QED
      BY Zenon DEF Open
  <1>2. types \in SUBSET Types /\ op \in ViewOps /\ narrow \in Narrowing
    <2>1. Bad \subseteq Types /\ {"LATE"} \subseteq Types /\ {} \subseteq Types
      BY DEF Types, Bad
    <2>2. narrow \in Narrowing
      BY OverviewAssumption
    <2> QED
      BY <2>1, <2>2 DEF ViewOps
  <1>3. NoView.about = None
    BY DEF NoView
  <1>4. /\ a \in View /\ a.op = op /\ a.lead = NoView.lead /\ a.about = NoView.about
        /\ Sight(NoView, a) /\ Gathered(NoView, a) /\ Figures(NoView, a) /\ Past(NoView, a)
    BY <1>2, FreshView, SetOp
  <1> HIDE DEF a
  <1>5. /\ b \in View /\ b.op = op /\ b.lead = lead /\ b.about = a.about
        /\ Sight(a, b) /\ Gathered(a, b) /\ Figures(a, b) /\ Past(a, b)
    BY <1>4, SetLead
  <1> HIDE DEF b
  <1>6. /\ m \in View /\ m.op = op /\ m.lead = lead /\ m.about = b.about
        /\ Sight(b, m) /\ Gathered(b, m) /\ Figures(b, m) /\ Past(b, m)
    BY <1>2, <1>5, SetTypes
  <1> HIDE DEF m
  <1>7. /\ o \in View /\ o.op = op /\ o.lead = lead /\ o.about = m.about
        /\ Sight(m, o) /\ Gathered(m, o) /\ Figures(m, o) /\ Past(m, o)
    BY <1>2, <1>6, SetNarrow
  <1> HIDE DEF o
  <1>8. /\ q \in View /\ q.pc = (IF lead = None THEN "queries" ELSE "scope")
        /\ q.page = 1 /\ q.pending = QueriesOf(op)
        /\ Subject(o, q) /\ Sight(o, q) /\ Gathered(o, q) /\ Figures(o, q) /\ Past(o, q)
    BY <1>7, AskingGoes
  <1> HIDE DEF q
  <1>9. q.op = op /\ q.lead = lead /\ q.about = None
    BY <1>3, <1>4, <1>5, <1>6, <1>7, <1>8 DEF Subject
  <1>10. Sight(NoView, q) /\ Gathered(NoView, q) /\ Figures(NoView, q) /\ Past(NoView, q)
    BY <1>4, <1>5, <1>6, <1>7, <1>8 DEF Sight, Gathered, Figures, Past
  <1>11. Looking(q)
    BY <1>1, <1>8, <1>9 DEF Looking
  <1> QED
    BY <1>1, <1>8, <1>9, <1>10, <1>11 DEF Goes, Opened

\* Where a view goes when one of its queries is answered.
AfterQuery(q, query) ==
    IF q.pending \ {query} # {} THEN "queries" ELSE IF q.op = "calendar" THEN "cells" ELSE "answer"

LEMMA AnsweredGoes ==
    ASSUME NEW q \in View, NEW query \in Queries
    PROVE  LET r == Answered(q, query)
           IN  /\ r \in View /\ r.pc = AfterQuery(q, query) /\ r.page = q.page
               /\ r.pending = q.pending \ {query}
               /\ Subject(q, r) /\ Sight(q, r) /\ Gathered(q, r) /\ Figures(q, r) /\ Past(q, r)
  <1> DEFINE next == AfterQuery(q, query)
             left == q.pending \ {query}
             a == [q EXCEPT !.pending = left]
             r == [a EXCEPT !.pc = next]
  <1>1. next \in ViewPcs /\ left \in SUBSET Queries
    BY DEF ViewPcs, AfterQuery, View, Queries
  <1>2. Answered(q, query) = r
    BY DEF Answered, AfterQuery, View
  <1> HIDE DEF next, left
  <1>3. /\ a \in View /\ a.pending = left /\ a.page = q.page
        /\ Subject(q, a) /\ Sight(q, a) /\ Gathered(q, a) /\ Figures(q, a) /\ Past(q, a)
    BY <1>1, SetPending
  <1> HIDE DEF a
  <1>4. /\ r \in View /\ r.pc = next /\ Turn(a, r)
        /\ Subject(a, r) /\ Sight(a, r) /\ Gathered(a, r) /\ Figures(a, r) /\ Past(a, r)
    BY <1>1, <1>3, SetPc
  <1> HIDE DEF r
  <1>5. Subject(q, r) /\ Sight(q, r) /\ Gathered(q, r) /\ Figures(q, r) /\ Past(q, r)
    BY <1>3, <1>4 DEF Subject, Sight, Gathered, Figures, Past
  <1> QED
    BY <1>2, <1>3, <1>4, <1>5 DEF Turn, next, left

\* A view that is still what it was about looks at what it may, where it goes.
LEMMA StillLooking ==
    ASSUME NEW p, Looking(p), NEW q, Subject(p, q),
           \/ q.pc \in {"done", "refused"}
           \/ /\ p.pc \in {"scope", "queries", "cells", "answer"} /\ q.page > 0
              /\ \/ q.pc \in {"queries", "answer"}
                 \/ q.pc = "cells" /\ p.op = "calendar"
                 \/ q.pc = "scope" /\ p.lead \in Leads
           \/ p.pc = "count" /\ q.pc = "fetch"
           \/ p.pc = "exists" /\ q.pc = "upsert"
    PROVE  Looking(q)
  BY DEF Subject, Looking

\* The scope of a manager, as it is now.
LEMMA ScopeGoes ==
    ASSUME ViewInv, NEW v \in Watching, GetEmployeeScope(v)
    PROVE  LET p == view[v]
           IN  \E q \in View : /\ Goes(v, q) /\ p.pc = "scope" /\ p.lead \in Leads
                               /\ q.pc = "queries" /\ q.scope = Scope(p.lead)
                               /\ q.line = p.line \cup Scope(p.lead) /\ Turn(p, q)
                               /\ Subject(p, q) /\ Gathered(p, q) /\ Figures(p, q) /\ Past(p, q)
  <1> DEFINE p == view[v]
             sees == Scope(p.lead)
             all == p.line \cup sees
             a == [p EXCEPT !.pc = "queries"]
             b == [a EXCEPT !.scope = sees]
             q == [b EXCEPT !.line = all]
  <1>1. p \in View /\ Looking(p)
    BY DEF ViewInv
  <1>2. p.pc = "scope" /\ See(v, q) /\ ViewOnly
    BY <1>1 DEF GetEmployeeScope, View
  <1>3. p.lead \in Leads /\ p.op \in Listings /\ p.page > 0
    BY <1>1, <1>2 DEF Looking
  <1>4. sees \in SUBSET People /\ all \in SUBSET People
    BY <1>1, <1>3, ScopeOfPeople DEF View
  <1>5. "queries" \in ViewPcs
    BY DEF ViewPcs
  <1> HIDE DEF sees, all
  <1>6. /\ a \in View /\ a.pc = "queries" /\ Turn(p, a)
        /\ Subject(p, a) /\ Gathered(p, a) /\ Figures(p, a) /\ Past(p, a)
    BY <1>1, <1>5, SetPc
  <1> HIDE DEF a
  <1>7. /\ b \in View /\ b.scope = sees /\ b.pc = a.pc /\ Turn(a, b)
        /\ Subject(a, b) /\ Gathered(a, b) /\ Figures(a, b) /\ Past(a, b)
    BY <1>4, <1>6, SetScope
  <1> HIDE DEF b
  <1>8. /\ q \in View /\ q.line = all /\ q.scope = b.scope /\ q.pc = b.pc /\ Turn(b, q)
        /\ Subject(b, q) /\ Gathered(b, q) /\ Figures(b, q) /\ Past(b, q)
    BY <1>4, <1>7, SetLine
  <1> HIDE DEF q
  <1>9. Turn(p, q) /\ Subject(p, q) /\ Gathered(p, q) /\ Figures(p, q) /\ Past(p, q)
    BY <1>6, <1>7, <1>8 DEF Turn, Subject, Gathered, Figures, Past
  <1>10. Looking(q)
    BY <1>1, <1>2, <1>3, <1>6, <1>7, <1>8, <1>9, StillLooking DEF Turn
  <1> QED
    BY <1>2, <1>3, <1>6, <1>7, <1>8, <1>9, <1>10 DEF Goes, sees, all

\* A query is answered: the fields that are not its own stay.
LEMMA QueryGoes ==
    ASSUME ViewInv, NEW v \in Watching, NEW query \in Queries, view[v].pc = "queries",
           NEW q \in View, See(v, q), ViewOnly, q.pc = AfterQuery(view[v], query),
           q.page = view[v].page, Subject(view[v], q)
    PROVE  Goes(v, q)
  <1> DEFINE p == view[v]
  <1>1. Looking(p)
    BY DEF ViewInv
  <1>2. p.page > 0 /\ p.op \in Listings
    BY <1>1 DEF Looking
  <1>3. Looking(q)
    BY <1>1, <1>2, StillLooking DEF AfterQuery
  <1> QED
    BY <1>3 DEF Goes

LEMMA PageGoes ==
    ASSUME ViewInv, NEW v \in Watching, ReadPage(v)
    PROVE  LET p == view[v]
           IN  \E q \in View, rows \in PagesOf(p.op, Rows(p), (p.page - 1) * PageSize, PageSize) :
                   /\ Goes(v, q) /\ p.pc = "queries" /\ "page" \in p.pending
                   /\ q.pc = AfterQuery(p, "page") /\ q.page = p.page
                   /\ q.pending = p.pending \ {"page"}
                   /\ q.last = rows /\ q.shown = p.shown \cup rows /\ q.cells = p.cells
                   /\ q.repeated <=> (p.repeated \/ p.shown \cap rows # {})
                   /\ Sight(p, q) /\ Subject(p, q) /\ Figures(p, q) /\ Past(p, q)
  <1> DEFINE p == view[v]
             some(rows) == [Answered(p, "page") EXCEPT
                               !.last = rows, !.shown = @ \cup rows,
                               !.repeated = @ \/ p.shown \cap rows # {}]
  <1>1. p \in View
    BY DEF ViewInv
  <1>2. PICK rows \in PagesOf(p.op, Rows(p), (p.page - 1) * PageSize, PageSize) : See(v, some(rows))
    BY Zenon DEF ReadPage
  <1>3. p.pc = "queries" /\ "page" \in p.pending /\ ViewOnly /\ "page" \in Queries
    BY DEF ReadPage, Queries
  <1>4. rows \in SUBSET Row
    <2>1. rows \subseteq Rows(p)
      BY DEF PagesOf, kSubset
    <2> QED
      BY <2>1, RowsFinite
  <1> DEFINE o == Answered(p, "page")
             more == p.shown \cup rows
             twice == p.repeated \/ p.shown \cap rows # {}
             a == [o EXCEPT !.last = rows]
             b == [a EXCEPT !.shown = more]
             q == [b EXCEPT !.repeated = twice]
  <1>5. more \in SUBSET Row /\ twice \in BOOLEAN
    BY <1>1, <1>4 DEF View
  <1>6. /\ o \in View /\ o.pc = AfterQuery(p, "page") /\ o.page = p.page
        /\ o.pending = p.pending \ {"page"}
        /\ Subject(p, o) /\ Sight(p, o) /\ Gathered(p, o) /\ Figures(p, o) /\ Past(p, o)
    BY <1>1, <1>3, AnsweredGoes
  <1>7. some(rows) = q
    <2>1. o.shown = p.shown /\ o.repeated = p.repeated
      BY <1>6 DEF Gathered
    <2> HIDE DEF o
    <2> QED
      BY <1>6, <2>1 DEF View, o
  <1> HIDE DEF o, more, twice
  <1>8. /\ a \in View /\ a.last = rows /\ a.cells = o.cells /\ a.pc = o.pc /\ Turn(o, a)
        /\ Subject(o, a) /\ Sight(o, a) /\ Figures(o, a) /\ Past(o, a)
    BY <1>4, <1>6, SetLast
  <1> HIDE DEF a
  <1>9. /\ b \in View /\ b.shown = more /\ b.last = a.last /\ b.cells = a.cells /\ b.pc = a.pc
        /\ Turn(a, b) /\ Subject(a, b) /\ Sight(a, b) /\ Figures(a, b) /\ Past(a, b)
    BY <1>5, <1>8, SetShown
  <1> HIDE DEF b
  <1>10. /\ q \in View /\ q.repeated = twice /\ q.shown = b.shown /\ q.last = b.last
         /\ q.cells = b.cells /\ q.pc = b.pc
         /\ Turn(b, q) /\ Subject(b, q) /\ Sight(b, q) /\ Figures(b, q) /\ Past(b, q)
    BY <1>5, <1>9, SetRepeated
  <1> HIDE DEF q
  <1>11. Turn(o, q) /\ Subject(p, q) /\ Sight(p, q) /\ Figures(p, q) /\ Past(p, q)
    BY <1>6, <1>8, <1>9, <1>10 DEF Turn, Subject, Sight, Figures, Past
  <1>12. /\ q.pc = AfterQuery(p, "page") /\ q.page = p.page /\ q.pending = p.pending \ {"page"}
         /\ q.last = rows /\ q.shown = more /\ q.cells = p.cells
    BY <1>6, <1>8, <1>9, <1>10, <1>11 DEF Turn, Gathered
  <1>13. See(v, q)
    BY <1>2, <1>7
  <1>14. Goes(v, q)
    BY <1>3, <1>10, <1>11, <1>12, <1>13, QueryGoes
  <1>15. q.repeated <=> (p.repeated \/ p.shown \cap rows # {})
    BY <1>10 DEF twice
  <1> QED
    BY <1>2, <1>3, <1>10, <1>11, <1>12, <1>14, <1>15 DEF more

LEMMA TotalGoes ==
    ASSUME ViewInv, NEW v \in Watching, ReadTotal(v)
    PROVE  LET p == view[v]
           IN  \E q \in View :
                   /\ Goes(v, q) /\ p.pc = "queries" /\ "total" \in p.pending
                   /\ q.pc = AfterQuery(p, "total") /\ q.page = p.page
                   /\ q.pending = p.pending \ {"total"} /\ q.total = Cardinality(Rows(p))
                   /\ q.headcount = p.headcount /\ q.counts = p.counts /\ q.named = p.named
                   /\ Sight(p, q) /\ Subject(p, q) /\ Gathered(p, q) /\ Past(p, q)
  <1> DEFINE p == view[v]
             n == Cardinality(Rows(p))
             o == Answered(p, "total")
             q == [o EXCEPT !.total = n]
  <1>1. p \in View /\ n \in Nat
    BY RowsFinite DEF ViewInv
  <1>2. p.pc = "queries" /\ "total" \in p.pending /\ See(v, q) /\ ViewOnly /\ "total" \in Queries
    BY DEF ReadTotal, Queries
  <1>3. /\ o \in View /\ o.pc = AfterQuery(p, "total") /\ o.page = p.page
        /\ o.pending = p.pending \ {"total"}
        /\ Subject(p, o) /\ Sight(p, o) /\ Gathered(p, o) /\ Figures(p, o) /\ Past(p, o)
    BY <1>1, <1>2, AnsweredGoes
  <1> HIDE DEF o, n
  <1>4. /\ q \in View /\ q.total = n /\ q.headcount = o.headcount /\ q.counts = o.counts
        /\ q.named = o.named /\ q.pc = o.pc /\ Turn(o, q) /\ Subject(o, q) /\ Sight(o, q) /\ Gathered(o, q) /\ Past(o, q)
    BY <1>1, <1>3, SetTotal
  <1> HIDE DEF q
  <1>5. Subject(p, q) /\ Sight(p, q) /\ Gathered(p, q) /\ Past(p, q)
    BY <1>3, <1>4 DEF Subject, Sight, Gathered, Past
  <1>6. /\ q.pc = AfterQuery(p, "total") /\ q.page = p.page /\ q.pending = p.pending \ {"total"}
        /\ q.headcount = p.headcount /\ q.counts = p.counts /\ q.named = p.named
    BY <1>3, <1>4 DEF Turn, Figures
  <1>7. Goes(v, q)
    BY <1>2, <1>4, <1>5, <1>6, QueryGoes
  <1> QED
    BY <1>2, <1>4, <1>5, <1>6, <1>7 DEF n

LEMMA HeadcountGoes ==
    ASSUME ViewInv, NEW v \in Watching, ReadHeadcount(v)
    PROVE  LET p == view[v]
           IN  \E q \in View :
                   /\ Goes(v, q) /\ p.pc = "queries" /\ "headcount" \in p.pending
                   /\ q.pc = AfterQuery(p, "headcount") /\ q.page = p.page
                   /\ q.pending = p.pending \ {"headcount"} /\ q.headcount = Cardinality(Active \cap p.scope)
                   /\ q.total = p.total /\ q.counts = p.counts /\ q.named = p.named
                   /\ Sight(p, q) /\ Subject(p, q) /\ Gathered(p, q) /\ Past(p, q)
  <1> DEFINE p == view[v]
             n == Cardinality(Active \cap p.scope)
             o == Answered(p, "headcount")
             q == [o EXCEPT !.headcount = n]
  <1>1. p \in View /\ n \in Nat
    BY HeadcountTyped DEF ViewInv
  <1>2. p.pc = "queries" /\ "headcount" \in p.pending /\ See(v, q) /\ ViewOnly /\ "headcount" \in Queries
    BY DEF ReadHeadcount, Queries
  <1>3. /\ o \in View /\ o.pc = AfterQuery(p, "headcount") /\ o.page = p.page
        /\ o.pending = p.pending \ {"headcount"}
        /\ Subject(p, o) /\ Sight(p, o) /\ Gathered(p, o) /\ Figures(p, o) /\ Past(p, o)
    BY <1>1, <1>2, AnsweredGoes
  <1> HIDE DEF o, n
  <1>4. /\ q \in View /\ q.headcount = n /\ q.total = o.total /\ q.counts = o.counts
        /\ q.named = o.named /\ q.pc = o.pc /\ Turn(o, q) /\ Subject(o, q) /\ Sight(o, q) /\ Gathered(o, q) /\ Past(o, q)
    BY <1>1, <1>3, SetHeadcount
  <1> HIDE DEF q
  <1>5. Subject(p, q) /\ Sight(p, q) /\ Gathered(p, q) /\ Past(p, q)
    BY <1>3, <1>4 DEF Subject, Sight, Gathered, Past
  <1>6. /\ q.pc = AfterQuery(p, "headcount") /\ q.page = p.page /\ q.pending = p.pending \ {"headcount"}
        /\ q.total = p.total /\ q.counts = p.counts /\ q.named = p.named
    BY <1>3, <1>4 DEF Turn, Figures
  <1>7. Goes(v, q)
    BY <1>2, <1>4, <1>5, <1>6, QueryGoes
  <1> QED
    BY <1>2, <1>4, <1>5, <1>6, <1>7 DEF n

LEMMA CountsGoes ==
    ASSUME ViewInv, NEW v \in Watching, ReadCounts(v)
    PROVE  LET p == view[v]
           IN  \E q \in View :
                   /\ Goes(v, q) /\ p.pc = "queries" /\ "counts" \in p.pending
                   /\ q.pc = AfterQuery(p, "counts") /\ q.page = p.page
                   /\ q.pending = p.pending \ {"counts"} /\ q.counts = Counts(p)
                   /\ q.total = p.total /\ q.headcount = p.headcount /\ q.named = p.named
                   /\ Sight(p, q) /\ Subject(p, q) /\ Gathered(p, q) /\ Past(p, q)
  <1> DEFINE p == view[v]
             n == Counts(p)
             o == Answered(p, "counts")
             q == [o EXCEPT !.counts = n]
  <1>1. p \in View /\ n \in [Labels -> Nat]
    BY CountsTyped DEF ViewInv
  <1>2. p.pc = "queries" /\ "counts" \in p.pending /\ See(v, q) /\ ViewOnly /\ "counts" \in Queries
    BY DEF ReadCounts, Queries
  <1>3. /\ o \in View /\ o.pc = AfterQuery(p, "counts") /\ o.page = p.page
        /\ o.pending = p.pending \ {"counts"}
        /\ Subject(p, o) /\ Sight(p, o) /\ Gathered(p, o) /\ Figures(p, o) /\ Past(p, o)
    BY <1>1, <1>2, AnsweredGoes
  <1> HIDE DEF o, n
  <1>4. /\ q \in View /\ q.counts = n /\ q.total = o.total /\ q.headcount = o.headcount
        /\ q.named = o.named /\ q.pc = o.pc /\ Turn(o, q) /\ Subject(o, q) /\ Sight(o, q) /\ Gathered(o, q) /\ Past(o, q)
    BY <1>1, <1>3, SetCounts
  <1> HIDE DEF q
  <1>5. Subject(p, q) /\ Sight(p, q) /\ Gathered(p, q) /\ Past(p, q)
    BY <1>3, <1>4 DEF Subject, Sight, Gathered, Past
  <1>6. /\ q.pc = AfterQuery(p, "counts") /\ q.page = p.page /\ q.pending = p.pending \ {"counts"}
        /\ q.total = p.total /\ q.headcount = p.headcount /\ q.named = p.named
    BY <1>3, <1>4 DEF Turn, Figures
  <1>7. Goes(v, q)
    BY <1>2, <1>4, <1>5, <1>6, QueryGoes
  <1> QED
    BY <1>2, <1>4, <1>5, <1>6, <1>7 DEF n

LEMMA ListsGo ==
    ASSUME ViewInv, NEW v \in Watching, ReadLists(v)
    PROVE  LET p == view[v]
           IN  \E q \in View :
                   /\ Goes(v, q) /\ p.pc = "queries" /\ "lists" \in p.pending
                   /\ q.pc = AfterQuery(p, "lists") /\ q.page = p.page
                   /\ q.pending = p.pending \ {"lists"} /\ q.named = Named(p)
                   /\ q.total = p.total /\ q.headcount = p.headcount /\ q.counts = p.counts
                   /\ Sight(p, q) /\ Subject(p, q) /\ Gathered(p, q) /\ Past(p, q)
  <1> DEFINE p == view[v]
             n == Named(p)
             o == Answered(p, "lists")
             q == [o EXCEPT !.named = n]
  <1>1. p \in View /\ n \in SUBSET People
    BY DEF ViewInv, Named, Present
  <1>2. p.pc = "queries" /\ "lists" \in p.pending /\ See(v, q) /\ ViewOnly /\ "lists" \in Queries
    BY DEF ReadLists, Queries, Named
  <1>3. /\ o \in View /\ o.pc = AfterQuery(p, "lists") /\ o.page = p.page
        /\ o.pending = p.pending \ {"lists"}
        /\ Subject(p, o) /\ Sight(p, o) /\ Gathered(p, o) /\ Figures(p, o) /\ Past(p, o)
    BY <1>1, <1>2, AnsweredGoes
  <1> HIDE DEF o, n
  <1>4. /\ q \in View /\ q.named = n /\ q.total = o.total /\ q.headcount = o.headcount
        /\ q.counts = o.counts /\ q.pc = o.pc /\ Turn(o, q) /\ Subject(o, q) /\ Sight(o, q) /\ Gathered(o, q) /\ Past(o, q)
    BY <1>1, <1>3, SetNamed
  <1> HIDE DEF q
  <1>5. Subject(p, q) /\ Sight(p, q) /\ Gathered(p, q) /\ Past(p, q)
    BY <1>3, <1>4 DEF Subject, Sight, Gathered, Past
  <1>6. /\ q.pc = AfterQuery(p, "lists") /\ q.page = p.page /\ q.pending = p.pending \ {"lists"}
        /\ q.total = p.total /\ q.headcount = p.headcount /\ q.counts = p.counts
    BY <1>3, <1>4 DEF Turn, Figures
  <1>7. Goes(v, q)
    BY <1>2, <1>4, <1>5, <1>6, QueryGoes
  <1> QED
    BY <1>2, <1>4, <1>5, <1>6, <1>7 DEF n

LEMMA CellsGo ==
    ASSUME ViewInv, NEW v \in Watching, ReadCells(v)
    PROVE  LET p == view[v]
           IN  \E q \in View :
                   /\ Goes(v, q) /\ p.pc = "cells" /\ p.op = "calendar" /\ q.pc = "answer"
                   /\ q.cells = p.cells + Cardinality(CellsOf(p.last))
                   /\ q.last = p.last /\ q.shown = p.shown /\ q.repeated = p.repeated
                   /\ Turn(p, q) /\ Sight(p, q) /\ Subject(p, q) /\ Figures(p, q) /\ Past(p, q)
  <1> DEFINE p == view[v]
             n == p.cells + Cardinality(CellsOf(p.last))
             a == [p EXCEPT !.pc = "answer"]
             q == [a EXCEPT !.cells = n]
  <1>1. p \in View /\ Looking(p)
    BY DEF ViewInv
  <1>2. Cardinality(CellsOf(p.last)) \in Nat
    BY Finite, FS_Subset, FS_CardinalityType DEF CellsOf
  <1>3. n \in Nat
    BY <1>1, <1>2 DEF View
  <1>4. p.pc = "cells" /\ See(v, q) /\ ViewOnly /\ "answer" \in ViewPcs
    BY <1>1 DEF ReadCells, CellsOf, ViewPcs, View
  <1> HIDE DEF n
  <1>5. /\ a \in View /\ a.pc = "answer" /\ Turn(p, a)
        /\ Subject(p, a) /\ Sight(p, a) /\ Gathered(p, a) /\ Figures(p, a) /\ Past(p, a)
    BY <1>1, <1>4, SetPc
  <1> HIDE DEF a
  <1>6. /\ q \in View /\ q.cells = n /\ q.last = a.last /\ q.shown = a.shown
        /\ q.repeated = a.repeated /\ q.pc = a.pc
        /\ Turn(a, q) /\ Subject(a, q) /\ Sight(a, q) /\ Figures(a, q) /\ Past(a, q)
    BY <1>3, <1>5, SetCells
  <1> HIDE DEF q
  <1>7. /\ Turn(p, q) /\ Subject(p, q) /\ Sight(p, q) /\ Figures(p, q) /\ Past(p, q)
        /\ q.last = p.last /\ q.shown = p.shown /\ q.repeated = p.repeated
    BY <1>5, <1>6 DEF Turn, Subject, Sight, Gathered, Figures, Past
  <1>8. p.page > 0 /\ p.op = "calendar"
    BY <1>1, <1>4 DEF Looking
  <1>9. Looking(q)
    BY <1>1, <1>4, <1>5, <1>6, <1>7, <1>8, StillLooking DEF Turn
  <1> QED
    BY <1>4, <1>5, <1>6, <1>7, <1>8, <1>9 DEF Goes, n

\* The next page, or the end.
LEMMA TurnGoes ==
    ASSUME ViewInv, NEW v \in Watching, TurnPage(v)
    PROVE  LET p == view[v]
           IN  \E q \in View :
                   /\ Goes(v, q) /\ p.pc = "answer"
                   /\ \/ /\ p.page * PageSize < p.total /\ q.page = p.page + 1
                         /\ q.pc = (IF p.lead = None THEN "queries" ELSE "scope")
                         /\ q.pending = QueriesOf(p.op)
                      \/ ~(p.page * PageSize < p.total) /\ q.pc = "done" /\ Turn(p, q)
                   /\ Sight(p, q) /\ Subject(p, q) /\ Gathered(p, q) /\ Figures(p, q) /\ Past(p, q)
  <1> DEFINE p == view[v]
  <1>1. p \in View /\ Looking(p)
    BY DEF ViewInv
  <1>2. /\ p.pc = "answer" /\ ViewOnly
        /\ \/ p.page * PageSize < p.total /\ See(v, Asking(p, p.page + 1))
           \/ ~(p.page * PageSize < p.total) /\ See(v, [p EXCEPT !.pc = "done"])
    BY Zenon DEF TurnPage
  <1>3. p.page \in Nat /\ p.page > 0 /\ p.page + 1 \in Nat /\ p.page + 1 > 0
    BY <1>1, <1>2 DEF View, Looking
  <1>4. CASE p.page * PageSize < p.total /\ See(v, Asking(p, p.page + 1))
    <2> DEFINE q == Asking(p, p.page + 1)
    <2>1. /\ q \in View /\ q.pc = (IF p.lead = None THEN "queries" ELSE "scope")
          /\ q.page = p.page + 1 /\ q.pending = QueriesOf(p.op)
          /\ Subject(p, q) /\ Sight(p, q) /\ Gathered(p, q) /\ Figures(p, q) /\ Past(p, q)
      BY <1>1, <1>3, AskingGoes
    <2>2. See(v, q)
      BY <1>4
    <2> HIDE DEF q
    <2>3. p.lead \in Leads \cup {None}
      BY <1>1 DEF View
    <2>4. Looking(q)
      BY <1>1, <1>2, <1>3, <2>1, <2>3, StillLooking
    <2> QED
      BY <1>2, <1>4, <2>1, <2>2, <2>4 DEF Goes
  <1>5. CASE ~(p.page * PageSize < p.total) /\ See(v, [p EXCEPT !.pc = "done"])
    <2> DEFINE q == [p EXCEPT !.pc = "done"]
    <2>1. /\ q \in View /\ q.pc = "done" /\ Turn(p, q)
          /\ Subject(p, q) /\ Sight(p, q) /\ Gathered(p, q) /\ Figures(p, q) /\ Past(p, q)
      BY <1>1, SetPc DEF ViewPcs
    <2>2. See(v, q)
      BY <1>5
    <2> HIDE DEF q
    <2>3. Looking(q)
      BY <1>1, <2>1, StillLooking
    <2> QED
      BY <1>2, <1>5, <2>1, <2>2, <2>3 DEF Goes
  <1> QED
    BY <1>2, <1>4, <1>5

-----------------------------------------------------------------------------
(* The export and the dismissals                                           *)

LEMMA OpenExportGoes ==
    ASSUME ViewInv, NEW v \in Watching, NEW narrow \in Narrowings, OpenExport(v, narrow)
    PROVE  \E q \in View : /\ Goes(v, q) /\ view[v].pc = "new" /\ q.pc = "count" /\ q.op = "export"
                           /\ q.lead = None /\ Sight(NoView, q) /\ Turn(NoView, q)
                           /\ Gathered(NoView, q) /\ Figures(NoView, q) /\ Past(NoView, q)
  <1> DEFINE a == [NoView EXCEPT !.pc = "count"]
             b == [a EXCEPT !.op = "export"]
             q == [b EXCEPT !.narrow = narrow]
  <1>1. view[v].pc = "new" /\ See(v, q) /\ ViewOnly
    BY FreshView DEF OpenExport, View
  <1>2. "count" \in ViewPcs /\ "export" \in ViewOps /\ NoView.lead = None /\ narrow \in Narrowing
    BY OverviewAssumption DEF ViewPcs, ViewOps, NoView
  <1>3. /\ a \in View /\ a.pc = "count" /\ Subject(NoView, a) /\ Sight(NoView, a) /\ Turn(NoView, a)
        /\ Gathered(NoView, a) /\ Figures(NoView, a) /\ Past(NoView, a)
    BY <1>2, FreshView, SetPc
  <1> HIDE DEF a
  <1>4. /\ b \in View /\ b.op = "export" /\ b.pc = a.pc /\ b.lead = a.lead
        /\ Sight(a, b) /\ Turn(a, b) /\ Gathered(a, b) /\ Figures(a, b) /\ Past(a, b)
    BY <1>2, <1>3, SetOp
  <1> HIDE DEF b
  <1>5. /\ q \in View /\ q.op = b.op /\ q.pc = b.pc /\ q.lead = b.lead
        /\ Sight(b, q) /\ Turn(b, q) /\ Gathered(b, q) /\ Figures(b, q) /\ Past(b, q)
    BY <1>2, <1>4, SetNarrow
  <1> HIDE DEF q
  <1>6. /\ Sight(NoView, q) /\ Turn(NoView, q) /\ Gathered(NoView, q) /\ Figures(NoView, q)
        /\ Past(NoView, q) /\ q.lead = None /\ q.pc = "count" /\ q.op = "export"
    BY <1>2, <1>3, <1>4, <1>5 DEF Subject, Sight, Turn, Gathered, Figures, Past
  <1>7. Looking(q)
    BY <1>6 DEF Looking
  <1> QED
    BY <1>1, <1>5, <1>6, <1>7 DEF Goes

LEMMA CountExportGoes ==
    ASSUME ViewInv, NEW v \in Watching, CountForExport(v)
    PROVE  LET p == view[v]
           IN  \E q \in View :
                   /\ Goes(v, q) /\ p.pc = "count" /\ p.op = "export" /\ q.counted = Rows(p)
                   /\ q.pc = (IF Cardinality(Rows(p)) > MaxExportRows THEN "refused" ELSE "fetch")
                   /\ Subject(p, q) /\ Sight(p, q) /\ Gathered(p, q) /\ q.named = p.named
  <1> DEFINE p == view[v]
             rows == Rows(p)
             n == Cardinality(rows)
             next == IF n > MaxExportRows THEN "refused" ELSE "fetch"
             a == [p EXCEPT !.total = n]
             b == [a EXCEPT !.counted = rows]
             q == [b EXCEPT !.pc = next]
  <1>1. p \in View /\ Looking(p)
    BY DEF ViewInv
  <1>2. p.pc = "count" /\ See(v, q) /\ ViewOnly
    BY <1>1 DEF CountForExport, View
  <1>3. p.op = "export"
    BY <1>1, <1>2 DEF Looking
  <1>4. /\ rows \in SUBSET Row /\ n \in Nat /\ next \in ViewPcs /\ next \in {"refused", "fetch"}
    BY RowsFinite DEF ViewPcs
  <1> HIDE DEF rows, n, next
  <1>5. /\ a \in View /\ a.total = n /\ a.named = p.named /\ a.pc = p.pc
        /\ Subject(p, a) /\ Sight(p, a) /\ Gathered(p, a)
    BY <1>1, <1>4, SetTotal
  <1> HIDE DEF a
  <1>6. /\ b \in View /\ b.counted = rows /\ b.pc = a.pc
        /\ Subject(a, b) /\ Sight(a, b) /\ Gathered(a, b) /\ Figures(a, b)
    BY <1>4, <1>5, SetCounted
  <1> HIDE DEF b
  <1>7. /\ q \in View /\ q.pc = next
        /\ Subject(b, q) /\ Sight(b, q) /\ Gathered(b, q) /\ Figures(b, q) /\ Past(b, q)
    BY <1>4, <1>6, SetPc
  <1> HIDE DEF q
  <1>8. /\ Subject(p, q) /\ Sight(p, q) /\ Gathered(p, q) /\ q.named = p.named
        /\ q.counted = rows
    BY <1>5, <1>6, <1>7 DEF Subject, Sight, Gathered, Figures, Past
  <1>9. Looking(q)
    BY <1>1, <1>2, <1>4, <1>7, <1>8, StillLooking
  <1> QED
    BY <1>2, <1>3, <1>7, <1>8, <1>9 DEF Goes, rows, n, next

LEMMA FetchGoes ==
    ASSUME ViewInv, NEW v \in Watching, FetchForExport(v)
    PROVE  LET p == view[v]
           IN  \E q \in View, rows \in PagesOf("report", Rows(p), 0, MaxExportRows) :
                   /\ Goes(v, q) /\ p.pc = "fetch" /\ p.op = "export"
                   /\ q.pc = "done" /\ q.shown = rows /\ Subject(p, q) /\ Sight(p, q)
                   /\ Figures(p, q)
  <1> DEFINE p == view[v]
             some(rows) == [p EXCEPT !.pc = "done", !.shown = rows]
  <1>1. p \in View /\ Looking(p)
    BY DEF ViewInv
  <1>2. PICK rows \in PagesOf("report", Rows(p), 0, MaxExportRows) : See(v, some(rows))
    BY Zenon DEF FetchForExport
  <1>3. p.pc = "fetch" /\ ViewOnly
    BY DEF FetchForExport
  <1>4. p.op = "export"
    BY <1>1, <1>3 DEF Looking
  <1>5. rows \in SUBSET Row
    <2>1. rows \subseteq Rows(p)
      BY DEF PagesOf, kSubset
    <2> QED
      BY <2>1, RowsFinite
  <1> DEFINE a == [p EXCEPT !.pc = "done"]
             q == [a EXCEPT !.shown = rows]
  <1>6. some(rows) = q
    BY <1>1 DEF View
  <1>7. /\ a \in View /\ a.pc = "done" /\ Subject(p, a) /\ Sight(p, a) /\ Figures(p, a)
    BY <1>1, SetPc DEF ViewPcs
  <1> HIDE DEF a
  <1>8. /\ q \in View /\ q.shown = rows /\ q.pc = a.pc
        /\ Subject(a, q) /\ Sight(a, q) /\ Figures(a, q)
    BY <1>5, <1>7, SetShown
  <1> HIDE DEF q
  <1>9. Subject(p, q) /\ Sight(p, q) /\ Figures(p, q)
    BY <1>7, <1>8 DEF Subject, Sight, Figures
  <1>10. Looking(q)
    BY <1>1, <1>7, <1>8, <1>9, StillLooking
  <1>11. See(v, q)
    BY <1>2, <1>6
  <1> QED
    BY <1>2, <1>3, <1>4, <1>7, <1>8, <1>9, <1>10, <1>11 DEF Goes

LEMMA OpenDismissalGoes ==
    ASSUME ViewInv, NEW v \in Watching, NEW about \in Dismissable, OpenDismissal(v, about)
    PROVE  \E q \in View : /\ Goes(v, q) /\ view[v].pc = "new" /\ q.pc \in {"exists", "delete"}
                           /\ q.op \in {"dismiss", "undismiss"} /\ q.about = about
                           /\ q.lead = None /\ Sight(NoView, q) /\ Turn(NoView, q)
                           /\ Gathered(NoView, q) /\ Figures(NoView, q) /\ Past(NoView, q)
  <1> DEFINE first(op) == IF op = "dismiss" THEN "exists" ELSE "delete"
             some(op) == [NoView EXCEPT !.pc = first(op), !.op = op, !.about = about]
  <1>1. PICK op \in {"dismiss", "undismiss"} : See(v, some(op))
    BY Zenon DEF OpenDismissal
  <1>2. view[v].pc = "new" /\ ViewOnly
    BY DEF OpenDismissal
  <1> DEFINE pc == first(op)
             a == [NoView EXCEPT !.pc = pc]
             b == [a EXCEPT !.op = op]
             q == [b EXCEPT !.about = about]
  <1>3. some(op) = q
    BY FreshView DEF View
  <1>4. /\ pc \in ViewPcs /\ pc \in {"exists", "delete"} /\ op \in ViewOps
        /\ about \in Dismissal /\ NoView.lead = None
    BY OverviewAssumption DEF ViewPcs, ViewOps, NoView, Dismissal
  <1> HIDE DEF pc
  <1>5. /\ a \in View /\ a.pc = pc /\ Subject(NoView, a) /\ Sight(NoView, a) /\ Turn(NoView, a)
        /\ Gathered(NoView, a) /\ Figures(NoView, a) /\ Past(NoView, a)
    BY <1>4, FreshView, SetPc
  <1> HIDE DEF a
  <1>6. /\ b \in View /\ b.op = op /\ b.pc = a.pc /\ b.lead = a.lead
        /\ Sight(a, b) /\ Turn(a, b) /\ Gathered(a, b) /\ Figures(a, b) /\ Past(a, b)
    BY <1>4, <1>5, SetOp
  <1> HIDE DEF b
  <1>7. /\ q \in View /\ q.about = about /\ q.op = b.op /\ q.pc = b.pc /\ q.lead = b.lead
        /\ Sight(b, q) /\ Turn(b, q) /\ Gathered(b, q) /\ Figures(b, q) /\ Past(b, q)
    BY <1>4, <1>6, SetAbout
  <1> HIDE DEF q
  <1>8. /\ Sight(NoView, q) /\ Turn(NoView, q) /\ Gathered(NoView, q) /\ Figures(NoView, q)
        /\ Past(NoView, q) /\ q.lead = None /\ q.pc \in {"exists", "delete"} /\ q.op = op
    BY <1>4, <1>5, <1>6, <1>7 DEF Subject, Sight, Turn, Gathered, Figures, Past
  <1>9. Looking(q)
    BY <1>4, <1>7, <1>8 DEF Looking
  <1>10. See(v, q)
    BY <1>1, <1>3
  <1> QED
    BY <1>2, <1>7, <1>8, <1>9, <1>10 DEF Goes

\* The exception is looked for, and remembered as seen if it is there.
LEMMA ExistsGoes ==
    ASSUME ViewInv, NEW v \in Watching, ExceptionExists(v)
    PROVE  LET p == view[v]
           IN  \E q \in View :
                   /\ Looking(q) /\ See(v, q) /\ p.pc = "exists" /\ p.about \in Dismissal
                   /\ \/ q.pc = "upsert" /\ noticed' = noticed \cup {p.about}
                      \/ q.pc = "refused" /\ noticed' = noticed
                   /\ Subject(p, q) /\ Sight(p, q) /\ Turn(p, q) /\ Gathered(p, q)
                   /\ Figures(p, q) /\ Past(p, q)
                   /\ UNCHANGED <<vars, record, dismissal, writes>>
  <1> DEFINE p == view[v]
             found == <<p.about[1], p.about[2]>> \in Exceptions({p.about[3]}, TRUE)
             next == IF found THEN "upsert" ELSE "refused"
             q == [p EXCEPT !.pc = next]
  <1>1. p \in View /\ Looking(p)
    BY DEF ViewInv
  <1>2. /\ p.pc = "exists" /\ See(v, q) /\ UNCHANGED <<vars, record, dismissal, writes>>
        /\ noticed' = IF found THEN noticed \cup {p.about} ELSE noticed
    BY Zenon DEF ExceptionExists
  <1>3. p.about \in Dismissal
    BY <1>1, <1>2 DEF Looking
  <1>4. /\ next \in ViewPcs
        /\ \/ next = "upsert" /\ noticed' = noticed \cup {p.about}
           \/ next = "refused" /\ noticed' = noticed
    <2> HIDE DEF found
    <2> QED
      BY <1>2 DEF ViewPcs
  <1> HIDE DEF next
  <1>5. /\ q \in View /\ q.pc = next /\ Subject(p, q) /\ Sight(p, q) /\ Turn(p, q) /\ Gathered(p, q)
        /\ Figures(p, q) /\ Past(p, q)
    BY <1>1, <1>4, SetPc
  <1> HIDE DEF q
  <1>6. Looking(q)
    BY <1>1, <1>2, <1>4, <1>5, StillLooking
  <1> QED
    BY <1>2, <1>3, <1>4, <1>5, <1>6

\* A dismissal is written, or taken back.
LEMMA DismissalGoes ==
    ASSUME ViewInv, NEW v \in Watching, Dismiss(v) \/ Undismiss(v)
    PROVE  LET p == view[v]
           IN  \E q \in View :
                   /\ Looking(q) /\ SeeAs(v, q) /\ p.op \in {"dismiss", "undismiss"}
                   /\ p.about \in Dismissal
                   /\ \/ p.pc = "upsert" /\ dismissal' = dismissal \cup {p.about}
                      \/ p.pc = "delete" /\ dismissal' = dismissal \ {p.about}
                   /\ q.pc \in {"done", "refused"}
                   /\ Subject(p, q) /\ Sight(p, q) /\ Turn(p, q) /\ Gathered(p, q)
                   /\ Figures(p, q) /\ Past(p, q)
                   /\ UNCHANGED <<vars, record, noticed, writes>>
  <1> DEFINE p == view[v]
             some(pc) == [p EXCEPT !.pc = pc]
  <1>1. p \in View /\ Looking(p)
    BY DEF ViewInv
  <1>2. PICK pc \in {"done", "refused"} :
           /\ SeeAs(v, some(pc)) /\ UNCHANGED <<vars, record, noticed, writes>>
           /\ \/ p.pc = "upsert" /\ dismissal' = dismissal \cup {p.about}
              \/ p.pc = "delete" /\ dismissal' = dismissal \ {p.about}
    BY Zenon DEF Dismiss, Undismiss
  <1> DEFINE q == some(pc)
  <1>3. SeeAs(v, q) /\ pc \in ViewPcs
    BY <1>2 DEF ViewPcs
  <1>4. /\ q \in View /\ q.pc = pc /\ Subject(p, q) /\ Sight(p, q) /\ Turn(p, q) /\ Gathered(p, q)
        /\ Figures(p, q) /\ Past(p, q)
    BY <1>1, <1>3, SetPc
  <1> HIDE DEF q
  <1>5. p.op \in {"dismiss", "undismiss"} /\ p.about \in Dismissal
    BY <1>1, <1>2 DEF Looking
  <1>6. Looking(q)
    BY <1>1, <1>4, StillLooking
  <1> QED
    BY <1>2, <1>3, <1>4, <1>5, <1>6

-----------------------------------------------------------------------------
(* Every step                                                              *)

\* What a viewer or a dismissal does to the views.
LEMMA ViewerGoes ==
    ASSUME ViewInv, NEW v \in Watching, ViewStep(v)
    PROVE  \E q \in View : /\ Goes(v, q) /\ q.pc # "upsert"
                           /\ q.pc = "fetch" => /\ IsFiniteSet(q.counted)
                                                /\ Cardinality(q.counted) <= MaxExportRows
                           /\ view[v].pc = "fetch" => FetchForExport(v)
  <1>1. CASE \E op \in Listings, lead \in Leads \cup {None}, types \in {{}, {"LATE"}, Bad},
                narrow \in Narrowings : Open(v, op, lead, types, narrow)
    <2>1. PICK op \in Listings, lead \in Leads \cup {None}, types \in {{}, {"LATE"}, Bad},
               narrow \in Narrowings : Open(v, op, lead, types, narrow)
      BY <1>1, Zenon
    <2>2. PICK q \in View : Goes(v, q) /\ view[v].pc = "new" /\ Opened(q)
      BY <2>1, OpenGoes
    <2> QED
      BY <2>2 DEF Opened
  <1>2. CASE GetEmployeeScope(v)
    BY <1>2, ScopeGoes
  <1>3. CASE ReadPage(v)
    BY <1>3, PageGoes DEF AfterQuery
  <1>4. CASE ReadTotal(v)
    BY <1>4, TotalGoes DEF AfterQuery
  <1>5. CASE ReadHeadcount(v)
    BY <1>5, HeadcountGoes DEF AfterQuery
  <1>6. CASE ReadCounts(v)
    BY <1>6, CountsGoes DEF AfterQuery
  <1>7. CASE ReadLists(v)
    BY <1>7, ListsGo DEF AfterQuery
  <1>8. CASE ReadCells(v)
    BY <1>8, CellsGo
  <1>9. CASE TurnPage(v)
    BY <1>9, TurnGoes
  <1>10. CASE \E narrow \in Narrowings : OpenExport(v, narrow)
    BY <1>10, OpenExportGoes
  <1>11. CASE CountForExport(v)
    BY <1>11, CountExportGoes, RowsFinite, OverviewAssumption
  <1>12. CASE FetchForExport(v)
    BY <1>12, FetchGoes
  <1> QED
    BY <1>1, <1>2, <1>3, <1>4, <1>5, <1>6, <1>7, <1>8, <1>9, <1>10, <1>11, <1>12, Zenon
       DEF ViewStep

\* A record is written for somebody who is there.
LEMMA RecordWritten ==
    ASSUME ViewInv, WriteRecord
    PROVE  \E r \in People \X WorkDates, new \in DayRecords :
              /\ r[1] \in Present /\ record' = [record EXCEPT ![r] = new]
              /\ SeeAs(None, NoView) /\ writes < MaxWrites /\ writes' = writes + 1
              /\ UNCHANGED <<vars, dismissal, noticed>>
  <1>1. PICK r \in Written, new \in DayRecords :
              /\ r[1] \in Present /\ record' = [record EXCEPT ![r] = new]
              /\ SeeAs(None, NoView)
    BY Zenon DEF WriteRecord
  <1>2. writes < MaxWrites /\ writes' = writes + 1 /\ UNCHANGED <<vars, dismissal, noticed>>
    BY DEF WriteRecord
  <1> QED
    BY <1>1, <1>2, OverviewAssumption

\* Employees change: under every view, unless the table stays as it is.
LEMMA ChangedEmployees ==
    ASSUME EmployeesChange
    PROVE  /\ Next /\ UNCHANGED <<record, dismissal, noticed, writes>>
           /\ \/ employee' = employee /\ view' = view
              \/ SeeAs(None, NoView)
  BY Zenon DEF EmployeesChange

LEMMA NobodyWatches == None \notin Watching
  BY OverviewAssumption DEF Watching

\* The rows and the views stay well formed.
LEMMA ViewsKeep ==
    ASSUME ViewInv, [OverviewNext]_allVars
    PROVE  ViewInv'
  <1> DEFINE Shape == /\ view' \in [Watching -> View]
                      /\ \A w \in Watching : Looking(view'[w])
  <1>1. CASE EmployeesChange
    <2>1. /\ Next /\ UNCHANGED <<record, dismissal, noticed, writes>>
          /\ view' = view \/ SeeAs(None, NoView)
      BY <1>1, ChangedEmployees, Zenon
    <2>2. TypeInv'
      BY <2>1, NextMoves DEF ViewInv
    <2>3. Shape
      BY <2>1, Disturbing, FreshView DEF ViewInv
    <2> QED
      BY <2>1, <2>2, <2>3 DEF ViewInv
  <1>2. CASE WriteRecord
    <2>1. PICK r \in People \X WorkDates, new \in DayRecords :
              /\ record' = [record EXCEPT ![r] = new]
              /\ SeeAs(None, NoView) /\ writes < MaxWrites /\ writes' = writes + 1
              /\ UNCHANGED <<vars, dismissal, noticed>>
      BY <1>2, RecordWritten
    <2>2. TypeInv'
      BY <2>1, NextMoves DEF ViewInv, vars
    <2>3. Shape
      BY <2>1, Disturbing, FreshView
    <2>4. record' \in [People \X WorkDates -> DayRecords \cup {None}]
      BY <2>1 DEF ViewInv
    <2>5. writes' \in 0..MaxWrites
      BY <2>1, OverviewAssumption DEF ViewInv
    <2> QED
      BY <2>1, <2>2, <2>3, <2>4, <2>5 DEF ViewInv
  <1>3. CASE \E v \in Viewers : ViewStep(v)
    <2>1. PICK v \in Watching : ViewStep(v)
      BY <1>3 DEF Watching
    <2>2. PICK q \in View : Goes(v, q)
      BY <2>1, ViewerGoes
    <2>3. UNCHANGED <<vars, record, dismissal, noticed, writes>> /\ See(v, q) /\ Looking(q)
      BY <2>2 DEF Goes, ViewOnly
    <2>4. TypeInv'
      BY <2>3, NextMoves DEF ViewInv, vars
    <2>5. Shape
      BY <2>3, Seeing
    <2> QED
      BY <2>3, <2>4, <2>5 DEF ViewInv
  <1>4. CASE \E v \in Dismissers : DismissalStep(v)
    <2>1. PICK v \in Watching : DismissalStep(v)
      BY <1>4 DEF Watching
    <2>2. ASSUME NEW about \in Dismissable, OpenDismissal(v, about)
          PROVE  Shape /\ UNCHANGED <<vars, record, dismissal, noticed, writes>>
      BY <2>2, OpenDismissalGoes, Seeing DEF Goes, ViewOnly
    <2>3. ASSUME ExceptionExists(v)
          PROVE  Shape /\ noticed' \subseteq Dismissal /\ UNCHANGED <<vars, record, dismissal, writes>>
      <3>1. PICK q \in View :
              /\ Looking(q) /\ See(v, q) /\ view[v].about \in Dismissal
              /\ noticed' = noticed \cup {view[v].about} \/ noticed' = noticed
              /\ UNCHANGED <<vars, record, dismissal, writes>>
        BY <2>3, ExistsGoes
      <3>2. Shape
        BY <3>1, Seeing
      <3> QED
        BY <3>1, <3>2 DEF ViewInv
    <2>4. ASSUME Dismiss(v) \/ Undismiss(v)
          PROVE  Shape /\ dismissal' \subseteq Dismissal /\ UNCHANGED <<vars, record, noticed, writes>>
      <3>1. PICK q \in View :
              /\ Looking(q) /\ SeeAs(v, q) /\ view[v].about \in Dismissal
              /\ \/ dismissal' = dismissal \cup {view[v].about}
                 \/ dismissal' = dismissal \ {view[v].about}
              /\ UNCHANGED <<vars, record, noticed, writes>>
        BY <2>4, DismissalGoes
      <3>2. Shape
        BY <3>1, Disturbing
      <3> QED
        BY <3>1, <3>2 DEF ViewInv
    <2>5. /\ Shape /\ dismissal' \subseteq Dismissal /\ noticed' \subseteq Dismissal
          /\ UNCHANGED <<vars, record, writes>>
      <3> HIDE DEF Shape
      <3> QED
        BY <2>1, <2>2, <2>3, <2>4 DEF DismissalStep, ViewInv
    <2>6. TypeInv'
      BY <2>5, NextMoves DEF ViewInv, vars
    <2> QED
      BY <2>5, <2>6 DEF ViewInv
  <1>5. CASE UNCHANGED allVars
    <2>1. UNCHANGED <<vars, record, dismissal, view, noticed, writes>>
      BY <1>5 DEF allVars, viewVars
    <2>2. TypeInv'
      BY <2>1, NextMoves DEF ViewInv, vars
    <2> QED
      BY <2>1, <2>2 DEF ViewInv
  <1> QED
    BY <1>1, <1>2, <1>3, <1>4, <1>5 DEF OverviewNext

LEMMA InitSeen ==
    ASSUME OverviewInit
    PROVE  ViewInv /\ NoticeInv
  <1>1. TypeInv
    BY InitRight DEF OverviewInit
  <1>2. /\ record \in [People \X WorkDates -> DayRecords \cup {None}]
        /\ dismissal = {} /\ noticed = {} /\ writes = 0 /\ 0 \in 0..MaxWrites
    <2>1. record \in RecordStarts /\ dismissal = {} /\ noticed = {} /\ writes = 0
      BY DEF OverviewInit
    <2>2. record \in [People \X WorkDates -> DayRecords \cup {None}]
      BY <2>1, OverviewAssumption, Zenon
    <2>3. 0 \in 0..MaxWrites
      BY OverviewAssumption
    <2> QED
      BY <2>1, <2>2, <2>3
  <1>3. view = [v \in Watching |-> NoView]
    BY DEF OverviewInit, Watching
  <1>4. \A v \in Watching : view[v] = NoView
    BY <1>3
  <1>5. /\ view \in [Watching -> View]
        /\ \A v \in Watching : Looking(view[v]) /\ view[v].pc = "new"
    BY <1>3, <1>4, FreshView
  <1> QED
    BY <1>1, <1>2, <1>5 DEF ViewInv, NoticeInv

\* The rows and the views in flight are well formed.
THEOREM OverviewTyped == OverviewSpec => []OverviewTypeOK
  <1>1. OverviewInit => ViewInv
    BY InitSeen
  <1>2. ViewInv /\ [OverviewNext]_allVars => ViewInv'
    BY ViewsKeep
  <1>3. ViewInv => OverviewTypeOK
    BY DEF ViewInv, TypeInv, OverviewTypeOK, Watching
  <1> QED
    BY <1>1, <1>2, <1>3, PTL DEF OverviewSpec

\* The employees that the views look at are those of the module Employees, and
\* what is proved of those holds of them: only viewers and records come on top.
THEOREM OverviewImplementsEmployees == OverviewSpec => Spec
  <1>1. OverviewInit => Init
    BY DEF OverviewInit
  <1>2. [OverviewNext]_allVars => [Next]_vars
    <2> SUFFICES ASSUME [OverviewNext]_allVars PROVE [Next]_vars
      OBVIOUS
    <2>1. CASE EmployeesChange
      BY <2>1, ChangedEmployees
    <2>2. CASE WriteRecord
      BY <2>2, Zenon DEF WriteRecord
    <2>3. ASSUME NEW v, ViewStep(v)
          PROVE  UNCHANGED vars
      BY <2>3, Zenon DEF ViewStep, ViewOnly, Open, GetEmployeeScope, ReadPage, ReadTotal,
         ReadHeadcount, ReadCounts,
         ReadLists, ReadCells, TurnPage, OpenExport, CountForExport, FetchForExport
    <2>4. ASSUME NEW v, DismissalStep(v)
          PROVE  UNCHANGED vars
      BY <2>4, Zenon DEF DismissalStep, ViewOnly, OpenDismissal, ExceptionExists, Dismiss, Undismiss
    <2>5. CASE UNCHANGED allVars
      BY <2>5 DEF allVars
    <2> QED
      BY <2>1, <2>2, <2>3, <2>4, <2>5 DEF OverviewNext
  <1> QED
    BY <1>1, <1>2, PTL DEF OverviewSpec, Spec

-----------------------------------------------------------------------------
(* What a step is to each view                                             *)

\* Nothing changes that a query reads.
Calm == UNCHANGED <<employee, record, dismissal>>

Stays(w) == view'[w] = view[w] /\ (Calm \/ view[w].pc = "new")

Unsettles(w) == view[w].pc # "new" /\ Alike(view[w], view'[w]) /\ view'[w].disturbed

LEMMA OthersUnsettled ==
    ASSUME ViewInv, NEW v, Disturbs(v)
    PROVE  \A w \in Watching \ {v} : (view[w].pc = "new" /\ view'[w] = view[w]) \/ Unsettles(w)
  <1> SUFFICES ASSUME NEW w \in Watching \ {v}, view[w].pc # "new"
               PROVE  Unsettles(w)
    BY DEF Disturbs
  <1> DEFINE u == Unsettled(view[w])
  <1>1. view'[w] = u /\ view[w] \in View
    BY DEF Disturbs, ViewInv
  <1>2. Alike(view[w], u) /\ u.disturbed
    BY <1>1, Unsettling
  <1> HIDE DEF u
  <1> QED
    BY <1>1, <1>2, Zenon DEF Unsettles

LEMMA EachView ==
    ASSUME ViewInv, [OverviewNext]_allVars, NEW w \in Watching
    PROVE  Stays(w) \/ Unsettles(w) \/ (ViewStep(w) /\ Calm) \/ DismissalStep(w)
  <1>1. ASSUME NEW v, v # w, NEW q \in View, Looking(q), SeeAs(v, q)
        PROVE  Stays(w) \/ Unsettles(w)
    <2>1. Disturbs(v)
      BY <1>1, Disturbing
    <2>2. \A x \in Watching \ {v} : (view[x].pc = "new" /\ view'[x] = view[x]) \/ Unsettles(x)
      BY <2>1, OthersUnsettled, Zenon
    <2> HIDE DEF Unsettles
    <2> QED
      BY <1>1, <2>2 DEF Stays
  <1>2. CASE EmployeesChange
    <2>1. CASE SeeAs(None, NoView)
      BY <1>1, <2>1, FreshView, NobodyWatches
    <2>2. CASE employee' = employee /\ view' = view /\ UNCHANGED <<record, dismissal>>
      BY <2>2 DEF Stays, Calm
    <2> HIDE DEF Stays, Unsettles
    <2> QED
      BY <1>2, <2>1, <2>2, ChangedEmployees, Zenon
  <1>3. CASE WriteRecord
    <2>1. SeeAs(None, NoView)
      BY <1>3, RecordWritten
    <2> HIDE DEF Stays, Unsettles
    <2> QED
      BY <1>1, <2>1, FreshView, NobodyWatches
  <1>4. ASSUME NEW v \in Watching, v # w, ViewStep(v)
        PROVE  Stays(w)
    <2>1. PICK q \in View : Goes(v, q)
      BY <1>4, ViewerGoes
    <2>2. Calm /\ See(v, q) /\ Looking(q)
      BY <2>1 DEF Goes, ViewOnly, Calm, vars
    <2>3. view'[w] = view[w]
      BY <1>4, <2>2, Seeing DEF ShownTo
    <2> QED
      BY <2>2, <2>3 DEF Stays
  <1>5. ASSUME NEW v \in Watching, ViewStep(v)
        PROVE  Calm
    BY <1>5, ViewerGoes DEF Goes, ViewOnly, Calm, vars
  <1>6. ASSUME NEW v \in Watching, v # w, DismissalStep(v)
        PROVE  Stays(w) \/ Unsettles(w)
    <2>1. ASSUME NEW about \in Dismissable, OpenDismissal(v, about)
          PROVE  Stays(w)
      <3>1. PICK q \in View : Goes(v, q)
        BY <2>1, OpenDismissalGoes
      <3>2. Calm /\ See(v, q) /\ Looking(q)
        BY <3>1 DEF Goes, ViewOnly, Calm, vars
      <3> QED
        BY <1>6, <3>2, Seeing DEF ShownTo, Stays
    <2>2. ASSUME ExceptionExists(v)
          PROVE  Stays(w)
      <3>1. PICK q \in View : Looking(q) /\ See(v, q) /\ UNCHANGED <<vars, record, dismissal, writes>>
        BY <2>2, ExistsGoes
      <3> QED
        BY <1>6, <3>1, Seeing DEF ShownTo, Stays, Calm, vars
    <2>3. ASSUME Dismiss(v) \/ Undismiss(v)
          PROVE  Stays(w) \/ Unsettles(w)
      <3>1. PICK q \in View : Looking(q) /\ SeeAs(v, q)
        BY <2>3, DismissalGoes
      <3> QED
        BY <1>1, <1>6, <3>1
    <2> HIDE DEF Stays, Unsettles
    <2> QED
      BY <1>6, <2>1, <2>2, <2>3 DEF DismissalStep
  <1>7. CASE UNCHANGED allVars
    <2>1. Calm /\ view' = view
      BY <1>7 DEF allVars, viewVars, vars, Calm
    <2> QED
      BY <2>1 DEF Stays
  <1> HIDE DEF Stays, Unsettles, Calm
  <1> QED
    BY <1>2, <1>3, <1>4, <1>5, <1>6, <1>7 DEF OverviewNext, Watching

-----------------------------------------------------------------------------
(* Dismissals                                                              *)

LEMMA NoticesKeep ==
    ASSUME ViewInv, NoticeInv, [OverviewNext]_allVars
    PROVE  NoticeInv'
  <1>1. /\ noticed \subseteq noticed'
        /\ \A d \in dismissal' \ dismissal : \E v \in Watching : view[v].pc = "upsert" /\ view[v].about = d
    <2>1. CASE EmployeesChange \/ WriteRecord \/ UNCHANGED allVars
      BY <2>1, ChangedEmployees, RecordWritten DEF allVars, viewVars
    <2>2. CASE \E v \in Viewers : ViewStep(v)
      BY <2>2, ViewerGoes DEF Goes, ViewOnly, Watching
    <2>3. CASE \E v \in Dismissers : DismissalStep(v)
      <3>1. PICK v \in Watching : DismissalStep(v)
        BY <2>3 DEF Watching
      <3>2. ASSUME NEW about \in Dismissable, OpenDismissal(v, about)
            PROVE  noticed' = noticed /\ dismissal' = dismissal
        BY <3>2, OpenDismissalGoes DEF Goes, ViewOnly
      <3>3. ASSUME ExceptionExists(v)
            PROVE  noticed \subseteq noticed' /\ dismissal' = dismissal
        BY <3>3, ExistsGoes
      <3>4. ASSUME Dismiss(v) \/ Undismiss(v)
            PROVE  /\ noticed' = noticed
                   /\ \/ view[v].pc = "upsert" /\ dismissal' = dismissal \cup {view[v].about}
                      \/ dismissal' = dismissal \ {view[v].about}
        BY <3>4, DismissalGoes
      <3>5. \/ noticed \subseteq noticed' /\ dismissal' = dismissal
            \/ /\ noticed' = noticed
               /\ \/ view[v].pc = "upsert" /\ dismissal' = dismissal \cup {view[v].about}
                  \/ dismissal' = dismissal \ {view[v].about}
        BY <3>1, <3>2, <3>3, <3>4 DEF DismissalStep
      <3> QED
        BY <3>5
    <2> QED
      BY <2>1, <2>2, <2>3 DEF OverviewNext
  <1>2. ASSUME NEW w \in Watching, view'[w].pc = "upsert"
        PROVE  view'[w].about \in noticed'
    <2>1. view[w].pc = "upsert" => view[w].about \in noticed'
      BY <1>1 DEF NoticeInv
    <2>2. CASE Stays(w)
      BY <1>2, <2>1, <2>2 DEF Stays
    <2>3. CASE Unsettles(w)
      BY <1>2, <2>1, <2>3 DEF Unsettles, Alike
    <2>4. CASE ViewStep(w)
      <3>1. PICK q \in View : Goes(w, q) /\ q.pc # "upsert"
        BY <2>4, ViewerGoes
      <3>2. view'[w] = q
        BY <3>1, Seeing DEF Goes, ShownTo
      <3> QED
        BY <1>2, <3>1, <3>2
    <2>5. CASE DismissalStep(w)
      <3>1. ASSUME NEW about \in Dismissable, OpenDismissal(w, about)
            PROVE  view'[w].pc # "upsert"
        <4>1. PICK q \in View : Goes(w, q) /\ q.pc \in {"exists", "delete"}
          BY <3>1, OpenDismissalGoes
        <4> QED
          BY <4>1, Seeing DEF Goes, ShownTo
      <3>2. ASSUME ExceptionExists(w)
            PROVE  view'[w].about \in noticed'
        <4>1. PICK q \in View :
                 /\ Looking(q) /\ See(w, q) /\ Subject(view[w], q)
                 /\ \/ q.pc = "upsert" /\ noticed' = noticed \cup {view[w].about}
                    \/ q.pc = "refused"
          BY <3>2, ExistsGoes
        <4> QED
          BY <1>2, <4>1, Seeing DEF ShownTo, Subject
      <3>3. ASSUME Dismiss(w) \/ Undismiss(w)
            PROVE  view'[w].pc # "upsert"
        <4>1. PICK q \in View : Looking(q) /\ SeeAs(w, q) /\ q.pc \in {"done", "refused"}
          BY <3>3, DismissalGoes
        <4> QED
          BY <4>1, Disturbing
      <3> QED
        BY <1>2, <2>5, <3>1, <3>2, <3>3 DEF DismissalStep
    <2> QED
      BY <2>2, <2>3, <2>4, <2>5, EachView
  <1> QED
    BY <1>1, <1>2 DEF NoticeInv

LEMMA NoticesHold == OverviewSpec => [](ViewInv /\ NoticeInv)
  <1>1. OverviewInit => ViewInv /\ NoticeInv
    BY InitSeen
  <1>2. ViewInv /\ NoticeInv /\ [OverviewNext]_allVars => (ViewInv /\ NoticeInv)'
    BY ViewsKeep, NoticesKeep
  <1> QED
    BY <1>1, <1>2, PTL DEF OverviewSpec

\* What the queue of exceptions leaves out although it is an exception has been seen
\* as that exception by whoever dismissed it, whatever was recalculated meanwhile.
THEOREM NothingIsHiddenUnseen == OverviewSpec => []HiddenOnlyIfSeen
  <1>1. ViewInv /\ NoticeInv => HiddenOnlyIfSeen
    <2> SUFFICES ASSUME NoticeInv, NEW r \in Exceptions({}, TRUE) \ Exceptions({}, FALSE)
                 PROVE  <<r[1], r[2], ExceptionType(r)>> \in noticed
      BY DEF HiddenOnlyIfSeen
    <2>1. Dismissed(r)
      BY DEF Exceptions
    <2> QED
      BY <2>1 DEF Dismissed, NoticeInv
  <1> QED
    BY <1>1, NoticesHold, PTL

-----------------------------------------------------------------------------
(* Whom a manager is shown                                                 *)

LEMMA PageOfRows ==
    ASSUME NEW op, NEW rows, NEW skipped, NEW size, NEW p \in PagesOf(op, rows, skipped, size)
    PROVE  p \subseteq rows
  BY DEF PagesOf, kSubset

LEMMA LinesKeep ==
    ASSUME ViewInv, LineInv, [OverviewNext]_allVars
    PROVE  LineInv'
  <1> DEFINE InLine(q) ==
               q.lead # None =>
                  /\ q.pc \in {"queries", "cells", "answer"} => q.scope \subseteq q.line
                  /\ q.named \cup {r[1] : r \in q.shown} \subseteq q.line
  <1> SUFFICES ASSUME NEW w \in Watching PROVE InLine(view'[w])
    BY DEF LineInv
  <1> DEFINE p == view[w]
  <1>1. InLine(p) /\ p \in View /\ Looking(p)
    BY DEF LineInv, ViewInv
  <1>2. CASE Stays(w)
    BY <1>1, <1>2 DEF Stays
  <1>3. CASE Unsettles(w)
    BY <1>1, <1>3 DEF Unsettles, Alike
  <1>4. ASSUME NEW q \in View, Looking(q), See(w, q), InLine(q)
        PROVE  InLine(view'[w])
    BY <1>4, Seeing DEF ShownTo
  <1>5. ASSUME NEW q, Subject(p, q), Sight(p, q), p.pc \in {"queries", "cells", "answer"},
               p.lead # None => q.named \cup {r[1] : r \in q.shown} \subseteq p.line
        PROVE  InLine(q)
    BY <1>1, <1>5 DEF Subject, Sight
  <1>6. NoView.named = {} /\ NoView.shown = {}
    BY DEF NoView
  <1>7. CASE ViewStep(w)
    <2>1. ASSUME NEW op \in Listings, NEW lead \in Leads \cup {None}, NEW types \in {{}, {"LATE"}, Bad},
                 NEW narrow \in Narrowings, Open(w, op, lead, types, narrow)
          PROVE  InLine(view'[w])
      <3>1. PICK q \in View : Goes(w, q) /\ Opened(q)
        BY <2>1, OpenGoes
      <3>2. InLine(q)
        BY <1>6, <3>1 DEF Opened, Figures, Gathered
      <3> QED
        BY <1>4, <3>1, <3>2 DEF Goes
    <2>2. CASE GetEmployeeScope(w)
      <3>1. PICK q \in View : /\ Goes(w, q) /\ q.scope = Scope(p.lead)
                              /\ q.line = p.line \cup Scope(p.lead)
                              /\ Subject(p, q) /\ Gathered(p, q) /\ Figures(p, q)
        BY <2>2, ScopeGoes
      <3>2. InLine(q)
        BY <1>1, <3>1 DEF Subject, Gathered, Figures
      <3> QED
        BY <1>4, <3>1, <3>2 DEF Goes
    <2>3. CASE ReadPage(w)
      <3>1. PICK q \in View, rows \in PagesOf(p.op, Rows(p), (p.page - 1) * PageSize, PageSize) :
               /\ Goes(w, q) /\ p.pc = "queries" /\ q.shown = p.shown \cup rows
               /\ Subject(p, q) /\ Sight(p, q) /\ Figures(p, q)
        BY <2>3, PageGoes
      <3>2. p.lead # None => rows \subseteq p.scope \X {NoDate}
        <4>1. p.lead # None => Rows(p) \subseteq p.scope \X {NoDate}
          BY <1>1, RowsFinite DEF Looking
        <4> QED
          BY <4>1, PageOfRows
      <3>3. p.lead # None => {r[1] : r \in rows} \subseteq p.line
        BY <1>1, <3>1, <3>2
      <3>4. p.lead # None => q.named \cup {r[1] : r \in q.shown} \subseteq p.line
        BY <1>1, <3>1, <3>3 DEF Figures
      <3> QED
        BY <1>4, <1>5, <3>1, <3>4 DEF Goes
    <2>4. CASE ReadTotal(w)
      <3>1. PICK q \in View : /\ Goes(w, q) /\ p.pc = "queries" /\ q.named = p.named
                              /\ Subject(p, q) /\ Sight(p, q) /\ Gathered(p, q)
        BY <2>4, TotalGoes
      <3> QED
        BY <1>1, <1>4, <1>5, <3>1 DEF Goes, Gathered
    <2>5. CASE ReadHeadcount(w)
      <3>1. PICK q \in View : /\ Goes(w, q) /\ p.pc = "queries" /\ q.named = p.named
                              /\ Subject(p, q) /\ Sight(p, q) /\ Gathered(p, q)
        BY <2>5, HeadcountGoes
      <3> QED
        BY <1>1, <1>4, <1>5, <3>1 DEF Goes, Gathered
    <2>6. CASE ReadCounts(w)
      <3>1. PICK q \in View : /\ Goes(w, q) /\ p.pc = "queries" /\ q.named = p.named
                              /\ Subject(p, q) /\ Sight(p, q) /\ Gathered(p, q)
        BY <2>6, CountsGoes
      <3> QED
        BY <1>1, <1>4, <1>5, <3>1 DEF Goes, Gathered
    <2>7. CASE ReadLists(w)
      <3>1. PICK q \in View : /\ Goes(w, q) /\ p.pc = "queries" /\ q.named = Named(p)
                              /\ Subject(p, q) /\ Sight(p, q) /\ Gathered(p, q)
        BY <2>7, ListsGo
      <3>2. p.lead # None => q.named \cup {r[1] : r \in q.shown} \subseteq p.line
        BY <1>1, <3>1 DEF Named, Gathered
      <3> QED
        BY <1>4, <1>5, <3>1, <3>2 DEF Goes
    <2>8. CASE ReadCells(w)
      <3>1. PICK q \in View : /\ Goes(w, q) /\ p.pc = "cells" /\ q.shown = p.shown
                              /\ Subject(p, q) /\ Sight(p, q) /\ Figures(p, q)
        BY <2>8, CellsGo
      <3> QED
        BY <1>1, <1>4, <1>5, <3>1 DEF Goes, Figures
    <2>9. CASE TurnPage(w)
      <3>1. PICK q \in View : /\ Goes(w, q) /\ p.pc = "answer"
                              /\ Subject(p, q) /\ Sight(p, q) /\ Gathered(p, q) /\ Figures(p, q)
        BY <2>9, TurnGoes
      <3> QED
        BY <1>1, <1>4, <1>5, <3>1 DEF Goes, Gathered, Figures
    <2>10. CASE \E narrow \in Narrowings : OpenExport(w, narrow)
      BY <1>4, <2>10, OpenExportGoes DEF Goes
    <2>11. CASE CountForExport(w)
      <3>1. PICK q \in View : Goes(w, q) /\ p.op = "export" /\ Subject(p, q)
        BY <2>11, CountExportGoes
      <3>2. q.lead = None
        BY <1>1, <3>1 DEF Looking, Subject
      <3> QED
        BY <1>4, <3>1, <3>2 DEF Goes
    <2>12. CASE FetchForExport(w)
      <3>1. PICK q \in View : Goes(w, q) /\ p.op = "export" /\ Subject(p, q)
        BY <2>12, FetchGoes
      <3>2. q.lead = None
        BY <1>1, <3>1 DEF Looking, Subject
      <3> QED
        BY <1>4, <3>1, <3>2 DEF Goes
    <2> HIDE DEF InLine
    <2> QED
      BY <1>7, <2>1, <2>2, <2>3, <2>4, <2>5, <2>6, <2>7, <2>8, <2>9, <2>10, <2>11, <2>12, Zenon
         DEF ViewStep
  <1>8. CASE DismissalStep(w)
    <2>1. ASSUME NEW about \in Dismissable, OpenDismissal(w, about)
          PROVE  InLine(view'[w])
      BY <1>4, <2>1, OpenDismissalGoes DEF Goes
    <2>2. CASE ExceptionExists(w)
      <3>1. PICK q \in View : /\ Looking(q) /\ See(w, q) /\ p.pc = "exists" /\ Subject(p, q)
        BY <2>2, ExistsGoes
      <3>2. q.lead = None
        BY <1>1, <3>1 DEF Looking, Subject
      <3> QED
        BY <1>4, <3>1, <3>2
    <2>3. CASE Dismiss(w) \/ Undismiss(w)
      <3>1. PICK q \in View : /\ Looking(q) /\ SeeAs(w, q) /\ p.op \in {"dismiss", "undismiss"}
                              /\ Subject(p, q)
        BY <2>3, DismissalGoes
      <3>2. q.lead = None /\ view'[w] = q
        BY <1>1, <3>1, Disturbing DEF Looking, Subject
      <3> QED
        BY <3>2
    <2> HIDE DEF InLine
    <2> QED
      BY <1>8, <2>1, <2>2, <2>3 DEF DismissalStep
  <1> HIDE DEF InLine
  <1> QED
    BY <1>2, <1>3, <1>7, <1>8, EachView

LEMMA LinesHold == OverviewSpec => []LineInv
  <1>1. OverviewInit => LineInv
    <2> SUFFICES ASSUME OverviewInit PROVE LineInv
      OBVIOUS
    <2>1. \A w \in Watching : view[w] = NoView
      BY DEF OverviewInit, Watching
    <2> QED
      BY <2>1 DEF LineInv, NoView
  <1>2. ViewInv /\ LineInv /\ [OverviewNext]_allVars => LineInv'
    BY LinesKeep
  <1> QED
    BY <1>1, <1>2, NoticesHold, PTL DEF OverviewSpec

-----------------------------------------------------------------------------
(* The export                                                              *)

LEMMA ExportsKeep ==
    ASSUME ViewInv, ExportInv, [OverviewNext]_allVars
    PROVE  ExportInv'
  <1> DEFINE Small(q) == q.pc = "fetch" =>
                            IsFiniteSet(q.counted) /\ Cardinality(q.counted) <= MaxExportRows
  <1> SUFFICES ASSUME NEW w \in Watching PROVE Small(view'[w])
    BY DEF ExportInv
  <1>1. Small(view[w])
    BY DEF ExportInv
  <1>2. CASE Stays(w) \/ Unsettles(w)
    BY <1>1, <1>2 DEF Stays, Unsettles, Alike
  <1>3. CASE ViewStep(w)
    <2>1. PICK q \in View : Goes(w, q) /\ Small(q)
      BY <1>3, ViewerGoes
    <2> HIDE DEF Small
    <2> QED
      BY <2>1, Seeing DEF Goes, ShownTo
  <1>4. CASE DismissalStep(w)
    <2>1. ASSUME NEW about \in Dismissable, OpenDismissal(w, about)
          PROVE  view'[w].pc # "fetch"
      <3>1. PICK q \in View : Goes(w, q) /\ q.pc \in {"exists", "delete"}
        BY <2>1, OpenDismissalGoes
      <3> QED
        BY <3>1, Seeing DEF Goes, ShownTo
    <2>2. ASSUME ExceptionExists(w)
          PROVE  view'[w].pc # "fetch"
      <3>1. PICK q \in View : Looking(q) /\ See(w, q) /\ q.pc \in {"upsert", "refused"}
        BY <2>2, ExistsGoes
      <3> QED
        BY <3>1, Seeing DEF ShownTo
    <2>3. ASSUME Dismiss(w) \/ Undismiss(w)
          PROVE  view'[w].pc # "fetch"
      <3>1. PICK q \in View : Looking(q) /\ SeeAs(w, q) /\ q.pc \in {"done", "refused"}
        BY <2>3, DismissalGoes
      <3> QED
        BY <3>1, Disturbing
    <2> QED
      BY <1>4, <2>1, <2>2, <2>3 DEF DismissalStep
  <1> QED
    BY <1>2, <1>3, <1>4, EachView

LEMMA ExportsHold == OverviewSpec => [](ViewInv /\ ExportInv)
  <1>1. OverviewInit => ViewInv /\ ExportInv
    <2> SUFFICES ASSUME OverviewInit PROVE ViewInv /\ ExportInv
      OBVIOUS
    <2>1. \A w \in Watching : view[w].pc = "new"
      BY FreshView DEF OverviewInit, Watching
    <2> QED
      BY <2>1, InitSeen DEF ExportInv
  <1>2. ViewInv /\ ExportInv /\ [OverviewNext]_allVars => (ViewInv /\ ExportInv)'
    BY ViewsKeep, ExportsKeep
  <1> QED
    BY <1>1, <1>2, PTL DEF OverviewSpec

\* The first page holds as many rows as there are, or as it has room for.
LEMMA FirstPage ==
    ASSUME NEW op, NEW rows, IsFiniteSet(rows), NEW size \in Nat,
           NEW p \in PagesOf(op, rows, 0, size)
    PROVE  p \subseteq rows /\ Cardinality(p) = AtMost(size, Cardinality(rows))
  <1> DEFINE n == Cardinality(rows)
             from == IF 0 <= n THEN 0 ELSE n
             many == IF from + size <= n THEN size ELSE n - from
  <1>1. n \in Nat
    BY FS_CardinalityType
  <1>2. p \in kSubset(many, rows)
    BY Zenon DEF PagesOf
  <1>3. many = AtMost(size, n)
    BY <1>1 DEF AtMost
  <1> QED
    BY <1>2, <1>3 DEF kSubset

\* If a first page leaves rows out, then no more of them than there are rows beyond
\* any others that would have fitted on it.
LEMMA MissedAreNew ==
    ASSUME NEW rows, IsFiniteSet(rows), NEW size \in Nat, NEW counted, IsFiniteSet(counted),
           Cardinality(counted) <= size, NEW p \in PagesOf("report", rows, 0, size)
    PROVE  Cardinality(rows \ p) <= Cardinality(rows \ counted)
  <1> DEFINE n == Cardinality(rows)
             old == Cardinality(rows \cap counted)
  <1>1. p \subseteq rows /\ Cardinality(p) = AtMost(size, n)
    BY FirstPage
  <1>2. Cardinality(rows \ p) = n - Cardinality(p)
    <2>1. rows \cap p = p
      BY <1>1
    <2> QED
      BY <2>1, FS_Difference
  <1>3. Cardinality(rows \ counted) = n - old
    BY FS_Difference
  <1>4. n \in Nat /\ Cardinality(counted) \in Nat
    BY FS_CardinalityType
  <1>5. old \in Nat /\ old <= Cardinality(counted)
    <2>1. rows \cap counted \subseteq counted
      OBVIOUS
    <2> QED
      BY <2>1, FS_Subset, FS_CardinalityType
  <1>6. old <= n
    <2>1. rows \cap counted \subseteq rows
      OBVIOUS
    <2> QED
      BY <2>1, FS_Subset
  <1> HIDE DEF n, old
  <1> QED
    BY <1>1, <1>2, <1>3, <1>4, <1>5, <1>6 DEF AtMost

\* An export that is not refused misses no more rows than have come to match since
\* they were counted, by insertion, recalculation or a move, for every limit, every
\* number of records and whatever it is narrowed to.
THEOREM ExportsMissOnlyWhatCame == OverviewSpec => ExportMissesOnlyForWhatCame
  <1> DEFINE Fetched(v) == view[v].pc = "fetch" /\ view'[v].pc = "done"
             Small(v) == LET matching == Rows(view[v])
                             missed == matching \ view'[v].shown
                         IN Cardinality(missed) <= Cardinality(matching \ view[v].counted)
             Whole == \A v \in Viewers : Fetched(v) => Small(v)
  <1>1. ViewInv /\ ExportInv /\ [OverviewNext]_allVars => [Whole]_allVars
    <2> SUFFICES ASSUME ViewInv, ExportInv, [OverviewNext]_allVars, NEW v \in Viewers, Fetched(v)
                 PROVE  Small(v)
      BY Zenon
    <2>1. v \in Watching
      BY DEF Watching
    <2>2. CASE Stays(v) \/ Unsettles(v)
      BY <2>2 DEF Stays, Unsettles, Alike
    <2>3. CASE ViewStep(v)
      <3> DEFINE p == view[v]
      <3>1. FetchForExport(v)
        BY <2>1, <2>3, ViewerGoes
      <3>2. PICK q \in View, rows \in PagesOf("report", Rows(p), 0, MaxExportRows) :
               Goes(v, q) /\ q.shown = rows
        BY <2>1, <3>1, FetchGoes
      <3>3. view'[v].shown = rows
        BY <2>1, <3>2, Seeing DEF Goes, ShownTo
      <3>4. /\ IsFiniteSet(p.counted) /\ Cardinality(p.counted) <= MaxExportRows
            /\ MaxExportRows \in Nat /\ IsFiniteSet(Rows(p))
        BY <2>1, RowsFinite, OverviewAssumption DEF ExportInv
      <3>5. Cardinality(Rows(p) \ rows) <= Cardinality(Rows(p) \ p.counted)
        BY <3>2, <3>4, MissedAreNew
      <3> QED
        BY <3>3, <3>5
    <2>4. CASE DismissalStep(v)
      <3>1. ASSUME NEW about \in Dismissable, OpenDismissal(v, about)
            PROVE  view[v].pc # "fetch"
        BY <2>1, <3>1, OpenDismissalGoes
      <3>2. ExceptionExists(v) => view[v].pc # "fetch"
        BY <2>1, ExistsGoes
      <3>3. Dismiss(v) \/ Undismiss(v) => view[v].pc # "fetch"
        BY <2>1, DismissalGoes
      <3> QED
        BY <2>4, <3>1, <3>2, <3>3 DEF DismissalStep
    <2> HIDE DEF Small
    <2> QED
      BY <2>1, <2>2, <2>3, <2>4, EachView
  <1> QED
    BY <1>1, ExportsHold, PTL DEF OverviewSpec, ExportMissesOnlyForWhatCame

-----------------------------------------------------------------------------
(* Pages                                                                   *)

\* Of two rows one comes first: people who share a name differ in their id.
LEMMA OneComesFirst ==
    ASSUME NEW op, op \notin {"dashboard", "directory"}, NEW a \in Row, NEW b \in Row, a # b
    PROVE  Before(op, a, b) \/ Before(op, b, a)
  <1>1. /\ a[1] \in People /\ b[1] \in People /\ a[2] \in Nat /\ b[2] \in Nat
        /\ a[1] # b[1] \/ a[2] # b[2]
    <2>1. WorkDates \cup {NoDate} \subseteq Nat
      BY OverviewAssumption DEF NoDate
    <2>2. /\ a[1] \in People /\ b[1] \in People
          /\ a[2] \in WorkDates \cup {NoDate} /\ b[2] \in WorkDates \cup {NoDate}
          /\ a = <<a[1], a[2]>> /\ b = <<b[1], b[2]>>
      BY DEF Row
    <2>3. a[1] # b[1] \/ a[2] # b[2]
      BY <2>2, Zenon
    <2> QED
      BY <2>1, <2>2, <2>3
  <1>2. /\ NameOf[a[1]] \in Nat /\ NameOf[b[1]] \in Nat /\ IdOf[a[1]] \in Nat /\ IdOf[b[1]] \in Nat
        /\ a[1] # b[1] => IdOf[a[1]] # IdOf[b[1]]
    BY <1>1, OverviewAssumption DEF IsInjective
  <1> QED
    BY <1>1, <1>2 DEF Before

\* Of any two rows one comes first.
Sorted(op, rows) == \A a, b \in rows : a = b \/ Before(op, a, b) \/ Before(op, b, a)

\* In the report, the calendar and the queue that is so, whoever shares a name.
LEMMA RowsSorted ==
    ASSUME ViewInv, NEW q, InOrder(q)
    PROVE  Sorted(q.op, Rows(q))
  <1>1. CASE q.op \in {"report", "calendar", "exceptions"}
    <2>1. Rows(q) \subseteq Row
      BY RowsFinite
    <2> QED
      BY <1>1, <2>1, OneComesFirst DEF Sorted
  <1>2. CASE Ordered(q)
    BY <1>2 DEF Ordered, Sorted
  <1> QED
    BY <1>1, <1>2 DEF InOrder

\* As many of the first rows are the same rows.
LEMMA SameSegment ==
    ASSUME NEW op, NEW rows, Sorted(op, rows), IsFiniteSet(rows),
           NEW A \in SUBSET rows, NEW B \in SUBSET rows, Cardinality(A) = Cardinality(B),
           Leading(op, A, rows), Leading(op, B, rows)
    PROVE  A = B
  <1>1. IsFiniteSet(A) /\ IsFiniteSet(B)
    BY FS_Subset
  <1> SUFFICES ASSUME A # B PROVE FALSE
    OBVIOUS
  <1>2. PICK a : a \in A /\ a \notin B
    BY <1>1, FS_Subset
  <1>3. PICK b : b \in B /\ b \notin A
    BY <1>1, FS_Subset
  <1>4. ~Before(op, b, a) /\ ~Before(op, a, b)
    BY <1>2, <1>3 DEF Leading
  <1>5. a \in rows /\ b \in rows /\ a # b
    BY <1>2, <1>3
  <1> QED
    BY <1>4, <1>5 DEF Sorted

\* k pages have shown the first rows.
ShownBy(op, rows, shown, k) ==
    /\ Sorted(op, rows) /\ IsFiniteSet(rows)
    /\ shown \subseteq rows /\ Leading(op, shown, rows)
    /\ k \in Nat /\ Cardinality(shown) = AtMost(k * PageSize, Cardinality(rows))

\* What a query for the next page adds to the pages before it.
LEMMA NextPage ==
    ASSUME NEW op, NEW rows, NEW shown, NEW k, ShownBy(op, rows, shown, k),
           NEW p \in PagesOf(op, rows, k * PageSize, PageSize)
    PROVE  ShownBy(op, rows, shown \cup p, k + 1) /\ shown \cap p = {}
  <1> DEFINE n == Cardinality(rows)
             skipped == k * PageSize
             from == IF skipped <= n THEN skipped ELSE n
             many == IF from + PageSize <= n THEN PageSize ELSE n - from
  <1>0. /\ Sorted(op, rows) /\ IsFiniteSet(rows)
        /\ shown \in SUBSET rows /\ Leading(op, shown, rows)
        /\ k \in Nat /\ Cardinality(shown) = AtMost(skipped, n)
    BY DEF ShownBy
  <1>1. n \in Nat /\ skipped \in Nat /\ PageSize \in Nat /\ (k + 1) * PageSize = skipped + PageSize
    BY <1>0, FS_CardinalityType, OverviewAssumption
  <1>2. /\ p \in kSubset(many, rows)
        /\ \E before \in kSubset(from, rows \ p) :
              Leading(op, before, rows) /\ Leading(op, before \cup p, rows)
    BY Zenon DEF PagesOf
  <1>3. PICK before \in kSubset(from, rows \ p) :
           Leading(op, before, rows) /\ Leading(op, before \cup p, rows)
    BY <1>2
  <1>4. /\ p \subseteq rows /\ Cardinality(p) = many
        /\ before \subseteq rows \ p /\ Cardinality(before) = from
    BY <1>2, <1>3 DEF kSubset
  <1>5. Cardinality(shown) = from
    BY <1>0 DEF AtMost
  <1>6. shown = before
    BY <1>0, <1>3, <1>4, <1>5, SameSegment
  <1>7. IsFiniteSet(p) /\ IsFiniteSet(before) /\ Cardinality(before \cap p) = 0
    <2>1. IsFiniteSet(p) /\ IsFiniteSet(before) /\ before \cap p = {}
      BY <1>0, <1>4, FS_Subset
    <2> QED
      BY <2>1, FS_EmptySet, Zenon
  <1>8. Cardinality(before \cup p) = Cardinality(before) + Cardinality(p) - Cardinality(before \cap p)
    BY <1>7, FS_Union
  <1> HIDE DEF n, skipped
  <1>9. from + many = AtMost(skipped + PageSize, n) /\ from \in Nat /\ many \in Int
    BY <1>1 DEF AtMost
  <1> HIDE DEF from, many
  <1>10. Cardinality(shown \cup p) = from + many
    BY <1>4, <1>6, <1>7, <1>8, <1>9
  <1>11. Cardinality(shown \cup p) = AtMost((k + 1) * PageSize, n)
    BY <1>1, <1>9, <1>10
  <1>12. shown \cap p = {} /\ shown \cup p \subseteq rows /\ Leading(op, shown \cup p, rows) /\ k + 1 \in Nat
    BY <1>0, <1>3, <1>4, <1>6
  <1> QED
    BY <1>0, <1>11, <1>12 DEF ShownBy, n

-----------------------------------------------------------------------------
(* What a view has come to                                                 *)

\* The queries look at what a view is about and at whom it may see.
LEMMA SameQueries ==
    ASSUME NEW p, NEW q, q.op = p.op, q.types = p.types, q.narrow = p.narrow, q.scope = p.scope
    PROVE  /\ Rows(q) = Rows(p) /\ Counts(q) = Counts(p) /\ Named(q) = Named(p)
           /\ InOrder(q) <=> InOrder(p)
  <1>1. \A e : InUnit(q, e) <=> InUnit(p, e)
    BY DEF InUnit
  <1>2. \A r : HasStatus(q, r) <=> HasStatus(p, r)
    BY DEF HasStatus
  <1>3. Rows(q) = Rows(p)
    BY <1>1, <1>2 DEF Rows
  <1>4. Summarised(q) = Summarised(p)
    BY <1>1, <1>3 DEF Summarised
  <1>5. Counts(q) = Counts(p)
    BY <1>4 DEF Counts
  <1>6. Ordered(q) <=> Ordered(p)
    BY <1>3 DEF Ordered
  <1> QED
    BY <1>3, <1>5, <1>6 DEF Named, InOrder

\* While nothing changes, they return the same.
LEMMA CalmQueries ==
    ASSUME Calm, NEW q
    PROVE  /\ Rows(q)' = Rows(q) /\ Counts(q)' = Counts(q) /\ Named(q)' = Named(q)
           /\ \A rows : CellsOf(rows)' = CellsOf(rows)
           /\ Active' = Active /\ (InOrder(q)' <=> InOrder(q))
           /\ \A m : Scope(m)' = Scope(m)
  <1>1. Present' = Present
    BY DEF Calm, Present
  <1>2. Unarchived' = Unarchived
    BY <1>1 DEF Calm, Unarchived
  <1>3. Active' = Active /\ Recorded' = Recorded
    BY <1>1, <1>2 DEF Calm, Active, Recorded
  <1>4. \A r : ExceptionType(r)' = ExceptionType(r) /\ Dismissed(r)' = Dismissed(r)
    BY DEF Calm, ExceptionType, Dismissed
  <1>5. Exceptions(q.types, FALSE)' = Exceptions(q.types, FALSE)
    BY <1>3, <1>4 DEF Exceptions
  <1>6. \A rows, l : Having(rows, l)' = Having(rows, l)
    BY DEF Calm, Having
  <1>7. \A e : InUnit(q, e)' <=> InUnit(q, e)
    BY DEF Calm, InUnit
  <1>8. \A r : HasStatus(q, r)' <=> HasStatus(q, r)
    BY <1>3 DEF Calm, HasStatus
  <1>9. Rows(q)' = Rows(q)
    BY <1>1, <1>2, <1>3, <1>5, <1>7, <1>8 DEF Rows
  <1>10. Summarised(q)' = Summarised(q)
    BY <1>3, <1>9, <1>7 DEF Summarised
  <1>11. Counts(q)' = Counts(q)
    BY <1>4, <1>6, <1>10 DEF Counts
  <1>12. InOrder(q)' <=> InOrder(q)
    BY <1>9 DEF InOrder, Ordered, Before
  <1>13. \A m : Scope(m)' = Scope(m)
    BY DEF Calm, Scope, Team, Reach, Reports, Present
  <1>14. Named(q)' = Named(q)
    BY <1>1, <1>3 DEF Calm, Named
  <1>15. \A rows : CellsOf(rows)' = CellsOf(rows)
    BY <1>3 DEF CellsOf
  <1> QED
    BY <1>3, <1>9, <1>11, <1>12, <1>13, <1>14, <1>15

LEMMA PageCalm ==
    ASSUME Calm, NEW q, PageInv(q)
    PROVE  PageInv(q)'
  <1>1. FiguresRight(q) => FiguresRight(q)'
    BY CalmQueries DEF FiguresRight
  <1>2. RowsRight(q) => RowsRight(q)'
    BY CalmQueries DEF RowsRight
  <1>3. Lined(q) => Lined(q)'
    BY CalmQueries DEF Lined
  <1>4. InOrder(q)' <=> InOrder(q)
    BY CalmQueries
  <1> QED
    BY <1>1, <1>2, <1>3, <1>4 DEF PageInv

\* A view of something else, or one that has been disturbed, is held to nothing.
LEMMA Unheld ==
    ASSUME NEW q, q.op \notin Listings \/ q.disturbed
    PROVE  PageInv(q) /\ PageInv(q)'
  BY DEF PageInv

\* A request for the first page has found nothing yet.
LEMMA OpenedPage ==
    ASSUME ViewInv, NEW q \in View, Opened(q)
    PROVE  PageInv(q)
  <1>1. /\ q.shown = {} /\ q.last = {} /\ q.cells = 0 /\ ~q.repeated
    BY DEF Opened, Gathered, NoView
  <1>2. {"page", "total"} \subseteq q.pending /\ q.page = 1
    BY DEF Opened, QueriesOf
  <1>3. FiguresRight(q) /\ Lined(q)
    BY <1>1, <1>2 DEF FiguresRight, Opened, Lined
  <1>4. RowsRight(q)
    <2>1. Pages(q) * PageSize = 0 /\ Cardinality({}) = 0 /\ Cardinality(Rows(q)) \in Nat
      BY <1>2, OverviewAssumption, RowsFinite, FS_EmptySet DEF Pages
    <2>2. Cardinality(q.shown) = AtMost(Pages(q) * PageSize, Cardinality(Rows(q)))
      BY <1>1, <2>1 DEF AtMost
    <2>3. Leading(q.op, q.shown, Rows(q)) /\ q.shown \subseteq Rows(q)
      BY <1>1 DEF Leading
    <2>4. Counted(q) = {} /\ CellsOf({}) = {}
      BY <1>1 DEF Counted, CellsOf
    <2> QED
      BY <1>1, <2>1, <2>2, <2>3, <2>4 DEF RowsRight
  <1> QED
    BY <1>2, <1>3, <1>4 DEF PageInv, Opened

\* The queries of a request keep what the others of it have read.
LEMMA PageQueries ==
    ASSUME NEW p \in View, NEW q \in View, NEW query \in Queries,
           q.pending = p.pending \ {query}, Subject(p, q), q.scope = p.scope, FiguresRight(p),
           query = "total" \/ q.total = p.total,
           query = "headcount" \/ q.headcount = p.headcount,
           query = "counts" \/ q.counts = p.counts,
           query = "lists" \/ q.named = p.named,
           query = "total" => q.total = Cardinality(Rows(p)),
           query = "headcount" => q.headcount = Cardinality(Active \cap p.scope),
           query = "counts" => q.counts = Counts(p),
           query = "lists" => q.named = Named(p)
    PROVE  FiguresRight(q)
  <1>1. Rows(q) = Rows(p) /\ Counts(q) = Counts(p) /\ Named(q) = Named(p) /\ q.op = p.op
    BY SameQueries DEF Subject
  <1>2. "total" \notin q.pending => q.total = Cardinality(Rows(q))
    BY <1>1 DEF FiguresRight
  <1>3. "counts" \in QueriesOf(q.op) \ q.pending => q.counts = Counts(q)
    BY <1>1 DEF FiguresRight
  <1>4. "lists" \in QueriesOf(q.op) \ q.pending => q.named = Named(q)
    BY <1>1 DEF FiguresRight
  <1>5. "headcount" \in QueriesOf(q.op) \ q.pending => q.headcount = Cardinality(Active \cap q.scope)
    BY <1>1 DEF FiguresRight
  <1> QED
    BY <1>2, <1>3, <1>4, <1>5 DEF FiguresRight

\* Whose line a view looks at stays once it has been read.
LEMMA LinedStays ==
    ASSUME NEW p, NEW q, Lined(p), p.pc # "scope", q.lead = p.lead, q.scope = p.scope
    PROVE  Lined(q)
  BY DEF Lined

\* A query of a page leaves the rows that have been shown.
LEMMA RowsStay ==
    ASSUME NEW p \in View, NEW q \in View, NEW query \in Queries, query # "page",
           p.pc = "queries", q.pc = AfterQuery(p, query), q.page = p.page,
           q.pending = p.pending \ {query}, Subject(p, q), q.scope = p.scope, Gathered(p, q),
           RowsRight(p)
    PROVE  RowsRight(q)
  <1>1. Rows(q) = Rows(p) /\ q.op = p.op
    BY SameQueries DEF Subject
  <1>2. Pages(q) = Pages(p) /\ ("page" \in q.pending <=> "page" \in p.pending)
    BY DEF Pages
  <1>3. q.op = "calendar" => Counted(q) = Counted(p)
    BY <1>1, <1>2 DEF Counted, Gathered, AfterQuery
  <1> QED
    BY <1>1, <1>2, <1>3 DEF RowsRight, Gathered

\* One of the queries of a request other than the page's.
LEMMA FigurePage ==
    ASSUME NEW p \in View, NEW q \in View, NEW query \in Queries, query # "page",
           PageInv(p), Past(p, q),
           p.pc = "queries", q.pc = AfterQuery(p, query), q.page = p.page,
           q.pending = p.pending \ {query}, Subject(p, q), q.scope = p.scope, Gathered(p, q),
           query = "total" \/ q.total = p.total,
           query = "headcount" \/ q.headcount = p.headcount,
           query = "counts" \/ q.counts = p.counts,
           query = "lists" \/ q.named = p.named,
           query = "total" => q.total = Cardinality(Rows(p)),
           query = "headcount" => q.headcount = Cardinality(Active \cap p.scope),
           query = "counts" => q.counts = Counts(p),
           query = "lists" => q.named = Named(p)
    PROVE  PageInv(q)
  <1> SUFFICES ASSUME q.op \in Listings, ~q.disturbed PROVE PageInv(q)
    BY DEF PageInv
  <1>1. q.op = p.op /\ ~p.disturbed /\ (InOrder(q) <=> InOrder(p))
    BY SameQueries DEF Subject, Past
  <1>2. FiguresRight(p) /\ Lined(p) /\ (InOrder(p) => RowsRight(p))
    BY <1>1 DEF PageInv
  <1>3. FiguresRight(q) /\ Lined(q)
    BY <1>2, PageQueries, LinedStays DEF Subject
  <1>4. InOrder(q) => RowsRight(q)
    BY <1>1, <1>2, RowsStay
  <1>5. /\ q.pc \in {"queries", "cells", "answer"}
        /\ q.pc \in {"cells", "answer"} => q.pending = {}
    BY DEF AfterQuery
  <1> QED
    BY <1>3, <1>4, <1>5 DEF PageInv

\* The page's own query adds the next rows.
LEMMA NextRows ==
    ASSUME ViewInv, NEW p \in View, Looking(p), NEW q \in View,
           NEW rows \in PagesOf(p.op, Rows(p), (p.page - 1) * PageSize, PageSize),
           PageInv(p), Past(p, q), p.pc = "queries", "page" \in p.pending,
           q.pc = AfterQuery(p, "page"), q.page = p.page, q.pending = p.pending \ {"page"},
           q.last = rows, q.shown = p.shown \cup rows, q.cells = p.cells,
           q.repeated <=> (p.repeated \/ p.shown \cap rows # {}),
           Sight(p, q), Subject(p, q), Figures(p, q)
    PROVE  PageInv(q)
  <1> SUFFICES ASSUME q.op \in Listings, ~q.disturbed PROVE PageInv(q)
    BY DEF PageInv
  <1>1. /\ q.op = p.op /\ ~p.disturbed /\ (InOrder(q) <=> InOrder(p))
        /\ "page" \in Queries /\ "page" \notin {"total", "headcount", "counts", "lists"}
    BY SameQueries DEF Subject, Sight, Past, Queries
  <1>2. FiguresRight(p) /\ Lined(p) /\ (InOrder(p) => RowsRight(p))
    BY <1>1 DEF PageInv
  <1>3. FiguresRight(q) /\ Lined(q)
    BY <1>1, <1>2, PageQueries, LinedStays DEF Figures, Sight, Subject
  <1>4. /\ q.pc \in {"queries", "cells", "answer"}
        /\ q.pc \in {"cells", "answer"} => q.pending = {}
    BY DEF AfterQuery
  <1>5. ASSUME InOrder(q)
        PROVE  RowsRight(q)
    <2> DEFINE k == p.page - 1
               all == Rows(p)
    <2>1. Rows(q) = all /\ IsFiniteSet(all)
      BY RowsFinite, SameQueries DEF Subject, Sight
    <2>2. k \in Nat /\ k + 1 = p.page /\ Pages(p) = k /\ Pages(q) = k + 1
      BY DEF Looking, View, Pages
    <2>3. /\ p.shown \in SUBSET all /\ Leading(p.op, p.shown, all) /\ ~p.repeated
          /\ Cardinality(p.shown) = AtMost(k * PageSize, Cardinality(all))
          /\ p.op = "calendar" => p.cells = Cardinality(CellsOf(Counted(p)))
      BY <1>1, <1>2, <1>5, <2>2 DEF RowsRight
    <2>4. rows \in PagesOf(p.op, all, k * PageSize, PageSize) /\ Sorted(p.op, all)
      BY <1>1, <1>5, RowsSorted
    <2> HIDE DEF k, all
    <2>5. ShownBy(p.op, all, p.shown \cup rows, k + 1) /\ p.shown \cap rows = {}
      <3>1. ShownBy(p.op, all, p.shown, k)
        BY <2>1, <2>2, <2>3, <2>4 DEF ShownBy
      <3> QED
        BY <2>4, <3>1, NextPage
    <2>6. q.op = "calendar" => q.last \subseteq q.shown /\ q.cells = Cardinality(CellsOf(Counted(q)))
      <3> SUFFICES ASSUME q.op = "calendar" PROVE q.cells = Cardinality(CellsOf(Counted(q)))
        OBVIOUS
      <3>1. Counted(p) = p.shown
        BY DEF Counted
      <3>2. Counted(q) = (p.shown \cup rows) \ rows
        BY <1>1, <1>4 DEF Counted, AfterQuery
      <3>3. (p.shown \cup rows) \ rows = p.shown
        BY <2>5
      <3> QED
        BY <1>1, <2>3, <3>1, <3>2, <3>3
    <2>7. /\ q.shown \subseteq all /\ ~q.repeated /\ Leading(p.op, q.shown, all)
          /\ Cardinality(q.shown) = AtMost((k + 1) * PageSize, Cardinality(all))
      BY <2>3, <2>5 DEF ShownBy
    <2> QED
      BY <1>1, <2>1, <2>2, <2>6, <2>7 DEF RowsRight
  <1> QED
    BY <1>3, <1>4, <1>5 DEF PageInv

\* The cells of the page just read.
LEMMA CellsPage ==
    ASSUME ViewInv, NEW p \in View, NEW q \in View, PageInv(p), Past(p, q),
           p.pc = "cells", p.op = "calendar", q.pc = "answer",
           q.cells = p.cells + Cardinality(CellsOf(p.last)),
           q.last = p.last, q.shown = p.shown, q.repeated = p.repeated,
           Turn(p, q), Sight(p, q), Subject(p, q), Figures(p, q)
    PROVE  PageInv(q)
  <1> SUFFICES ASSUME ~q.disturbed PROVE PageInv(q)
    BY DEF PageInv
  <1>1. q.op = p.op /\ ~p.disturbed /\ p.op \in Listings
    BY DEF Subject, Past, Listings
  <1>2. p.pending = {} /\ FiguresRight(p) /\ RowsRight(p) /\ Lined(p)
    BY <1>1 DEF PageInv, InOrder
  <1>3. q.pending = {} /\ q.page = p.page
    BY <1>2 DEF Turn
  <1>4. Rows(q) = Rows(p) /\ Counts(q) = Counts(p) /\ Named(q) = Named(p)
    BY SameQueries DEF Subject, Sight
  <1>5. FiguresRight(q) /\ Lined(q)
    BY <1>1, <1>2, <1>3, <1>4, LinedStays DEF FiguresRight, Figures, Sight, Subject
  <1>6. Pages(q) = Pages(p)
    BY DEF Pages, Turn
  <1>7. q.cells = Cardinality(CellsOf(Counted(q)))
    <2> DEFINE earlier == CellsOf(p.shown \ p.last)
               now == CellsOf(p.last)
    <2>1. p.cells = Cardinality(earlier) /\ p.last \subseteq p.shown
      BY <1>2 DEF RowsRight, Counted
    <2>2. CellsOf(p.shown) = earlier \cup now /\ earlier \cap now = {}
      BY <2>1 DEF CellsOf
    <2>3. /\ IsFiniteSet(earlier) /\ IsFiniteSet(now)
          /\ Cardinality(earlier) \in Nat /\ Cardinality(now) \in Nat
      <3>1. earlier \subseteq Recorded /\ now \subseteq Recorded
        BY DEF CellsOf
      <3> QED
        BY <3>1, Finite, FS_Subset, FS_CardinalityType
    <2> HIDE DEF earlier, now
    <2>4. Cardinality(earlier \cap now) = 0
      BY <2>2, FS_EmptySet, Zenon
    <2>5. Cardinality(earlier \cup now) = Cardinality(earlier) + Cardinality(now)
      <3>1. Cardinality(earlier \cup now)
              = Cardinality(earlier) + Cardinality(now) - Cardinality(earlier \cap now)
        BY ONLY <2>3, FS_Union
      <3> QED
        BY ONLY <2>3, <2>4, <3>1
    <2>6. Counted(q) = p.shown
      BY DEF Counted
    <2>7. Cardinality(CellsOf(p.shown)) = Cardinality(earlier) + Cardinality(now)
      BY <2>2, <2>5
    <2> QED
      BY <2>1, <2>6, <2>7 DEF now
  <1>8. RowsRight(q)
    BY <1>1, <1>2, <1>4, <1>6, <1>7 DEF RowsRight
  <1> QED
    BY <1>3, <1>5, <1>8 DEF PageInv

\* The next page, or the end.
LEMMA TurnedPage ==
    ASSUME ViewInv, NEW p \in View, Looking(p), NEW q \in View, PageInv(p), Past(p, q), p.pc = "answer",
           \/ /\ q.page = p.page + 1 /\ q.pc \in {"scope", "queries"}
              /\ q.pending = QueriesOf(p.op)
           \/ ~(p.page * PageSize < p.total) /\ q.pc = "done" /\ Turn(p, q),
           Sight(p, q), Subject(p, q), Gathered(p, q), Figures(p, q)
    PROVE  PageInv(q)
  <1> SUFFICES ASSUME q.op \in Listings, ~q.disturbed PROVE PageInv(q)
    BY DEF PageInv
  <1>1. q.op = p.op /\ ~p.disturbed
    BY DEF Subject, Past
  <1>2. /\ p.pending = {} /\ FiguresRight(p) /\ Lined(p)
        /\ InOrder(p) => RowsRight(p)
    BY <1>1 DEF PageInv
  <1>3. /\ Rows(q) = Rows(p) /\ Counts(q) = Counts(p) /\ Named(q) = Named(p)
        /\ InOrder(q) <=> InOrder(p)
    BY SameQueries DEF Subject, Sight
  <1>4. p.page \in Nat /\ p.total \in Nat /\ PageSize \in Nat
    BY OverviewAssumption DEF View
  <1>5. "page" \in QueriesOf(p.op) /\ "total" \in QueriesOf(p.op)
    BY DEF QueriesOf
  <1>6. FiguresRight(q) /\ Lined(q)
    <2>1. FiguresRight(q)
      BY <1>1, <1>2, <1>3, <1>5 DEF FiguresRight, Figures, Turn, Sight
    <2> QED
      BY <1>2, <2>1, LinedStays DEF Sight, Subject
  <1>7. Pages(q) = Pages(p)
    BY <1>2, <1>4, <1>5 DEF Pages, Turn
  <1>8. Counted(q) = q.shown /\ Counted(p) = p.shown
    BY <1>5 DEF Counted
  <1>9. InOrder(q) => RowsRight(q)
    BY <1>1, <1>2, <1>3, <1>7, <1>8 DEF RowsRight, Gathered
  <1>10. /\ q.pc \in {"scope", "queries", "done"}
         /\ q.pc = "scope" => q.pending = QueriesOf(q.op)
         /\ q.pc = "done" => q.pending = {}
    BY <1>1, <1>2 DEF Turn
  <1>11. q.pc = "done" => q.page * PageSize >= q.total
    <2> SUFFICES ASSUME q.pc = "done" PROVE q.page * PageSize >= q.total
      OBVIOUS
    <2>1. ~(p.page * PageSize < p.total) /\ q.page = p.page /\ q.total = p.total
      BY DEF Turn, Figures
    <2>2. p.page * PageSize \in Nat
      BY <1>4
    <2> QED
      BY <1>4, <2>1, <2>2
  <1> QED
    BY <1>6, <1>9, <1>10, <1>11 DEF PageInv

\* A manager's line has been read.
LEMMA ScopedPage ==
    ASSUME ViewInv, NEW p \in View, Looking(p), NEW q \in View, PageInv(p), Past(p, q),
           p.pc = "scope", p.lead \in Leads, q.pc = "queries", q.scope = Scope(p.lead),
           Turn(p, q), Subject(p, q), Gathered(p, q)
    PROVE  PageInv(q)
  <1> SUFFICES ASSUME q.op \in Listings, ~q.disturbed PROVE PageInv(q)
    BY DEF PageInv
  <1>1. q.op = p.op /\ q.lead = p.lead /\ ~p.disturbed
    BY DEF Subject, Past
  <1>2. q.pending = QueriesOf(q.op) /\ Lined(p) /\ (InOrder(p) => RowsRight(p))
    BY <1>1 DEF PageInv, Turn
  <1>3. {"page", "total"} \subseteq QueriesOf(q.op)
    BY DEF QueriesOf
  <1>4. FiguresRight(q) /\ Lined(q)
    BY <1>1, <1>2, <1>3 DEF FiguresRight, Lined
  <1>5. q.op # "calendar" /\ p.lead # None
    BY <1>1, PeopleAssumption DEF Looking
  <1>6. CASE q.scope = p.scope
    <2>1. Rows(q) = Rows(p) /\ (InOrder(q) <=> InOrder(p)) /\ Pages(q) = Pages(p)
      BY <1>6, SameQueries DEF Subject, Turn, Pages
    <2>2. InOrder(q) => RowsRight(q)
      BY <1>1, <1>2, <1>5, <2>1 DEF RowsRight, Gathered
    <2> QED
      BY <1>2, <1>4, <2>2 DEF PageInv
  <1>7. CASE q.page = 1 /\ q.shown = {} /\ ~q.repeated
    <2>1. Pages(q) * PageSize = 0 /\ Cardinality({}) = 0 /\ Cardinality(Rows(q)) \in Nat
      BY <1>2, <1>3, <1>7, OverviewAssumption, RowsFinite, FS_EmptySet DEF Pages
    <2>2. Cardinality(q.shown) = AtMost(Pages(q) * PageSize, Cardinality(Rows(q)))
      BY <1>7, <2>1 DEF AtMost
    <2>3. RowsRight(q)
      BY <1>5, <1>7, <2>2 DEF RowsRight, Leading
    <2> QED
      BY <1>2, <1>4, <2>3 DEF PageInv
  <1> QED
    BY <1>2, <1>5, <1>6, <1>7 DEF Lined, Turn, Gathered

\* Whatever a viewer does.
LEMMA ViewerPages ==
    ASSUME ViewInv, NEW w \in Watching, PageInv(view[w]), ViewStep(w)
    PROVE  PageInv(view'[w])
  <1> DEFINE p == view[w]
  <1>1. p \in View /\ Looking(p) /\ PageInv(p)
    BY DEF ViewInv
  <1>2. ASSUME NEW q \in View, Goes(w, q)
        PROVE  view'[w] = q
    BY <1>2, Seeing DEF Goes, ShownTo
  <1>3. ASSUME NEW op \in Listings, NEW lead \in Leads \cup {None}, NEW types \in {{}, {"LATE"}, Bad},
               NEW narrow \in Narrowings, Open(w, op, lead, types, narrow)
        PROVE  PageInv(view'[w])
    <2>1. PICK q \in View : Goes(w, q) /\ Opened(q)
      BY <1>3, OpenGoes
    <2>2. PageInv(q)
      BY <2>1, OpenedPage
    <2> QED
      BY <1>2, <2>1, <2>2
  <1>4. CASE GetEmployeeScope(w)
    <2>1. PICK q \in View : /\ Goes(w, q) /\ p.pc = "scope" /\ p.lead \in Leads
                            /\ q.pc = "queries" /\ q.scope = Scope(p.lead) /\ Turn(p, q)
                            /\ Subject(p, q) /\ Gathered(p, q) /\ Past(p, q)
      BY <1>4, ScopeGoes
    <2> HIDE DEF p
    <2>2. PageInv(q)
      BY <1>1, <2>1, ScopedPage
    <2> QED
      BY <1>2, <2>1, <2>2
  <1>5. CASE ReadPage(w)
    <2>1. PICK q \in View, rows \in PagesOf(p.op, Rows(p), (p.page - 1) * PageSize, PageSize) :
                   /\ Goes(w, q) /\ p.pc = "queries" /\ "page" \in p.pending
                   /\ q.pc = AfterQuery(p, "page") /\ q.page = p.page
                   /\ q.pending = p.pending \ {"page"}
                   /\ q.last = rows /\ q.shown = p.shown \cup rows /\ q.cells = p.cells
                   /\ q.repeated <=> (p.repeated \/ p.shown \cap rows # {})
                   /\ Sight(p, q) /\ Subject(p, q) /\ Figures(p, q) /\ Past(p, q)
      BY <1>5, PageGoes
    <2> HIDE DEF p
    <2>2. PageInv(q)
      BY <1>1, <2>1, NextRows
    <2> QED
      BY <1>2, <2>1, <2>2
  <1>6. CASE ReadTotal(w)
    <2>1. PICK q \in View :
                   /\ Goes(w, q) /\ p.pc = "queries"
                   /\ q.pc = AfterQuery(p, "total") /\ q.page = p.page
                   /\ q.pending = p.pending \ {"total"} /\ q.total = Cardinality(Rows(p))
                   /\ q.headcount = p.headcount /\ q.counts = p.counts /\ q.named = p.named
                   /\ Sight(p, q) /\ Subject(p, q) /\ Gathered(p, q) /\ Past(p, q)
      BY <1>6, TotalGoes
    <2> HIDE DEF p
    <2>2. PageInv(q)
      BY <1>1, <2>1, FigurePage DEF Queries, Sight
    <2> QED
      BY <1>2, <2>1, <2>2
  <1>7. CASE ReadHeadcount(w)
    <2>1. PICK q \in View :
                   /\ Goes(w, q) /\ p.pc = "queries"
                   /\ q.pc = AfterQuery(p, "headcount") /\ q.page = p.page
                   /\ q.pending = p.pending \ {"headcount"} /\ q.headcount = Cardinality(Active \cap p.scope)
                   /\ q.total = p.total /\ q.counts = p.counts /\ q.named = p.named
                   /\ Sight(p, q) /\ Subject(p, q) /\ Gathered(p, q) /\ Past(p, q)
      BY <1>7, HeadcountGoes
    <2> HIDE DEF p
    <2>2. PageInv(q)
      BY <1>1, <2>1, FigurePage DEF Queries, Sight
    <2> QED
      BY <1>2, <2>1, <2>2
  <1>8. CASE ReadCounts(w)
    <2>1. PICK q \in View :
                   /\ Goes(w, q) /\ p.pc = "queries"
                   /\ q.pc = AfterQuery(p, "counts") /\ q.page = p.page
                   /\ q.pending = p.pending \ {"counts"} /\ q.counts = Counts(p)
                   /\ q.total = p.total /\ q.headcount = p.headcount /\ q.named = p.named
                   /\ Sight(p, q) /\ Subject(p, q) /\ Gathered(p, q) /\ Past(p, q)
      BY <1>8, CountsGoes
    <2> HIDE DEF p
    <2>2. PageInv(q)
      BY <1>1, <2>1, FigurePage DEF Queries, Sight
    <2> QED
      BY <1>2, <2>1, <2>2
  <1>9. CASE ReadLists(w)
    <2>1. PICK q \in View :
                   /\ Goes(w, q) /\ p.pc = "queries"
                   /\ q.pc = AfterQuery(p, "lists") /\ q.page = p.page
                   /\ q.pending = p.pending \ {"lists"} /\ q.named = Named(p)
                   /\ q.total = p.total /\ q.headcount = p.headcount /\ q.counts = p.counts
                   /\ Sight(p, q) /\ Subject(p, q) /\ Gathered(p, q) /\ Past(p, q)
      BY <1>9, ListsGo
    <2> HIDE DEF p
    <2>2. PageInv(q)
      BY <1>1, <2>1, FigurePage DEF Queries, Sight
    <2> QED
      BY <1>2, <2>1, <2>2
  <1>10. CASE ReadCells(w)
    <2>1. PICK q \in View :
                   /\ Goes(w, q) /\ p.pc = "cells" /\ p.op = "calendar" /\ q.pc = "answer"
                   /\ q.cells = p.cells + Cardinality(CellsOf(p.last))
                   /\ q.last = p.last /\ q.shown = p.shown /\ q.repeated = p.repeated
                   /\ Turn(p, q) /\ Sight(p, q) /\ Subject(p, q) /\ Figures(p, q) /\ Past(p, q)
      BY <1>10, CellsGo
    <2> HIDE DEF p
    <2>2. PageInv(q)
      BY <1>1, <2>1, CellsPage
    <2> QED
      BY <1>2, <2>1, <2>2
  <1>11. CASE TurnPage(w)
    <2>1. PICK q \in View :
                   /\ Goes(w, q) /\ p.pc = "answer"
                   /\ \/ /\ p.page * PageSize < p.total /\ q.page = p.page + 1
                         /\ q.pc = (IF p.lead = None THEN "queries" ELSE "scope")
                         /\ q.pending = QueriesOf(p.op)
                      \/ ~(p.page * PageSize < p.total) /\ q.pc = "done" /\ Turn(p, q)
                   /\ Sight(p, q) /\ Subject(p, q) /\ Gathered(p, q) /\ Figures(p, q) /\ Past(p, q)
      BY <1>11, TurnGoes
    <2> HIDE DEF p
    <2>2. PageInv(q)
      <3>1. q.pc = (IF p.lead = None THEN "queries" ELSE "scope") => q.pc \in {"scope", "queries"}
        OBVIOUS
      <3> QED
        BY <1>1, <2>1, <3>1, TurnedPage
    <2> QED
      BY <1>2, <2>1, <2>2
  <1>12. ASSUME NEW q \in View, Goes(w, q), q.op \notin Listings
         PROVE  PageInv(view'[w])
    <2>1. PageInv(q)
      BY <1>12, Unheld
    <2> QED
      BY <1>2, <1>12, <2>1
  <1>13. "export" \notin Listings
    BY DEF Listings
  <1>14. CASE \E narrow \in Narrowings : OpenExport(w, narrow)
    <2>1. PICK q \in View : Goes(w, q) /\ q.op = "export"
      BY <1>14, OpenExportGoes
    <2> QED
      BY <1>12, <1>13, <2>1
  <1>15. CASE CountForExport(w)
    <2>1. PICK q \in View : Goes(w, q) /\ p.op = "export" /\ Subject(p, q)
      BY <1>15, CountExportGoes
    <2>2. q.op = "export"
      BY <2>1 DEF Subject
    <2> QED
      BY <1>12, <1>13, <2>1, <2>2
  <1>16. CASE FetchForExport(w)
    <2>1. PICK q \in View : Goes(w, q) /\ p.op = "export" /\ Subject(p, q)
      BY <1>16, FetchGoes
    <2>2. q.op = "export"
      BY <2>1 DEF Subject
    <2> QED
      BY <1>12, <1>13, <2>1, <2>2
  <1> QED
    BY <1>3, <1>4, <1>5, <1>6, <1>7, <1>8, <1>9, <1>10, <1>11, <1>14, <1>15, <1>16, Zenon
       DEF ViewStep

LEMMA PagesKeep ==
    ASSUME ViewInv, PagesInv, [OverviewNext]_allVars
    PROVE  PagesInv'
  <1> SUFFICES ASSUME NEW w \in Watching, NEW q \in View, view'[w] = q
               PROVE  PageInv(q)'
    BY DEF PagesInv
  <1> DEFINE p == view[w]
  <1>1. p \in View /\ Looking(p) /\ PageInv(p)
    BY DEF ViewInv, PagesInv
  <1>2. CASE Stays(w)
    <2>1. q = p /\ (Calm \/ p.pc = "new")
      BY <1>2 DEF Stays
    <2> HIDE DEF p
    <2>2. CASE Calm
      BY <1>1, <2>1, <2>2, PageCalm
    <2>3. CASE p.pc = "new"
      <3>1. q.op \notin Listings \/ q.disturbed
        BY <1>1, <2>1, <2>3 DEF PageInv
      <3> QED
        BY <3>1, Unheld
    <2> QED
      BY <2>1, <2>2, <2>3
  <1>3. CASE Unsettles(w)
    BY <1>3, Unheld DEF Unsettles
  <1>4. CASE ViewStep(w) /\ Calm
    <2>1. PageInv(q)
      BY <1>1, <1>4, ViewerPages
    <2> QED
      BY <1>4, <2>1, PageCalm
  <1>5. CASE DismissalStep(w)
    <2>1. ASSUME NEW about \in Dismissable, OpenDismissal(w, about)
          PROVE  q.op \in {"dismiss", "undismiss"}
      BY <2>1, OpenDismissalGoes, Seeing DEF Goes, ShownTo
    <2>2. ASSUME ExceptionExists(w)
          PROVE  q.op \in {"dismiss", "undismiss"}
      <3>1. PICK r \in View : /\ Looking(r) /\ See(w, r) /\ p.pc = "exists" /\ Subject(p, r)
        BY <2>2, ExistsGoes
      <3> QED
        BY <1>1, <3>1, Seeing DEF Looking, Subject, ShownTo
    <2>3. ASSUME Dismiss(w) \/ Undismiss(w)
          PROVE  q.op \in {"dismiss", "undismiss"}
      <3>1. PICK r \in View : /\ Looking(r) /\ SeeAs(w, r) /\ p.op \in {"dismiss", "undismiss"}
                              /\ Subject(p, r)
        BY <2>3, DismissalGoes
      <3>2. view'[w] = r
        BY <3>1, Disturbing
      <3> QED
        BY <3>1, <3>2 DEF Subject
    <2>4. q.op \in {"dismiss", "undismiss"}
      BY <1>5, <2>1, <2>2, <2>3 DEF DismissalStep
    <2>5. q.op \notin Listings
      BY <2>4 DEF Listings
    <2> QED
      BY <2>5, Unheld
  <1> QED
    BY <1>2, <1>3, <1>4, <1>5, EachView

LEMMA PagesHold == OverviewSpec => [](ViewInv /\ PagesInv)
  <1>1. OverviewInit => ViewInv /\ PagesInv
    <2> SUFFICES ASSUME OverviewInit PROVE ViewInv /\ PagesInv
      OBVIOUS
    <2>1. \A w \in Watching : view[w] = NoView
      BY DEF OverviewInit, Watching
    <2>2. PageInv(NoView)
      BY DEF PageInv, NoView, Listings
    <2> QED
      BY <2>1, <2>2, InitSeen DEF PagesInv
  <1>2. ViewInv /\ PagesInv /\ [OverviewNext]_allVars => (ViewInv /\ PagesInv)'
    BY ViewsKeep, PagesKeep
  <1> QED
    BY <1>1, <1>2, PTL DEF OverviewSpec

-----------------------------------------------------------------------------
(* Summaries                                                               *)

\* Two sets with nothing in common have as many elements as both together.
LEMMA DisjointSum ==
    ASSUME NEW S, IsFiniteSet(S), NEW T, IsFiniteSet(T), S \cap T = {}
    PROVE  Cardinality(S \cup T) = Cardinality(S) + Cardinality(T)
  <1>1. Cardinality(S \cup T) = Cardinality(S) + Cardinality(T) - Cardinality(S \cap T)
    BY FS_Union
  <1>2. Cardinality(S \cap T) = 0
    BY FS_EmptySet, Zenon
  <1>3. Cardinality(S) \in Nat /\ Cardinality(T) \in Nat
    BY FS_CardinalityType
  <1> QED
    BY ONLY <1>1, <1>2, <1>3

\* How SumOf adds up: over every subset of the labels, one label after the other.
Pick(s) == CHOOSE x \in s : TRUE

Sums(w, f, L) ==
    w = [s \in SUBSET L |-> IF s = {} THEN 0 ELSE f[Pick(s)] + w[s \ {Pick(s)}]]

LEMMA SumUnrolled ==
    ASSUME NEW L, NEW f \in [L -> Nat]
    PROVE  SumOf(f) = (CHOOSE w : Sums(w, f, L))[L]
  <1>1. DOMAIN f = L
    OBVIOUS
  <1> QED
    BY <1>1 DEF SumOf, FoldFunction, FoldFunctionOnSet, MapThenFoldSet, Sums, Pick

LEMMA SumStep ==
    ASSUME NEW L, NEW f, NEW w, Sums(w, f, L), NEW s \in SUBSET L, s # {}
    PROVE  Pick(s) \in s /\ w[s] = f[Pick(s)] + w[s \ {Pick(s)}]
  <1>1. w[s] = IF s = {} THEN 0 ELSE f[Pick(s)] + w[s \ {Pick(s)}]
    BY DEF Sums
  <1> QED
    BY <1>1 DEF Pick

LEMMA SumNone ==
    ASSUME NEW L, NEW f, NEW w, Sums(w, f, L)
    PROVE  w[{}] = 0
  BY DEF Sums

\* If everything has one of the labels, the numbers of what has each label add up to
\* the number of all.
LEMMA SumOfParts ==
    ASSUME NEW L, IsFiniteSet(L), NEW rows, IsFiniteSet(rows), NEW label \in [rows -> L],
           NEW f, f = [l \in L |-> Cardinality({r \in rows : label[r] = l})]
    PROVE  SumOf(f) = Cardinality(rows)
  <1> DEFINE Part(s) == {r \in rows : label[r] \in s}
             W == [s \in SUBSET L |-> Cardinality(Part(s))]
  <1>1. \A s : IsFiniteSet(Part(s)) /\ Cardinality(Part(s)) \in Nat
    BY FS_Subset, FS_CardinalityType
  <1>2. f \in [L -> Nat]
    <2>1. ASSUME NEW l \in L
          PROVE  Cardinality({r \in rows : label[r] = l}) \in Nat
      BY FS_Subset, FS_CardinalityType
    <2> QED
      BY <2>1
  <1>3. ASSUME NEW s \in SUBSET L, NEW x \in s
        PROVE  Cardinality(Part(s)) = f[x] + Cardinality(Part(s \ {x}))
    <2> DEFINE one == {r \in rows : label[r] = x}
    <2>1. Part(s) = one \cup Part(s \ {x}) /\ one \cap Part(s \ {x}) = {}
      OBVIOUS
    <2>2. IsFiniteSet(one) /\ IsFiniteSet(Part(s \ {x})) /\ f[x] = Cardinality(one)
      BY <1>1, FS_Subset
    <2> HIDE DEF one, Part
    <2> QED
      BY <2>1, <2>2, DisjointSum
  <1>4. Cardinality(Part({})) = 0
    <2>1. Part({}) = {}
      OBVIOUS
    <2> QED
      BY <2>1, FS_EmptySet, Zenon
  <1> HIDE DEF Part
  <1>5. Sums(W, f, L)
    <2> DEFINE V == [s \in SUBSET L |->
                       IF s = {} THEN 0 ELSE f[Pick(s)] + W[s \ {Pick(s)}]]
    <2>1. ASSUME NEW s \in SUBSET L
          PROVE  W[s] = V[s]
      <3>1. CASE s = {}
        BY <1>4, <3>1
      <3>2. CASE s # {}
        <4> DEFINE x == Pick(s)
        <4>1. x \in s /\ s \ {x} \in SUBSET L
          BY <3>2 DEF Pick
        <4>2. V[s] = f[x] + W[s \ {x}]
          BY <3>2
        <4> HIDE DEF x
        <4>3. W[s] = f[x] + W[s \ {x}]
          BY <1>3, <4>1
        <4> QED
          BY <4>2, <4>3
      <3> QED
        BY <3>1, <3>2
    <2>2. W = V
      BY <2>1
    <2> HIDE DEF W
    <2> QED
      BY <2>2 DEF Sums
  <1> DEFINE w == CHOOSE u : Sums(u, f, L)
  <1>6. Sums(w, f, L)
    BY <1>5, Zenon
  <1> HIDE DEF w
  <1> DEFINE Wrong == {n \in Nat : \E s \in SUBSET L : Cardinality(s) = n /\ w[s] # Cardinality(Part(s))}
  <1>7. Wrong = {}
    <2> SUFFICES ASSUME Wrong # {} PROVE FALSE
      OBVIOUS
    <2>1. PICK n \in Wrong : \A m \in Wrong : n <= m
      <3>1. Wrong \in SUBSET Nat
        OBVIOUS
      <3> HIDE DEF Wrong
      <3> QED
        BY <3>1, LeastNumber
    <2>2. PICK s \in SUBSET L : Cardinality(s) = n /\ w[s] # Cardinality(Part(s))
      BY <2>1 DEF Wrong
    <2>3. s # {}
      BY <1>4, <1>6, <2>2, SumNone
    <2> DEFINE x == Pick(s)
    <2>4. x \in s /\ w[s] = f[x] + w[s \ {x}]
      BY ONLY <1>6, <2>3, s \in SUBSET L, SumStep DEF x
    <2> HIDE DEF x, Wrong
    <2>5. n \in Nat
      BY <2>1 DEF Wrong
    <2>6. IsFiniteSet(s)
      BY FS_Subset
    <2>7. IsFiniteSet(s \ {x}) /\ Cardinality(s \ {x}) = Cardinality(s) - 1
      BY <2>4, <2>6, FS_RemoveElement
    <2>8. Cardinality(s \ {x}) \in Nat
      BY <2>7, FS_CardinalityType
    <2>9. Cardinality(s \ {x}) \notin Wrong
      BY <2>1, <2>2, <2>5, <2>7, <2>8
    <2>10. s \ {x} \in SUBSET L
      OBVIOUS
    <2>11. w[s \ {x}] = Cardinality(Part(s \ {x}))
      BY <2>8, <2>9, <2>10 DEF Wrong
    <2>12. Cardinality(Part(s)) = f[x] + Cardinality(Part(s \ {x}))
      BY <1>3, <2>4
    <2> QED
      BY <2>2, <2>4, <2>11, <2>12
  <1>8. w[L] = Cardinality(Part(L))
    <2>1. Cardinality(L) \in Nat /\ L \in SUBSET L /\ Cardinality(L) \notin Wrong
      <3> HIDE DEF Wrong
      <3> QED
        BY <1>7, FS_CardinalityType
    <2> QED
      BY <2>1
  <1>9. Part(L) = rows
    BY DEF Part
  <1> QED
    BY <1>2, <1>8, <1>9, SumUnrolled DEF w

\* A daily record has a status, and an exception has a type.
LEMMA Labelled ==
    ASSUME ViewInv, NEW r \in Recorded
    PROVE  /\ record[r].status \in Labels
           /\ ExceptionType(r) # None => ExceptionType(r) \in Labels
  <1>1. r \in People \X WorkDates /\ record[r] # None
    BY DEF Recorded, Present
  <1>2. record[r] \in DayRecord
    BY <1>1, OverviewAssumption DEF ViewInv
  <1>3. record[r].status \in Labels
    BY <1>2 DEF DayRecord, DayStatuses
  <1>4. ExceptionType(r) \in Labels \cup {None}
    BY <1>3 DEF ExceptionType, Labels, Types
  <1> QED
    BY <1>3, <1>4

LEMMA FiniteLabels == IsFiniteSet(Labels)
  <1>1. IsFiniteSet({"LATE"})
    BY FS_Singleton
  <1>2. IsFiniteSet({"LATE"} \cup {"INCOMPLETE"})
    BY <1>1, FS_AddElement
  <1>3. IsFiniteSet(({"LATE"} \cup {"INCOMPLETE"}) \cup {"ABSENT"})
    BY <1>2, FS_AddElement
  <1>4. IsFiniteSet((({"LATE"} \cup {"INCOMPLETE"}) \cup {"ABSENT"}) \cup {"EARLY_DEPARTURE"})
    BY <1>3, FS_AddElement
  <1>5. IsFiniteSet(((({"LATE"} \cup {"INCOMPLETE"}) \cup {"ABSENT"}) \cup {"EARLY_DEPARTURE"}) \cup {"PRESENT"})
    BY <1>4, FS_AddElement
  <1>6. Labels = ((({"LATE"} \cup {"INCOMPLETE"}) \cup {"ABSENT"}) \cup {"EARLY_DEPARTURE"}) \cup {"PRESENT"}
    BY DEF Labels, Types, Bad
  <1> QED
    BY <1>5, <1>6

\* Records counted status by status are as many as they are.
LEMMA StatusesAddUp ==
    ASSUME ViewInv, NEW rows, rows \subseteq Recorded
    PROVE  SumOf([l \in Labels |-> Having(rows, l)]) = Cardinality(rows)
  <1> DEFINE label == [r \in rows |-> record[r].status]
             f == [l \in Labels |-> Cardinality({r \in rows : label[r] = l})]
  <1>1. label \in [rows -> Labels]
    BY Labelled
  <1>2. f = [l \in Labels |-> Having(rows, l)]
    <2>1. \A l : {r \in rows : label[r] = l} = {r \in rows : record[r].status = l}
      OBVIOUS
    <2> HIDE DEF label
    <2> QED
      BY <2>1 DEF Having
  <1>3. IsFiniteSet(rows)
    BY Finite, FS_Subset
  <1> HIDE DEF label
  <1>4. SumOf(f) = Cardinality(rows)
    BY <1>1, <1>3, FiniteLabels, SumOfParts
  <1> QED
    BY <1>2, <1>4

\* Exceptions counted type by type are as many as they are.
LEMMA ExceptionsAddUp ==
    ASSUME ViewInv, NEW types, NEW rows, rows \subseteq Exceptions(types, FALSE)
    PROVE  SumOf([l \in Labels |-> Cardinality({r \in rows : ExceptionType(r) = l})]) = Cardinality(rows)
  <1> DEFINE label == [r \in rows |-> ExceptionType(r)]
             f == [l \in Labels |-> Cardinality({r \in rows : label[r] = l})]
  <1>1. rows \subseteq Recorded /\ \A r \in rows : ExceptionType(r) # None
    BY DEF Exceptions
  <1>2. label \in [rows -> Labels]
    BY <1>1, Labelled
  <1>3. f = [l \in Labels |-> Cardinality({r \in rows : ExceptionType(r) = l})]
    <2>1. \A l : {r \in rows : label[r] = l} = {r \in rows : ExceptionType(r) = l}
      OBVIOUS
    <2> HIDE DEF label
    <2> QED
      BY <2>1
  <1>4. IsFiniteSet(rows)
    BY <1>1, Finite, FS_Subset
  <1> HIDE DEF label
  <1>5. SumOf(f) = Cardinality(rows)
    BY <1>2, <1>4, FiniteLabels, SumOfParts
  <1> QED
    BY <1>3, <1>5

\* The figures of the report, the calendar and the queue of exceptions.
LEMMA FiguresAddUp ==
    ASSUME ViewInv, NEW q, q.op \in {"report", "calendar", "exceptions"}
    PROVE  SumOf(Counts(q)) = Cardinality(Summarised(q))
  <1> DEFINE rows == Summarised(q)
  <1>1. CASE q.op = "exceptions"
    <2>1. Counts(q) = [l \in Labels |-> Cardinality({r \in rows : ExceptionType(r) = l})]
      BY <1>1 DEF Counts
    <2>2. rows \subseteq Exceptions(q.types, FALSE)
      <3>1. rows = Rows(q)
        BY <1>1, SummarisedFinite
      <3>2. Rows(q) = {r \in Exceptions(q.types, FALSE) : InUnit(q, r[1])}
        BY <1>1 DEF Rows
      <3> QED
        BY <3>1, <3>2
    <2> HIDE DEF rows
    <2>3. SumOf(Counts(q)) = Cardinality(rows)
      BY <2>1, <2>2, ExceptionsAddUp
    <2> QED
      BY <2>3 DEF rows
  <1>2. CASE q.op # "exceptions"
    <2>1. Counts(q) = [l \in Labels |-> Having(rows, l)]
      BY <1>2 DEF Counts
    <2>2. rows \subseteq Recorded
      BY SummarisedFinite
    <2> HIDE DEF rows
    <2>3. SumOf(Counts(q)) = Cardinality(rows)
      BY <2>1, <2>2, StatusesAddUp
    <2> QED
      BY <2>3 DEF rows
  <1> QED
    BY <1>1, <1>2

\* As many people as there are rows of them.
LEMMA RowEach ==
    ASSUME NEW S, IsFiniteSet(S), NEW d
    PROVE  Cardinality(S \X {d}) = Cardinality(S) /\ Cardinality(S) \in Nat
  <1>1. IsFiniteSet({d}) /\ Cardinality({d}) = 1
    BY FS_Singleton
  <1>2. Cardinality(S \X {d}) = Cardinality(S) * Cardinality({d})
    BY <1>1, FS_Product
  <1>3. Cardinality(S) \in Nat
    BY FS_CardinalityType
  <1> QED
    BY ONLY <1>1, <1>2, <1>3

\* Of the people of the dashboard, who is in no status has no record.
LEMMA NobodyForgotten ==
    ASSUME ViewInv, NEW q, q.op = "dashboard"
    PROVE  Cardinality(Active \cap q.scope) - SumOf(Counts(q))
             = Cardinality({e \in Active \cap q.scope : <<e, Today>> \notin Recorded})
  <1> DEFINE here == Active \cap q.scope
             with == {e \in here : <<e, Today>> \in Recorded}
             without == {e \in here : <<e, Today>> \notin Recorded}
             rows == Recorded \cap (here \X {Today})
  <1>1. IsFiniteSet(here)
    BY Finite, FS_Subset DEF Active, Unarchived
  <1>2. rows = with \X {Today} /\ rows \subseteq Recorded
    OBVIOUS
  <1>3. Counts(q) = [l \in Labels |-> Having(rows, l)]
    BY DEF Counts, Summarised
  <1>5. here = with \cup without /\ with \cap without = {}
    OBVIOUS
  <1>6. IsFiniteSet(with) /\ IsFiniteSet(without)
    BY <1>1, FS_Subset
  <1> HIDE DEF here, with, without, rows
  <1>7. SumOf(Counts(q)) = Cardinality(with)
    <2>1. SumOf(Counts(q)) = Cardinality(rows)
      BY <1>2, <1>3, StatusesAddUp
    <2>2. Cardinality(with \X {Today}) = Cardinality(with)
      BY <1>6, RowEach
    <2> QED
      BY <1>2, <2>1, <2>2
  <1>8. Cardinality(here) = Cardinality(with) + Cardinality(without)
    BY <1>5, <1>6, DisjointSum
  <1>9. Cardinality(with) \in Nat /\ Cardinality(without) \in Nat
    BY <1>6, RowEach
  <1>10. Cardinality(here) - SumOf(Counts(q)) = Cardinality(without)
    BY ONLY <1>7, <1>8, <1>9
  <1> QED
    BY <1>10 DEF without, here

\* Of the people of the dashboard, the late and the incomplete are on the short lists.
LEMMA ListedAreCounted ==
    ASSUME ViewInv, NEW q, q.op = "dashboard"
    PROVE  Counts(q)["LATE"] + Counts(q)["INCOMPLETE"] = Cardinality(Named(q) \cap Active)
  <1> DEFINE here == Active \cap q.scope
             Are(l) == {e \in here : <<e, Today>> \in Recorded /\ record[<<e, Today>>].status = l}
             rows == Recorded \cap (here \X {Today})
  <1>1. \A l \in Labels : Counts(q)[l] = Having(rows, l)
    BY DEF Counts, Summarised
  <1>2. \A l : {r \in rows : record[r].status = l} = Are(l) \X {Today}
    OBVIOUS
  <1>3. \A l : IsFiniteSet(Are(l))
    BY Finite, FS_Subset DEF Active, Unarchived
  <1>4. Named(q) \cap Active = Are("LATE") \cup Are("INCOMPLETE") /\ Are("LATE") \cap Are("INCOMPLETE") = {}
    BY DEF Named, Active, Unarchived
  <1>5. "LATE" \in Labels /\ "INCOMPLETE" \in Labels
    BY DEF Labels, Types, Bad
  <1> HIDE DEF Are, rows
  <1>6. \A l \in Labels : Counts(q)[l] = Cardinality(Are(l))
    BY <1>1, <1>2, <1>3, RowEach DEF Having
  <1> QED
    BY <1>3, <1>4, <1>5, <1>6, DisjointSum

\* A view that has gone through all pages of a listing without ties has shown all rows.
LEMMA AllShown ==
    ASSUME ViewInv, NEW q \in View, PageInv(q), Undisturbed(q), InOrder(q)
    PROVE  /\ q.shown = Rows(q) /\ ~q.repeated /\ q.total = Cardinality(q.shown)
           /\ q.op # "directory" => q.counts = Counts(q)
           /\ q.op = "calendar" => q.cells = Cardinality(CellsOf(q.shown))
  <1>1. q.pc = "done" /\ q.op \in Listings /\ ~q.disturbed
    BY DEF Undisturbed
  <1>2. q.pending = {} /\ FiguresRight(q) /\ RowsRight(q) /\ q.page * PageSize >= q.total
    BY <1>1 DEF PageInv
  <1>3. q.total = Cardinality(Rows(q)) /\ (q.op # "directory" => q.counts = Counts(q))
    BY <1>2 DEF FiguresRight, QueriesOf
  <1>4. /\ q.shown \subseteq Rows(q) /\ ~q.repeated
        /\ Cardinality(q.shown) = AtMost(q.page * PageSize, Cardinality(Rows(q)))
        /\ q.op = "calendar" => q.cells = Cardinality(CellsOf(q.shown))
    BY <1>1, <1>2 DEF RowsRight, Pages, Counted
  <1>5. Cardinality(Rows(q)) \in Nat /\ IsFiniteSet(Rows(q))
    BY RowsFinite
  <1>6. q.page * PageSize \in Nat
    BY OverviewAssumption DEF View
  <1>7. Cardinality(q.shown) = Cardinality(Rows(q))
    BY <1>2, <1>3, <1>4, <1>5, <1>6 DEF AtMost
  <1>8. q.shown = Rows(q)
    BY <1>4, <1>5, <1>7, FS_Subset
  <1> QED
    BY <1>3, <1>4, <1>8

\* A manager is shown nobody outside the line, and whoever goes through a listing
\* while nothing changes sees every row once, under figures that add up.
THEOREM PagesShowWhatThereIs == OverviewSpec => []PagesAreRight
  <1>1. ASSUME ViewInv, PagesInv, NEW v \in Viewers
        PROVE  view[v] \in View /\ PageInv(view[v])
    BY <1>1 DEF ViewInv, PagesInv, Watching
  <1>2. LineInv => ManagerSeesOwnLine
    BY DEF LineInv, ManagerSeesOwnLine, Watching
  <1>3. ViewInv /\ PagesInv => EveryRowShownOnce
    <2> SUFFICES ASSUME ViewInv, PagesInv, NEW v \in Viewers, NEW q, q = view[v], Undisturbed(q),
                        InOrder(q)
                 PROVE  q.shown = Rows(q) /\ ~q.repeated /\ q.total = Cardinality(q.shown)
      BY DEF EveryRowShownOnce, InOrder
    <2>1. q \in View /\ PageInv(q)
      BY <1>1
    <2> QED
      BY <2>1, AllShown
  <1>4. ViewInv /\ PagesInv => SummariesAddUp
    <2> DEFINE Adds(q) ==
                 CASE q.op = "dashboard" ->
                        /\ q.headcount - SumOf(q.counts) =
                             Cardinality({e \in Active \cap q.scope : <<e, Today>> \notin Recorded})
                        /\ q.counts["LATE"] + q.counts["INCOMPLETE"] = Cardinality(q.named \cap Active)
                   [] q.op = "report" \/ (q.op = "exceptions" /\ q.types = {}) -> SumOf(q.counts) = q.total
                   [] q.op = "calendar" -> SumOf(q.counts) = q.cells
                   [] OTHER -> TRUE
    <2> SUFFICES ASSUME ViewInv, PagesInv, NEW v \in Viewers, NEW q, q = view[v], Undisturbed(q)
                 PROVE  Adds(q)
      BY Zenon DEF SummariesAddUp
    <2>1. q \in View /\ PageInv(q)
      BY <1>1
    <2>2. CASE q.op = "dashboard"
      <3>1. q.pending = {} /\ FiguresRight(q)
        BY <2>1 DEF PageInv, Undisturbed
      <3>2. /\ q.headcount = Cardinality(Active \cap q.scope) /\ q.counts = Counts(q)
            /\ q.named = Named(q)
        BY <2>2, <3>1 DEF FiguresRight, QueriesOf
      <3>3. q.headcount - SumOf(q.counts) =
              Cardinality({e \in Active \cap q.scope : <<e, Today>> \notin Recorded})
        BY <2>2, <3>2, NobodyForgotten
      <3>4. q.counts["LATE"] + q.counts["INCOMPLETE"] = Cardinality(q.named \cap Active)
        BY <2>2, <3>2, ListedAreCounted
      <3> QED
        BY <2>2, <3>3, <3>4
    <2>3. CASE q.op \in {"report", "calendar", "exceptions"}
      <3>1. /\ q.shown = Rows(q) /\ q.total = Cardinality(Rows(q)) /\ q.counts = Counts(q)
            /\ q.op = "calendar" => q.cells = Cardinality(CellsOf(Rows(q)))
        BY <2>1, <2>3, AllShown DEF InOrder
      <3>2. SumOf(Counts(q)) = Cardinality(Summarised(q))
        BY ONLY ViewInv, <2>3, FiguresAddUp
      <3>3. q.op = "calendar" => CellsOf(Rows(q)) = Summarised(q)
        <4> SUFFICES ASSUME q.op = "calendar" PROVE CellsOf(Rows(q)) = Summarised(q)
          OBVIOUS
        <4>1. Rows(q) = {e \in Present : InUnit(q, e)} \X {NoDate}
          BY DEF Rows
        <4>2. Recorded \subseteq Present \X WorkDates
          BY Finite
        <4>3. Summarised(q) = {r \in Recorded : InUnit(q, r[1])}
          BY DEF Summarised
        <4> QED
          BY <4>1, <4>2, <4>3 DEF CellsOf
      <3>4. q.op \in {"report", "exceptions"} => Summarised(q) = Rows(q)
        BY SummarisedFinite
      <3> QED
        BY <2>3, <3>1, <3>2, <3>3, <3>4
    <2>4. CASE q.op \notin {"dashboard", "report", "calendar", "exceptions"}
      BY <2>4
    <2> QED
      BY <2>2, <2>3, <2>4
  <1> QED
    BY <1>2, <1>3, <1>4, LinesHold, PagesHold, PTL DEF PagesAreRight
=============================================================================
