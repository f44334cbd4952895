------------------------------- MODULE Panels -------------------------------
(***************************************************************************)
(* The other panels of the pages: those that send commands about what they *)
(* show (punches, reviews, periods, users, exceptions, processing,         *)
(* onboarding, documents, schedule assignments, weekly offs, the policy)   *)
(* and those that load what they show themselves (history, corrections,    *)
(* the preview of a period's close).  A panel offers commands by what it   *)
(* was given when its page was rendered, which may be stale and need not   *)
(* be all that the service asks for; what a command does is decided by the *)
(* rows as they are when it is served, here in one step (AttendanceLedger, *)
(* Workforce, Employees and Access have the steps in between).  A request  *)
(* whose answer is lost may still be served.                               *)
(***************************************************************************)
EXTENDS Forms, Sequences

CONSTANTS
    Screens,        \* a sequence of them: which panel is shown, in which tabs, of which
                    \* rows, with which requests, how often a dialog is opened or a
                    \* range chosen, what is entered, and what others do meanwhile
    Today           \* the work date on which the panels are used

VARIABLES
    screen,         \* the one of Screens that is played
    db,             \* what the panel is about, as the database has it
    view,           \* the state of the panel in each tab
    request,        \* the commands that were sent
    effect          \* the command that last changed db, None if something else did

panelVars == <<screen, db, view, request, effect>>

Forever == Today + 10
Only(x, condition) == IF condition THEN {x} ELSE {}

\* A day's punches: the session that is open, the sessions of the day and those that
\* ended on a break, the missing punches for which a correction is approved, why the
\* employee may not punch, and of which months the attendance is closed: the one that the
\* page looks at, the one that the punch belongs to.  No closed month has an open session.
Sessions ==
    {d \in [work: {"out", "working", "break"}, sessions: Nat, left: Nat,
            missing: SUBSET {"check-in", "break-end"}, barred: SUBSET {"role", "status"},
            closed: SUBSET {"page", "punch"}] :
        d.work # "out" => "punch" \notin d.closed}

\* A correction, as its reviewer meets it: who filed it, whether it is about the
\* reviewer's own attendance, whether the reviewer ranks high enough, and whether the
\* day can be recalculated with it.
Corrections ==
    [status: {"PENDING", "APPROVED", "REJECTED"}, closed: BOOLEAN, filed: {"self", "other"},
     own: BOOLEAN, ranked: BOOLEAN, resolves: BOOLEAN]

\* What a panel is about: the rows, or the part of them that it shows and changes, or on
\* which its commands depend.
Database(s) ==
    CASE s.panel = "session"    -> Sessions
      [] s.panel = "period"     -> [closed: BOOLEAN, sessions: {0, 1}]
      [] s.panel = "review"     -> Corrections
      [] s.panel = "request"    -> [corrections: Nat]
      [] s.panel = "users"      -> [active: BOOLEAN, password: Nat, elsewhere: BOOLEAN]
      [] s.panel = "exceptions" -> [exists: BOOLEAN, dismissed: BOOLEAN]
      [] s.panel = "process"    -> [processed: BOOLEAN, closed: BOOLEAN, future: BOOLEAN]
      [] s.panel = "onboarding" -> [started: BOOLEAN, done: SUBSET s.tasks]
      [] s.panel = "documents"  ->
            [created: SUBSET Nat, listed: SUBSET Nat, stored: SUBSET Nat, reachable: BOOLEAN]
      [] s.panel \in {"assignment", "override"} -> [rows: Seq([from: Nat, to: Nat])]
      [] s.panel = "default"    -> [days: SUBSET (0..6)]
      [] s.panel = "policy"     -> [minutes: 0..240]
      [] s.panel = "history"    -> [none: {None}]

\* What is entered in the dialogs and fields of a panel.
Enterable(s) ==
    CASE s.panel = "assignment" -> [from: Nat, to: Nat, overlap: BOOLEAN]
      [] s.panel = "override"   -> [from: Nat]
      [] s.panel = "default"    -> [days: SUBSET (0..6), ordered: BOOLEAN]
      [] s.panel = "documents"  -> [allowed: BOOLEAN]
      [] OTHER -> Nat

\* What its buttons send.
Commands(s) ==
    CASE s.panel = "session"    -> [do: {"check-in", "check-out", "break-start", "break-end"}]
      [] s.panel = "period"     -> [do: {"close", "reopen"}]
      [] s.panel = "review"     -> [do: {"approve", "reject"}]
      [] s.panel = "request"    -> [do: {"request"}]
      [] s.panel = "users"      -> [do: {"reset"}] \cup [do: {"status"}, to: BOOLEAN]
      [] s.panel = "exceptions" -> [do: {"dismiss", "undismiss"}]
      [] s.panel = "process"    -> [do: {"process"}]
      [] s.panel = "onboarding" -> [do: {"start"}] \cup [do: {"toggle"}, task: s.tasks, to: BOOLEAN]
      [] s.panel = "documents"  -> [do: {"upload"}, allowed: BOOLEAN] \cup [do: {"remove"}, document: Nat]
      [] s.panel = "assignment" -> [do: {"assign"}, from: Nat, to: Nat, overlap: BOOLEAN]
      [] s.panel = "override"   -> [do: {"override"}, from: Nat]
      [] s.panel = "default"    -> [do: {"default"}, days: SUBSET (0..6), ordered: BOOLEAN]
      [] s.panel = "policy"     -> [do: {"policy"}, minutes: 0..240]
      [] s.panel = "history"    -> {}

\* Who else acts on the rows of a panel.
Acts(s) ==
    CASE s.panel = "session"    -> {"approve", "close"}
      [] s.panel = "period"     -> {"punch"}
      [] s.panel = "review"     -> {"close", "rank", "recalculate"}
      [] s.panel = "exceptions" -> {"recalculate"}
      [] s.panel = "process"    -> {"close", "midnight"}
      [] s.panel = "documents"  -> {"fail"}
      [] OTHER -> {}

PanelNames ==
    {"session", "period", "review", "request", "users", "exceptions", "process", "onboarding",
     "documents", "assignment", "override", "default", "policy", "history"}

ASSUME ScreensAssumption ==
    /\ Today \in Nat
    /\ \A i \in DOMAIN Screens :
          LET s == Screens[i]
          IN  /\ s.panel \in PanelNames /\ s.opens \in Nat
              /\ s.db \in Database(s) /\ s.entered \subseteq Enterable(s) /\ s.others \subseteq Acts(s)
              /\ s.panel = "documents" => IsFiniteSet(s.db.created)
              /\ None \notin Nat \cup [n: 1..s.opens, sessions: {0, 1}]
              /\ None \notin Commands(s) \cup [tab: Tabs, sight: Nat, cmd: Commands(s)]

-----------------------------------------------------------------------------
(* For each panel: the dialogs its buttons open (...Dialogs), the commands *)
(* its enabled buttons send (...Offers), and what becomes of the rows when *)
(* a command is served (...Served; empty when it is refused).              *)

\* Mutant: check-out is offered on a break.
PunchOffersOnBreak(v) ==
    IF v.busy # None \/ "page" \in v.seen.closed THEN {}
    ELSE CASE v.seen.work = "out"     -> {[do |-> "check-in"]}
           [] v.seen.work = "working" -> {[do |-> "break-start"], [do |-> "check-out"]}
           [] v.seen.work = "break"   -> {[do |-> "break-end"], [do |-> "check-out"]}

PunchOffers(v) ==
    IF v.busy # None \/ "page" \in v.seen.closed THEN {}
    ELSE CASE v.seen.work = "out"     -> {[do |-> "check-in"]}
           [] v.seen.work = "working" -> {[do |-> "break-start"], [do |-> "check-out"]}
           [] v.seen.work = "break"   -> {[do |-> "break-end"]}

OpenBreaks(d) == d.left + (IF d.work = "break" THEN 1 ELSE 0)

\* Each approved missing punch still has its one target, without which the day is not
\* recalculated.
Resolves(d) ==
    /\ "check-in" \in d.missing => d.sessions = 0
    /\ "break-end" \in d.missing => OpenBreaks(d) = 1

Punched(do, d) ==
    CASE do = "check-in"    -> Only([d EXCEPT !.work = "working", !.sessions = @ + 1], d.work = "out")
      [] do = "check-out"   -> Only([d EXCEPT !.work = "out"], d.work = "working")
      [] do = "break-start" -> Only([d EXCEPT !.work = "break"], d.work = "working")
      [] do = "break-end"   -> Only([d EXCEPT !.work = "working"], d.work = "break")

\* The punch fails with the recalculation of its day.
PunchServed(do, d) ==
    {n \in Punched(do, d) :
        /\ "role" \notin d.barred /\ (do = "check-in" => "status" \notin d.barred)
        /\ "punch" \notin d.closed
        /\ Resolves(n)}

PeriodDialogs(v) == {[do |-> IF v.seen.closed THEN "reopen" ELSE "close"]}

\* blocked: the preview counts open sessions.
Blocked(v) == v.preview # None /\ v.preview.sessions > 0

\* Mutant: Confirm does not wait for the preview.
CloseOffersEarly(v) == Only(v.dialog, v.busy = None /\ ~Blocked(v))

CloseOffers(v) == Only(v.dialog, v.busy = None /\ ~Blocked(v) /\ ~v.loading)

PeriodOffers(v) ==
    IF v.dialog = None THEN {}
    ELSE IF v.dialog.do = "close" THEN CloseOffers(v) ELSE Only(v.dialog, v.busy = None)

PeriodServed(do, d) ==
    IF do = "close" THEN Only([d EXCEPT !.closed = TRUE], ~d.closed /\ d.sessions = 0)
    ELSE Only([d EXCEPT !.closed = FALSE], d.closed)

\* canReview, which the queue computes for its reader.
CanReview(d) == d.filed = "other" /\ d.ranked

ReviewOffers(v) ==
    IF v.dialog = None \/ v.seen.status # "PENDING" \/ v.busy # None \/ v.seen.closed \/ ~CanReview(v.seen)
    THEN {}
    ELSE {[do |-> "approve"], [do |-> "reject"]}

\* An approval fails with the recalculation of its day.
ReviewServed(do, d) ==
    Only([d EXCEPT !.status = IF do = "approve" THEN "APPROVED" ELSE "REJECTED"],
         /\ d.status = "PENDING" /\ ~d.closed
         /\ d.filed = "other" /\ ~d.own /\ d.ranked
         /\ do = "approve" => d.resolves)

\* Mutant: no live correction is looked for.
RequestServedAgain(d) == {[d EXCEPT !.corrections = @ + 1]}

\* A missing punch has one live correction at most.
RequestServed(d) == Only([d EXCEPT !.corrections = @ + 1], d.corrections = 0)

\* The dialog keeps the change that was offered when it was opened.
UserDialogs(v) == {[do |-> "status", to |-> ~v.seen.active], [do |-> "reset"]}

UserServed(cmd, d) ==
    IF cmd.do = "reset" THEN Only([d EXCEPT !.password = @ + 1], ~d.elsewhere)
    ELSE {[d EXCEPT !.active = cmd.to]}

\* The table has a row for each exception that exists.
ExceptionDialogs(v) == Only([do |-> "dismiss"], v.seen.exists /\ ~v.seen.dismissed)

ExceptionOffers(v) ==
    IF v.busy # None \/ ~v.seen.exists THEN {}
    ELSE IF v.seen.dismissed THEN {[do |-> "undismiss"]} ELSE {v.dialog} \ {None}

ExceptionServed(do, d) ==
    IF do = "dismiss" THEN Only([d EXCEPT !.dismissed = TRUE], d.exists)
    ELSE Only([d EXCEPT !.dismissed = FALSE], d.dismissed)

ProcessOffers(v) == Only([do |-> "process"], v.busy = None /\ ~v.seen.closed)

\* The page stops at today in UTC, the service at the company's today.
ProcessServed(d) == Only([d EXCEPT !.processed = TRUE], ~d.closed /\ ~d.future)

OnboardingOffers(v) ==
    IF v.busy # None THEN {}
    ELSE IF ~v.seen.started THEN {[do |-> "start"]}
    ELSE {[do |-> "toggle", task |-> i, to |-> i \notin v.seen.done] : i \in screen.tasks}

\* What was started is not started again, but answered.
OnboardingServed(cmd, d) ==
    IF cmd.do = "start" THEN {[d EXCEPT !.started = TRUE]}
    ELSE {[d EXCEPT !.done = IF cmd.to THEN @ \cup {cmd.task} ELSE @ \ {cmd.task}]}

\* "Remove" does not wait for the answer to an earlier one.
DocumentOffers(v) ==
    IF v.dialog # None THEN Only(v.dialog, v.busy = None)
    ELSE {[do |-> "remove", document |-> i] : i \in v.seen.listed}

UploadDialogs == {[do |-> "upload", allowed |-> e.allowed] : e \in screen.entered}

\* The row is created when the upload is initiated, after the file's kind, size and title
\* are allowed and the storage has given the URL, and before the file is there.
DocumentServed(cmd, d) ==
    IF cmd.do = "remove" THEN {[d EXCEPT !.listed = @ \ {cmd.document}]}
    ELSE LET new == Cardinality(d.created) + 1
         IN  Only([d EXCEPT !.created = @ \cup {new}, !.listed = @ \cup {new}],
                  cmd.allowed /\ d.reachable)

AssignDialogs ==
    {[do |-> "assign", from |-> e.from, to |-> e.to, overlap |-> e.overlap] : e \in screen.entered}

OpenRow(d) == {i \in DOMAIN d.rows : d.rows[i].to = Forever}

AssignServed(cmd, d) ==
    LET closing == {i \in OpenRow(d) : d.rows[i].from < cmd.from}
        overlapping == {i \in DOMAIN d.rows : d.rows[i].from <= cmd.to /\ cmd.from <= d.rows[i].to}
        closed == [i \in DOMAIN d.rows |->
                      IF i \in closing THEN [d.rows[i] EXCEPT !.to = cmd.from - 1] ELSE d.rows[i]]
        duplicate == cmd.to = Forever /\ OpenRow(d) \ closing # {}
    IN  Only([d EXCEPT !.rows = Append(closed, [from |-> cmd.from, to |-> cmd.to])],
             cmd.from <= cmd.to /\ (cmd.overlap \/ overlapping \subseteq closing) /\ ~duplicate)

OverrideDialogs == {[do |-> "override", from |-> e.from] : e \in screen.entered}

\* Without a date the override starts today when it closes the one before it, and
\* has always applied when it is stored and compared: Blank is before every date.
OverrideServed(cmd, d) ==
    LET starts == IF cmd.from = Blank THEN Today ELSE cmd.from
        closed == [i \in DOMAIN d.rows |->
                      IF i \in OpenRow(d) THEN [d.rows[i] EXCEPT !.to = starts - 1] ELSE d.rows[i]]
    IN  Only([d EXCEPT !.rows = Append(closed, [from |-> cmd.from, to |-> Forever])],
             \A i \in OpenRow(d) : d.rows[i].from < starts)

\* No day is no rule, and is not sent.
DefaultDialogs ==
    {[do |-> "default", days |-> e.days, ordered |-> e.ordered] : e \in {x \in screen.entered : x.days # {}}}

\* Its dates, of which nothing else is modelled, must be in order.
DefaultServed(cmd, d) == Only([d EXCEPT !.days = cmd.days], cmd.ordered)

\* What is not a whole number within its bounds is not sent.
PolicyOffers(v) ==
    IF v.busy # None THEN {} ELSE {[do |-> "policy", minutes |-> e] : e \in screen.entered \cap 0..240}

PolicyServed(cmd, d) == {[d EXCEPT !.minutes = cmd.minutes]}

Dialogs(v) ==
    CASE screen.panel = "period"     -> PeriodDialogs(v)
      [] screen.panel = "review"     -> {[do |-> "review"]}
      [] screen.panel = "request"    -> {[do |-> "request"]}
      [] screen.panel = "users"      -> UserDialogs(v)
      [] screen.panel = "exceptions" -> ExceptionDialogs(v)
      [] screen.panel = "documents"  -> UploadDialogs
      [] screen.panel = "assignment" -> AssignDialogs
      [] screen.panel = "override"   -> OverrideDialogs
      [] screen.panel = "default"    -> DefaultDialogs
      [] OTHER -> {}

Offers(v) ==
    CASE screen.panel = "session"    -> PunchOffers(v)
      [] screen.panel = "period"     -> PeriodOffers(v)
      [] screen.panel = "review"     -> ReviewOffers(v)
      [] screen.panel = "exceptions" -> ExceptionOffers(v)
      [] screen.panel = "process"    -> ProcessOffers(v)
      [] screen.panel = "onboarding" -> OnboardingOffers(v)
      [] screen.panel = "documents"  -> DocumentOffers(v)
      [] screen.panel = "policy"     -> PolicyOffers(v)
      [] screen.panel = "history"    -> {}
      [] OTHER -> Only(v.dialog, v.dialog # None /\ v.busy = None)

Served(cmd, d) ==
    CASE screen.panel = "session"    -> PunchServed(cmd.do, d)
      [] screen.panel = "period"     -> PeriodServed(cmd.do, d)
      [] screen.panel = "review"     -> ReviewServed(cmd.do, d)
      [] screen.panel = "request"    -> RequestServed(d)
      [] screen.panel = "users"      -> UserServed(cmd, d)
      [] screen.panel = "exceptions" -> ExceptionServed(cmd.do, d)
      [] screen.panel = "process"    -> ProcessServed(d)
      [] screen.panel = "onboarding" -> OnboardingServed(cmd, d)
      [] screen.panel = "documents"  -> DocumentServed(cmd, d)
      [] screen.panel = "assignment" -> AssignServed(cmd, d)
      [] screen.panel = "override"   -> OverrideServed(cmd, d)
      [] screen.panel = "default"    -> DefaultServed(cmd, d)
      [] screen.panel = "policy"     -> PolicyServed(cmd, d)

-----------------------------------------------------------------------------
(* The tabs.  key is the range that is chosen, or the token that makes the *)
(* corrections load again; run numbers the loads, out has those that are   *)
(* under way (loading, which the corrections do not show), and data is the *)
(* key of what was loaded.  unsure only helps to say which closes are on   *)
(* their preview.                                                          *)

Loads == {"history", "request"}

View(d) ==
    [loaded |-> TRUE, seen |-> d, sight |-> 1, mount |-> 1, dialog |-> None, opened |-> 0,
     busy |-> None, error |-> FALSE, refreshing |-> FALSE, preview |-> None, unsure |-> FALSE,
     loading |-> screen.panel \in Loads, out |-> {},
     key |-> 1, run |-> 1, data |-> None, loadError |-> FALSE]

Absent == [View([none |-> None]) EXCEPT !.loaded = FALSE, !.loading = FALSE]

NoRequest == [state |-> "new"]
NextRequest ==
    LET unsent == {c \in screen.calls : request[c] = NoRequest}
    IN  IF unsent = {} THEN None ELSE CHOOSE c \in unsent : TRUE

PanelsInit ==
    /\ \E i \in DOMAIN Screens : screen = Screens[i]
    /\ db = screen.db
    /\ view = [t \in Tabs |-> Absent]
    /\ request = [c \in Calls |-> NoRequest]
    /\ effect = None

\* The page is rendered; a panel that loads what it shows begins to.
ShowPanel(t) ==
    /\ t \in screen.tabs /\ ~view[t].loaded
    /\ view' = [view EXCEPT ![t] = [View(db) EXCEPT
          !.out = IF screen.panel \in Loads THEN {[n |-> 1, key |-> 1]} ELSE {}]]
    /\ UNCHANGED <<screen, db, request, effect>>

\* Opening the close dialog also asks for its preview.
OpenDialog(t) ==
    /\ view[t].loaded /\ view[t].dialog = None /\ view[t].opened < screen.opens
    /\ \E d \in Dialogs(view[t]) :
          view' = [view EXCEPT ![t].dialog = d, ![t].opened = @ + 1,
                      ![t].error = @ /\ d.do \notin {"close", "assign", "override", "default"},
                      ![t].loading = @ \/ d.do = "close", ![t].unsure = FALSE,
                      ![t].out = IF d.do = "close" THEN @ \cup {[n |-> view[t].opened + 1]} ELSE @]
    /\ UNCHANGED <<screen, db, request, effect>>

\* Escape, or the cross: onOpenChange(false).
DismissDialog(t) ==
    /\ view[t].dialog # None
    /\ view' = [view EXCEPT ![t].dialog = None, ![t].preview = None,
                            ![t].error = @ /\ view[t].dialog.do \notin {"close", "status", "reset", "request"}]
    /\ UNCHANGED <<screen, db, request, effect>>

\* Cancel, which only the users', the documents' and the workforce dialogs leave
\* enabled while a command is out; it keeps the preview.
CancelDialog(t) ==
    /\ view[t].dialog # None /\ screen.panel # "review"
    /\ view[t].busy # None => screen.panel \in {"users", "documents", "assignment", "override", "default"}
    /\ view' = [view EXCEPT ![t].dialog = None, ![t].error = @ /\ screen.panel # "users"]
    /\ UNCHANGED <<screen, db, request, effect>>

\* What the tab knows of the rows: the close dialog, what its preview says of them.
Sight(v) ==
    IF screen.panel = "period" /\ ~v.seen.closed
    THEN [v.seen EXCEPT !.sessions = IF v.preview = None THEN None ELSE v.preview.sessions]
    ELSE v.seen

\* A handler up to its await.
Press(t, c) ==
    /\ view[t].loaded /\ c = NextRequest
    /\ \E cmd \in Offers(view[t]) :
          /\ view' = [view EXCEPT ![t].busy = IF cmd.do = "remove" THEN @ ELSE cmd, ![t].error = FALSE]
          /\ request' = [request EXCEPT ![c] =
                [state |-> "sent", tab |-> t, cmd |-> cmd, waiting |-> TRUE, saw |-> Sight(view[t]),
                 sight |-> view[t].sight, mount |-> view[t].mount, document |-> None]]
    /\ UNCHANGED <<screen, db, effect>>

ChooseRange(t) ==
    /\ view[t].loaded /\ screen.panel = "history" /\ view[t].run < screen.opens
    /\ \E key \in screen.entered \ {view[t].key} :
          view' = [view EXCEPT ![t].key = key, ![t].run = @ + 1, ![t].loading = TRUE,
                      ![t].loadError = FALSE, ![t].out = @ \cup {[n |-> view[t].run + 1, key |-> key]}]
    /\ UNCHANGED <<screen, db, request, effect>>

\* Mutant: the effect is not cancelled when its range is left.
SettleLoadUncancelled(t) ==
    /\ screen.panel \in Loads
    /\ \E f \in view[t].out, ok \in BOOLEAN :
          view' = [view EXCEPT ![t].out = @ \ {f}, ![t].data = IF ok THEN f.key ELSE @,
                      ![t].loadError = @ \/ ~ok, ![t].loading = FALSE]
    /\ UNCHANGED <<screen, db, request, effect>>

\* The effect's load has returned; it is cancelled when another has begun.
SettleLoad(t) ==
    /\ screen.panel \in Loads
    /\ \E f \in view[t].out, ok \in BOOLEAN :
          view' = [view EXCEPT ![t].out = @ \ {f},
                      ![t].data = IF f.n = view[t].run /\ ok THEN f.key ELSE @,
                      ![t].loadError = @ \/ (f.n = view[t].run /\ ~ok),
                      ![t].loading = @ /\ f.n # view[t].run]
    /\ UNCHANGED <<screen, db, request, effect>>

\* A preview is taken whichever opening it was asked for.
SettlePreview(t) ==
    /\ screen.panel = "period"
    /\ \E f \in view[t].out, ok \in BOOLEAN :
          view' = [view EXCEPT ![t].out = @ \ {f}, ![t].loading = FALSE,
                      ![t].unsure = @ \/ ~ok \/ f.n # view[t].opened,
                      ![t].preview = IF ok THEN [n |-> f.n, sessions |-> db.sessions] ELSE @]
    /\ UNCHANGED <<screen, db, request, effect>>

-----------------------------------------------------------------------------
(* The service, and what else happens to the rows.                         *)

ServeCommand(c) ==
    /\ request[c].state = "sent"
    /\ LET cmd == request[c].cmd
           next == Served(cmd, db)
       IN  IF next = {}
           THEN /\ request' = [request EXCEPT ![c].state = "refused"]
                /\ UNCHANGED <<db, effect>>
           ELSE /\ db' \in next
                /\ request' = [request EXCEPT ![c].state = "ok",
                      ![c].document = IF cmd.do = "upload" THEN Cardinality(db'.created) ELSE None]
                /\ effect' = IF db' = db THEN effect
                             ELSE [tab |-> request[c].tab, sight |-> request[c].sight, cmd |-> cmd]
    /\ UNCHANGED <<screen, view>>

\* HR approves a missing punch; the check-out closes the session, on a break or not.
Approved(d) ==
    IF "punch" \in d.closed THEN {}
    ELSE   Only([d EXCEPT !.missing = @ \cup {"check-in"}], d.sessions = 0)
      \cup Only([d EXCEPT !.missing = @ \cup {"break-end"}], OpenBreaks(d) = 1)
      \cup Only([d EXCEPT !.work = "out", !.left = OpenBreaks(d)], d.work # "out")

\* Months are closed, when no session of theirs is open, or reopened.
ClosedOrReopened(d) ==
    IF screen.panel = "session"
    THEN {[d EXCEPT !.closed = c] :
             c \in {x \in SUBSET {"page", "punch"} : d.work # "out" => "punch" \notin x}}
    ELSE {[d EXCEPT !.closed = ~@]}

\* What others make of the rows: approvals, and closings, of a month; the punches of a
\* period's employees; a membership that changes the reviewer's rank; what a recalculation
\* meets, or what becomes of its exception; a storage that fails; the company's midnight.
Others(act, d) ==
    CASE act = "approve" -> Approved(d)
      [] act = "close"   -> ClosedOrReopened(d)
      [] act = "punch"   -> Only([d EXCEPT !.sessions = 1 - @], ~d.closed)
      [] act = "rank"    -> {[d EXCEPT !.ranked = ~@]}
      [] act = "recalculate" ->
            IF screen.panel = "review" THEN {[d EXCEPT !.resolves = ~@]} ELSE {[d EXCEPT !.exists = ~@]}
      [] act = "fail"    -> {[d EXCEPT !.reachable = ~@]}
      [] act = "midnight" -> {[d EXCEPT !.future = FALSE]}

OthersMeanwhile ==
    /\ \E act \in screen.others : db' \in Others(act, db)
    /\ effect' = None
    /\ UNCHANGED <<screen, view, request>>

Awaiting(c) == request[c] # NoRequest /\ request[c].waiting

\* The storage has the bytes that the tab put at the upload's URL.
StoreFile(c) ==
    /\ Awaiting(c) /\ request[c].state = "put"
    /\ db' = [db EXCEPT !.stored = @ \cup {request[c].document}]
    /\ request' = [request EXCEPT ![c].state = "stored"]
    /\ UNCHANGED <<screen, view, effect>>

-----------------------------------------------------------------------------
(* What comes back.                                                        *)

\* Another component stands at the panel's place when its row has changed so.
Place(d) ==
    CASE screen.panel = "period"     -> d.closed
      [] screen.panel = "exceptions" -> <<d.exists, d.dismissed>>
      [] OTHER -> TRUE

\* The initiated upload goes on to put its file.
PutFile(c) ==
    /\ Awaiting(c) /\ request[c].state = "ok" /\ request[c].cmd.do = "upload"
    /\ request' = [request EXCEPT ![c].state = "put"]
    /\ UNCHANGED <<screen, db, view, effect>>

\* The corrections load again after a request.
LoadAgain(v) ==
    [v EXCEPT !.key = @ + 1, !.run = @ + 1, !.loading = TRUE, !.loadError = FALSE,
              !.out = @ \cup {[n |-> v.run + 1, key |-> v.key + 1]}]

\* The rest of a handler that reports what went wrong.
Reported(v, cmd, ok) ==
    LET done == [v EXCEPT !.busy = None, !.error = @ \/ ~ok, !.dialog = IF ok THEN None ELSE @]
    IN  IF ok /\ cmd.do = "request" THEN LoadAgain(done) ELSE done

\* The onboarding checklist and "Remove" look at nothing but that there is an
\* answer: without one the rest of their handlers does not run.
Unreported == {"start", "toggle", "remove"}

SettleCommand(c, answer) ==
    LET t == request[c].tab
        cmd == request[c].cmd
        v == view[t]
        mounted == v.mount = request[c].mount
    IN  /\ request' = [request EXCEPT ![c].waiting = FALSE]
        /\ view' = [view EXCEPT ![t] =
             IF cmd.do \in Unreported
             THEN IF answer = "lost" THEN v
                  ELSE [v EXCEPT !.busy = IF cmd.do = "remove" THEN @ ELSE None, !.refreshing = TRUE]
             ELSE [(IF mounted THEN Reported(v, cmd, answer = "ok") ELSE v)
                      EXCEPT !.refreshing = @ \/ (answer = "ok" /\ cmd.do # "request")]]
        /\ UNCHANGED <<screen, db, effect>>

AnswerCommand(c) ==
    /\ Awaiting(c)
    /\ \/ request[c].state = "refused" /\ SettleCommand(c, "refused")
       \/ request[c].state = "ok" /\ request[c].cmd.do # "upload" /\ SettleCommand(c, "ok")
       \/ request[c].state = "stored" /\ SettleCommand(c, "ok")

LoseCommand(c) == Awaiting(c) /\ SettleCommand(c, "lost")

\* router.refresh has rendered the page again.
RefreshPanel(t) ==
    /\ view[t].refreshing
    /\ view' = [view EXCEPT ![t] =
          IF Place(view[t].seen) = Place(db)
          THEN [view[t] EXCEPT !.seen = db, !.sight = @ + 1, !.refreshing = FALSE]
          ELSE [View(db) EXCEPT !.sight = view[t].sight + 1, !.mount = view[t].mount + 1,
                                !.opened = view[t].opened]]
    /\ UNCHANGED <<screen, db, request, effect>>

-----------------------------------------------------------------------------
ForRequest(c) == AnswerCommand(c) \/ LoseCommand(c) \/ PutFile(c)
ForTab(t) == SettleLoad(t) \/ SettlePreview(t) \/ RefreshPanel(t)

PanelsNext ==
    \/ \E t \in Tabs :
          \/ ShowPanel(t) \/ OpenDialog(t) \/ DismissDialog(t) \/ CancelDialog(t) \/ ChooseRange(t)
          \/ ForTab(t)
          \/ \E c \in Calls : Press(t, c)
    \/ \E c \in Calls : ServeCommand(c) \/ StoreFile(c) \/ ForRequest(c)
    \/ OthersMeanwhile

-----------------------------------------------------------------------------
PanelsTypeOK ==
    /\ \A t \in Tabs :
          /\ {view[t].loading, view[t].refreshing, view[t].error, view[t].loadError} \subseteq BOOLEAN
          /\ view[t].opened <= screen.opens
    /\ \A c \in Calls : request[c].state \in {"new", "sent", "refused", "ok", "put", "stored"}

\* What the service asks for and the buttons do not: what is entered (requests,
\* assignments, overrides, the dates of a default, the file of an upload); for a punch, the
\* role (a MANAGER has no punches), the status of who checks in, the month of the work
\* date when it is not today's, and the missing punches that are approved for the day; for
\* a review, whose attendance it is and whether the day can be recalculated; for a reset,
\* the account's other companies; for processing, the date in the company's zone; for an
\* upload, the storage.
Unasked(cmd, d) ==
    \/ cmd.do \in {"request", "assign", "override"}
    \/ cmd.do = "default" /\ ~cmd.ordered
    \/ cmd.do = "upload" /\ ~(cmd.allowed /\ d.reachable)
    \/ screen.panel = "session" /\ ("role" \in d.barred \/ ~(\A n \in Punched(cmd.do, d) : Resolves(n)))
    \/ cmd.do = "check-in" /\ ("status" \in d.barred \/ "punch" \in d.closed)
    \/ screen.panel = "review" /\ (d.own \/ (cmd.do = "approve" /\ ~d.resolves))
    \/ cmd.do = "reset" /\ d.elsewhere
    \/ cmd.do = "process" /\ d.future

\* A command is refused only because something has changed since its panel was rendered,
\* or for one of the conditions that the buttons do not ask for: all the other
\* conditions of the service (the state of the session and its breaks, closed months,
\* reviewed corrections, requester and rank, open sessions of a period, exceptions,
\* empty rules, bounds) the panels know, in whatever order answers, refreshes and the acts
\* of others come.
RefusedOnlyForTheUnasked ==
    [][\A c \in Calls :
          request[c].state = "sent" /\ request'[c].state = "refused" =>
             request[c].saw # db \/ Unasked(request[c].cmd, db)]_panelVars

\* Of these a second press counts: a new password, another document, an assignment
\* that may overlap, an override without a date.
CountsTwice(cmd) ==
    \/ cmd.do \in {"reset", "upload"}
    \/ cmd.do = "assign" /\ cmd.overlap
    \/ cmd.do = "override" /\ cmd.from = Blank

\* A command that is pressed again, on the same view, because its answer was lost
\* or late, changes nothing that the first has not, although no request of the
\* panels carries a key that would tell the server so.
PressedTwiceCountsOnce ==
    [][\A c \in Calls :
          request[c].state = "sent" /\ db' # db /\ request'[c].state = "ok" =>
             \/ effect # [tab |-> request[c].tab, sight |-> request[c].sight, cmd |-> request[c].cmd]
             \/ CountsTwice(request[c].cmd)]_panelVars

\* A lost answer and what the user does then double nothing: neither a form's payload
\* nor a panel's command takes effect twice, but for the few that count twice.
LostAnswersDoubleNothing == []OneRowPerPayload /\ PressedTwiceCountsOnce

\* What the history and the corrections show, when no load is under way and they show no
\* error, is of the range that is chosen and not older than the last request, in
\* whatever order the answers come.
LatestLoadIsShown ==
    \A t \in Tabs :
        screen.panel \in Loads /\ view[t].loaded /\ ~view[t].loading /\ ~view[t].loadError =>
            view[t].data = view[t].key

\* HR closes a period on the preview of this opening of the dialog, unless that
\* preview failed, or one of an earlier opening came in its place.
ClosedOnItsPreview ==
    [][\A c \in Calls :
          request'[c].state = "sent" /\ request[c] = NoRequest /\ request'[c].cmd.do = "close" =>
             LET v == view[request'[c].tab]
             IN  v.unsure \/ (v.preview = [n |-> v.opened, sessions |-> 0])]_panelVars

PanelBusy(t) ==
    \/ view[t].loading
    \/ view[t].busy # None /\ (view[t].busy.do \in Unreported =>
                                    \E c \in Calls : Awaiting(c) /\ request[c].cmd = view[t].busy)

\* No form or panel stays busy for ever, even when answers are lost; those without
\* a catch (the employee's form, the onboarding checklist) do, once one is lost.
BusyEnds == \A t \in Tabs : Busy(t) \/ PanelBusy(t) ~> ~(Busy(t) \/ PanelBusy(t))
=============================================================================
