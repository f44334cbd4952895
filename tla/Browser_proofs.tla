--------------------------- MODULE Browser_proofs ---------------------------
(***************************************************************************)
(* What the panels, the forms and the listings promise, whichever rows they *)
(* show, however many tabs and requests there are and in whatever order    *)
(* answers, refreshes, midnights and other people's changes come.          *)
(***************************************************************************)
EXTENDS Listings, FiniteSetTheorems, TLAPS

-----------------------------------------------------------------------------
(* What each step does to what a tab shows.  All of them but one tab's are  *)
(* as they were.                                                            *)

\* The fields of a view.
ViewFields ==
    {"loaded", "seen", "sight", "mount", "dialog", "opened", "busy", "error", "refreshing", "preview",
     "unsure", "loading", "out", "key", "run", "data", "loadError"}

\* Every tab's panel has its state.
Viewed == DOMAIN view = Tabs /\ \A t \in Tabs : DOMAIN view[t] = ViewFields

\* Only tab t changes.
OnlyIn(t) == Viewed' /\ screen' = screen /\ \A s \in Tabs \ {t} : view'[s] = view[s]

\* Nothing is loaded or begins to.
SameLoads(v, w) ==
    /\ w.loaded = v.loaded /\ w.loading = v.loading /\ w.loadError = v.loadError
    /\ w.out = v.out /\ w.key = v.key /\ w.run = v.run /\ w.data = v.data

\* The dialog stays as it is, and what its panel was rendered with.
SameDialog(v, w) ==
    /\ w.loaded = v.loaded /\ w.seen = v.seen /\ w.dialog = v.dialog /\ w.opened = v.opened
    /\ w.preview = v.preview /\ w.unsure = v.unsure /\ w.sight = v.sight

\* A page that is rendered shows the rows as they are, and begins to load.
LEMMA ShowPanelView ==
    ASSUME Viewed, NEW t \in Tabs, ShowPanel(t)
    PROVE  /\ OnlyIn(t)
           /\ LET w == view'[t]
              IN  /\ w.loaded = TRUE /\ w.seen = db /\ w.dialog = None /\ w.preview = None /\ w.unsure = FALSE
                  /\ w.opened = 0 /\ w.sight = 1
                  /\ w.loading = (screen.panel \in Loads) /\ w.loadError = FALSE /\ w.key = 1 /\ w.run = 1
                  /\ w.out = IF screen.panel \in Loads THEN {[n |-> 1, key |-> 1]} ELSE {}
  <1> DEFINE w == [View(db) EXCEPT !.out = IF screen.panel \in Loads THEN {[n |-> 1, key |-> 1]} ELSE {}]
  <1>1. /\ DOMAIN w = ViewFields
        /\ w.loaded = TRUE /\ w.seen = db /\ w.dialog = None /\ w.preview = None /\ w.unsure = FALSE
        /\ w.opened = 0 /\ w.sight = 1
        /\ w.loading = (screen.panel \in Loads) /\ w.loadError = FALSE /\ w.key = 1 /\ w.run = 1
        /\ w.out = IF screen.panel \in Loads THEN {[n |-> 1, key |-> 1]} ELSE {}
    BY DEF View, ViewFields
  <1>2. view' = [view EXCEPT ![t] = w] /\ screen' = screen
    BY DEF ShowPanel
  <1> HIDE DEF w
  <1> QED
    BY <1>1, <1>2 DEF OnlyIn, Viewed

\* Opening a dialog; that of a close asks for its preview.
LEMMA OpenDialogView ==
    ASSUME Viewed, NEW t \in Tabs, OpenDialog(t)
    PROVE  /\ OnlyIn(t)
           /\ view[t].loaded /\ view[t].dialog = None /\ view[t].opened < screen.opens
           /\ \E d \in Dialogs(view[t]) :
                LET v == view[t]
                    w == view'[t]
                IN  /\ w.loaded = v.loaded /\ w.seen = v.seen /\ w.dialog = d /\ w.opened = v.opened + 1 /\ w.sight = v.sight
                    /\ w.preview = v.preview /\ w.unsure = FALSE
                    /\ w.loading = (v.loading \/ d.do = "close") /\ w.loadError = v.loadError
                    /\ w.out = IF d.do = "close" THEN v.out \cup {[n |-> v.opened + 1]} ELSE v.out
                    /\ w.key = v.key /\ w.run = v.run /\ w.data = v.data
  <1>1. PICK d \in Dialogs(view[t]) :
          view' = [view EXCEPT ![t].dialog = d, ![t].opened = @ + 1,
                      ![t].error = @ /\ d.do \notin {"close", "assign", "override", "default"},
                      ![t].loading = @ \/ d.do = "close", ![t].unsure = FALSE,
                      ![t].out = IF d.do = "close" THEN @ \cup {[n |-> view[t].opened + 1]} ELSE @]
    BY Zenon DEF OpenDialog
  <1>2. view[t].loaded /\ view[t].dialog = None /\ view[t].opened < screen.opens /\ screen' = screen
    BY DEF OpenDialog
  <1>3. LET v == view[t]
            w == view'[t]
        IN  /\ w.loaded = v.loaded /\ w.seen = v.seen /\ w.dialog = d /\ w.opened = v.opened + 1 /\ w.sight = v.sight
            /\ w.preview = v.preview /\ w.unsure = FALSE
            /\ w.loading = (v.loading \/ d.do = "close") /\ w.loadError = v.loadError
            /\ w.out = IF d.do = "close" THEN v.out \cup {[n |-> v.opened + 1]} ELSE v.out
            /\ w.key = v.key /\ w.run = v.run /\ w.data = v.data
    BY ONLY <1>1, Viewed, t \in Tabs, SMTT(60) DEF Viewed, ViewFields
  <1>4. OnlyIn(t)
    BY ONLY <1>1, <1>2, Viewed, t \in Tabs, SMTT(60) DEF Viewed, ViewFields, OnlyIn
  <1> QED
    BY <1>2, <1>3, <1>4

\* A dialog that is dismissed forgets its preview.
LEMMA DismissDialogView ==
    ASSUME Viewed, NEW t \in Tabs, DismissDialog(t)
    PROVE  /\ OnlyIn(t) /\ SameLoads(view[t], view'[t])
           /\ LET v == view[t]
                  w == view'[t]
              IN  w.seen = v.seen /\ w.dialog = None /\ w.opened = v.opened /\ w.preview = None /\ w.sight = v.sight
  BY SMTT(60) DEF DismissDialog, Viewed, OnlyIn, ViewFields, SameLoads

\* A dialog that is cancelled keeps it.
LEMMA CancelDialogView ==
    ASSUME Viewed, NEW t \in Tabs, CancelDialog(t)
    PROVE  /\ OnlyIn(t) /\ SameLoads(view[t], view'[t])
           /\ LET v == view[t]
                  w == view'[t]
              IN  w.seen = v.seen /\ w.dialog = None /\ w.opened = v.opened /\ w.preview = v.preview /\ w.sight = v.sight
  BY SMTT(60) DEF CancelDialog, Viewed, OnlyIn, ViewFields, SameLoads

\* Sending a command changes neither the dialog nor what is loaded.
LEMMA PressView ==
    ASSUME Viewed, NEW t \in Tabs, NEW c \in Calls, Press(t, c)
    PROVE  /\ OnlyIn(t) /\ SameLoads(view[t], view'[t]) /\ SameDialog(view[t], view'[t])
  <1>1. PICK cmd \in Offers(view[t]) :
          view' = [view EXCEPT ![t].busy = IF cmd.do = "remove" THEN @ ELSE cmd, ![t].error = FALSE]
    BY DEF Press
  <1>2. screen' = screen
    BY DEF Press
  <1> QED
    BY ONLY <1>1, <1>2, Viewed, t \in Tabs, SMTT(60) DEF Viewed, OnlyIn, ViewFields, SameLoads, SameDialog

\* Another range is another load.
LEMMA ChooseRangeView ==
    ASSUME Viewed, NEW t \in Tabs, ChooseRange(t)
    PROVE  /\ OnlyIn(t) /\ SameDialog(view[t], view'[t]) /\ screen.panel = "history"
           /\ LET v == view[t]
                  w == view'[t]
              IN  /\ w.loading = TRUE /\ w.loadError = FALSE /\ w.run = v.run + 1
                  /\ w.out = v.out \cup {[n |-> w.run, key |-> w.key]}
  <1>1. PICK k \in screen.entered \ {view[t].key} :
          view' = [view EXCEPT ![t].key = k, ![t].run = @ + 1, ![t].loading = TRUE,
                      ![t].loadError = FALSE, ![t].out = @ \cup {[n |-> view[t].run + 1, key |-> k]}]
    BY Zenon DEF ChooseRange
  <1>2. screen' = screen /\ screen.panel = "history"
    BY DEF ChooseRange
  <1>3. LET v == view[t]
            w == view'[t]
        IN  /\ w.loading = TRUE /\ w.loadError = FALSE /\ w.run = v.run + 1
            /\ w.out = v.out \cup {[n |-> w.run, key |-> w.key]}
    BY ONLY <1>1, Viewed, t \in Tabs, SMTT(60) DEF Viewed, ViewFields
  <1> QED
    BY ONLY <1>1, <1>2, <1>3, Viewed, t \in Tabs, SMTT(60) DEF Viewed, OnlyIn, ViewFields, SameDialog

\* A load that has returned counts if it is the last that was begun.
LEMMA SettleLoadView ==
    ASSUME Viewed, NEW t \in Tabs, SettleLoad(t)
    PROVE  /\ OnlyIn(t) /\ SameDialog(view[t], view'[t]) /\ screen.panel \in Loads
           /\ \E f \in view[t].out, ok \in BOOLEAN :
                LET v == view[t]
                    w == view'[t]
                IN  /\ w.out = v.out \ {f} /\ w.key = v.key /\ w.run = v.run
                    /\ w.data = IF f.n = v.run /\ ok THEN f.key ELSE v.data
                    /\ w.loadError = (v.loadError \/ (f.n = v.run /\ ~ok))
                    /\ w.loading = (v.loading /\ f.n # v.run)
  BY SMTT(60) DEF SettleLoad, Viewed, OnlyIn, ViewFields, SameDialog

\* A preview that has returned counts, with the rows of this moment.
LEMMA SettlePreviewView ==
    ASSUME Viewed, NEW t \in Tabs, SettlePreview(t)
    PROVE  /\ OnlyIn(t) /\ screen.panel = "period" /\ UNCHANGED db
           /\ \E f \in view[t].out, ok \in BOOLEAN :
                LET v == view[t]
                    w == view'[t]
                IN  /\ w.loaded = v.loaded /\ w.seen = v.seen /\ w.dialog = v.dialog /\ w.opened = v.opened
                    /\ w.out = v.out \ {f} /\ w.run = v.run /\ w.loadError = v.loadError /\ w.loading = FALSE
                    /\ w.sight = v.sight
                    /\ w.unsure = (v.unsure \/ ~ok \/ f.n # v.opened)
                    /\ w.preview = IF ok THEN [n |-> f.n, sessions |-> db.sessions] ELSE v.preview
  BY SMTT(60) DEF SettlePreview, Viewed, OnlyIn, ViewFields

\* A load begins.
Begins(v, w) ==
    /\ w.loaded = v.loaded /\ w.loading = TRUE /\ w.loadError = FALSE /\ w.run = v.run + 1
    /\ w.out = v.out \cup {[n |-> w.run, key |-> w.key]}

\* A refresh shows the rows as they are, at the panel's place or in another's.
LEMMA RefreshPanelView ==
    ASSUME Viewed, NEW t \in Tabs, RefreshPanel(t)
    PROVE  /\ OnlyIn(t)
           /\ LET v == view[t]
                  w == view'[t]
              IN  /\ w.opened = v.opened /\ w.seen = db /\ w.sight = v.sight + 1
                  /\ \/ /\ Place(v.seen) = Place(db) /\ SameLoads(v, w)
                        /\ w.dialog = v.dialog /\ w.preview = v.preview /\ w.unsure = v.unsure
                     \/ /\ w.loaded = TRUE /\ w.dialog = None /\ w.preview = None /\ w.out = {} /\ w.loadError = FALSE
                        /\ w.unsure = FALSE
                        /\ w.loading = (screen.panel \in Loads) /\ w.run = 1
  <1> DEFINE v == view[t]
             stays == [v EXCEPT !.seen = db, !.sight = @ + 1, !.refreshing = FALSE]
             again == [View(db) EXCEPT !.sight = v.sight + 1, !.mount = v.mount + 1, !.opened = v.opened]
  <1>1. DOMAIN v = ViewFields
    BY DEF Viewed
  <1>2. /\ DOMAIN stays = ViewFields /\ stays.seen = db /\ stays.opened = v.opened /\ SameLoads(v, stays)
        /\ stays.sight = v.sight + 1
        /\ stays.dialog = v.dialog /\ stays.preview = v.preview /\ stays.unsure = v.unsure
    BY ONLY <1>1, SMTT(30) DEF ViewFields, SameLoads
  <1>3. /\ DOMAIN again = ViewFields /\ again.seen = db /\ again.opened = v.opened /\ again.sight = v.sight + 1
        /\ again.loaded = TRUE /\ again.dialog = None /\ again.preview = None /\ again.out = {}
        /\ again.loadError = FALSE /\ again.unsure = FALSE
        /\ again.loading = (screen.panel \in Loads) /\ again.run = 1
    BY SMTT(30) DEF View, ViewFields
  <1>4. /\ screen' = screen
        /\ view' = [view EXCEPT ![t] = IF Place(v.seen) = Place(db) THEN stays ELSE again]
    BY Zenon DEF RefreshPanel
  <1>5. CASE Place(v.seen) = Place(db)
    <2>1. view' = [view EXCEPT ![t] = stays]
      BY ONLY <1>4, <1>5
    <2> HIDE DEF stays, again
    <2>2. view'[t] = stays /\ OnlyIn(t)
      BY <1>2, <1>4, <2>1 DEF Viewed, OnlyIn
    <2> QED
      BY <1>2, <1>5, <2>2
  <1>6. CASE Place(v.seen) # Place(db)
    <2>1. view' = [view EXCEPT ![t] = again]
      BY ONLY <1>4, <1>6
    <2> HIDE DEF stays, again
    <2>2. view'[t] = again /\ OnlyIn(t)
      BY <1>3, <1>4, <2>1 DEF Viewed, OnlyIn
    <2> QED
      BY <1>3, <2>2
  <1> QED
    BY <1>5, <1>6

\* What a handler does once it has its answer.
LEMMA ReportedView ==
    ASSUME NEW v, DOMAIN v = ViewFields, NEW cmd, NEW ok \in BOOLEAN
    PROVE  LET w == Reported(v, cmd, ok)
           IN  /\ DOMAIN w = ViewFields /\ w.seen = v.seen /\ w.opened = v.opened
               /\ w.preview = v.preview /\ w.unsure = v.unsure /\ w.dialog \in {v.dialog, None}
               /\ w.sight = v.sight
               /\ \/ SameLoads(v, w)
                  \/ Begins(v, w) /\ cmd.do = "request"
  <1> DEFINE done == [v EXCEPT !.busy = None, !.error = @ \/ ~ok, !.dialog = IF ok THEN None ELSE @]
  <1>1. /\ DOMAIN done = ViewFields /\ done.seen = v.seen /\ done.opened = v.opened
        /\ done.preview = v.preview /\ done.unsure = v.unsure /\ done.dialog \in {v.dialog, None}
        /\ done.sight = v.sight
        /\ SameLoads(v, done)
    BY SMTT(30) DEF ViewFields, SameLoads
  <1>2. Reported(v, cmd, ok) = IF ok /\ cmd.do = "request" THEN LoadAgain(done) ELSE done
    BY DEF Reported
  <1> HIDE DEF done
  <1> DEFINE w == LoadAgain(done)
  <1>3. /\ DOMAIN w = ViewFields /\ w.seen = done.seen /\ w.opened = done.opened
        /\ w.preview = done.preview /\ w.unsure = done.unsure /\ w.dialog = done.dialog /\ w.sight = done.sight
        /\ w.loaded = done.loaded /\ w.loading = TRUE /\ w.loadError = FALSE /\ w.run = done.run + 1
        /\ w.key = done.key + 1
    BY ONLY <1>1, SMTT(30) DEF LoadAgain, ViewFields
  <1>4. w.out = done.out \cup {[n |-> done.run + 1, key |-> done.key + 1]}
    BY ONLY <1>1, SMTT(30) DEF LoadAgain, ViewFields
  <1> HIDE DEF w
  <1>5. Begins(v, w)
    BY <1>1, <1>3, <1>4 DEF Begins, SameLoads
  <1> QED
    BY <1>1, <1>2, <1>3, <1>5 DEF w

\* So does the tab, if it still shows the panel that sent the command.
LEMMA SettleCommandView ==
    ASSUME Viewed, NEW c \in Calls, AnswerCommand(c) \/ LoseCommand(c)
    PROVE  LET t == request[c].tab
           IN  /\ Viewed' /\ screen' = screen /\ \A s \in Tabs \ {t} : view'[s] = view[s]
               /\ t \in Tabs =>
                    LET v == view[t]
                        w == view'[t]
                    IN  /\ w.seen = v.seen /\ w.opened = v.opened
                        /\ w.preview = v.preview /\ w.unsure = v.unsure /\ w.dialog \in {v.dialog, None}
                        /\ w.sight = v.sight
                        /\ \/ SameLoads(v, w)
                           \/ Begins(v, w) /\ request[c].cmd.do = "request"
  <1>1. PICK answer : SettleCommand(c, answer)
    BY DEF AnswerCommand, LoseCommand
  <1> DEFINE t == request[c].tab
             cmd == request[c].cmd
             v == view[t]
             ok == answer = "ok"
             simple == [v EXCEPT !.busy = IF cmd.do = "remove" THEN @ ELSE None, !.refreshing = TRUE]
             rest == IF v.mount = request[c].mount THEN Reported(v, cmd, ok) ELSE v
             full == [rest EXCEPT !.refreshing = @ \/ (ok /\ cmd.do # "request")]
             w == IF cmd.do \in Unreported THEN IF answer = "lost" THEN v ELSE simple ELSE full
             Becomes(x) == /\ DOMAIN x = ViewFields /\ x.seen = v.seen /\ x.opened = v.opened
                           /\ x.preview = v.preview /\ x.unsure = v.unsure /\ x.dialog \in {v.dialog, None}
                           /\ x.sight = v.sight
                           /\ \/ SameLoads(v, x)
                              \/ Begins(v, x) /\ cmd.do = "request"
  <1>2. view' = [view EXCEPT ![t] = w] /\ screen' = screen
    BY <1>1 DEF SettleCommand
  <1>3. t \in Tabs => Becomes(w)
    <2> SUFFICES ASSUME t \in Tabs PROVE Becomes(w)
      OBVIOUS
    <2>1. DOMAIN v = ViewFields
      BY DEF Viewed
    <2> HIDE DEF v
    <2>2. Becomes(v)
      BY <2>1 DEF SameLoads
    <2>3. Becomes(simple)
      BY ONLY <2>1, SMTT(30) DEF SameLoads, ViewFields
    <2>4. ok \in BOOLEAN
      OBVIOUS
    <2> HIDE DEF ok
    <2>5. Becomes(rest)
      BY <2>1, <2>2, <2>4, ReportedView
    <2> HIDE DEF rest
    <2>6. /\ full.loaded = rest.loaded /\ full.loading = rest.loading /\ full.loadError = rest.loadError
          /\ full.out = rest.out /\ full.key = rest.key /\ full.run = rest.run /\ full.data = rest.data
          /\ full.seen = rest.seen /\ full.opened = rest.opened /\ full.preview = rest.preview
          /\ full.unsure = rest.unsure /\ full.sight = rest.sight /\ full.dialog = rest.dialog
          /\ DOMAIN full = ViewFields
      BY ONLY <2>5, SMTT(30) DEF ViewFields
    <2> HIDE DEF full
    <2>7. Becomes(full)
      BY <2>5, <2>6 DEF SameLoads, Begins
    <2> QED
      BY <2>2, <2>3, <2>7
  <1> HIDE DEF w
  <1>4. DOMAIN view' = Tabs /\ \A s \in Tabs \ {t} : view'[s] = view[s]
    BY <1>2 DEF Viewed
  <1>5. t \in Tabs => view'[t] = w
    BY <1>2 DEF Viewed
  <1>6. Viewed'
    BY <1>3, <1>4, <1>5 DEF Viewed
  <1> QED
    BY <1>2, <1>3, <1>4, <1>5, <1>6

-----------------------------------------------------------------------------
(* The invariant of the panels: what each keeps of the rows, the dialogs   *)
(* and the loads fits together, and so do the commands that were sent.     *)

Screen == screen \in {Screens[i] : i \in DOMAIN Screens}

\* The rows that a panel is about are what they can be.
DbOk ==
    /\ db \in Database(screen)
    /\ screen.panel = "documents" => IsFiniteSet(db.created)

\* What a dialog is opened for.
DialogsOf(s) ==
    CASE s.panel = "review"     -> [do: {"review"}]
      [] s.panel = "exceptions" -> [do: {"dismiss"}]
      [] OTHER -> Commands(s)

\* The last load that was begun is of the range that is chosen; only its answer counts.
LoadsFit(v) ==
    /\ v.run \in Nat
    /\ \A f \in v.out : f.n \in Nat /\ f.n <= v.run /\ (f.n = v.run => f.key = v.key)
    /\ v.loaded /\ ~v.loading /\ ~v.loadError => v.data = v.key

\* The dialog of a period is for what the page showed; a close's has its preview,
\* while nothing makes that unsure.
PreviewFits(v) ==
    /\ \A f \in v.out : f.n \in 1..v.opened
    /\ v.preview = None \/ v.preview \in [n: 1..screen.opens, sessions: {0, 1}]
    /\ v.dialog # None => v.dialog = [do |-> IF v.seen.closed THEN "reopen" ELSE "close"]
    /\ v.dialog # None /\ ~v.seen.closed /\ ~v.unsure /\ ~v.loading =>
          v.preview # None /\ v.preview.n = v.opened

ViewOk(v) ==
    /\ v.sight \in Nat /\ v.opened \in 0..screen.opens
    /\ v.loaded => v.seen \in Database(screen)
    /\ v.dialog # None => v.loaded /\ v.dialog \in DialogsOf(screen)
    /\ screen.panel \in Loads => LoadsFit(v)
    /\ screen.panel = "period" => PreviewFits(v)

Uploads(q) == q.cmd.do = "upload" /\ q.state \in {"ok", "put", "stored"}

\* A command is one that the panel offers; if what it was offered on is what the rows
\* can be, and meets what the buttons do not ask for, they would have accepted it then.
RequestOk(q) ==
    q # NoRequest =>
        /\ DOMAIN q = {"state", "tab", "cmd", "waiting", "saw", "sight", "mount", "document"}
        /\ q.state \in {"sent", "refused", "ok", "put", "stored"}
        /\ q.tab \in Tabs /\ q.cmd \in Commands(screen) /\ q.sight \in Nat
        /\ q.state \in {"put", "stored"} => q.cmd.do = "upload"
        /\ Uploads(q) => q.document \in Nat
        /\ q.saw \in Database(screen) /\ ~Unasked(q.cmd, q.saw) => Served(q.cmd, q.saw) # {}

\* What changed the rows last would not change them again.
EffectOk ==
    effect # None =>
        /\ effect \in [tab: Tabs, sight: Nat, cmd: Commands(screen)]
        /\ CountsTwice(effect.cmd) \/ Served(effect.cmd, db) \subseteq {db}

PanelInv ==
    /\ Screen /\ DbOk /\ Viewed
    /\ \A t \in Tabs : ViewOk(view[t])
    /\ DOMAIN request = Calls /\ \A c \in Calls : RequestOk(request[c])
    /\ EffectOk

\* What is known of a screen.
LEMMA ScreenFacts ==
    ASSUME Screen
    PROVE  /\ screen.panel \in PanelNames /\ screen.opens \in Nat
           /\ screen.db \in Database(screen) /\ screen.entered \subseteq Enterable(screen)
           /\ screen.others \subseteq Acts(screen)
           /\ screen.panel = "documents" => IsFiniteSet(screen.db.created)
           /\ None \notin Nat /\ None \notin [n: 1..screen.opens, sessions: {0, 1}]
           /\ None \notin Commands(screen)
           /\ None \notin [tab: Tabs, sight: Nat, cmd: Commands(screen)]
  BY ScreensAssumption DEF Screen

\* Uploads, requests and closes are of one panel each.
LEMMA CommandsOfPanel ==
    ASSUME Screen, NEW cmd \in Commands(screen)
    PROVE  /\ cmd.do \in {"upload", "remove"} => screen.panel = "documents"
           /\ cmd.do = "request" => screen.panel = "request"
           /\ cmd.do = "close" => screen.panel = "period"
  BY ScreenFacts DEF Commands, PanelNames

\* A dialog is opened for what the panel can do, and a period's for what was shown.
LEMMA DialogsAre ==
    ASSUME Screen, NEW v, v.seen \in Database(screen), NEW d \in Dialogs(v)
    PROVE  /\ d \in DialogsOf(screen)
           /\ screen.panel = "period" => d = [do |-> IF v.seen.closed THEN "reopen" ELSE "close"]
           /\ screen.panel \in Loads => d.do # "close"
  <1>1. CASE screen.panel = "users"
    <2>1. Dialogs(v) = {[do |-> "status", to |-> ~v.seen.active], [do |-> "reset"]}
      BY <1>1 DEF Dialogs, UserDialogs
    <2>2. (~v.seen.active) \in BOOLEAN
      OBVIOUS
    <2> DEFINE other == ~v.seen.active
    <2> HIDE DEF other
    <2>3. Dialogs(v) = {[do |-> "status", to |-> other], [do |-> "reset"]} /\ other \in BOOLEAN
      BY <2>1, <2>2 DEF other
    <2> QED
      BY <1>1, <2>3 DEF DialogsOf, Commands, Loads
  <1>2. CASE screen.panel = "assignment"
    BY <1>2, ScreenFacts DEF Dialogs, DialogsOf, Commands, AssignDialogs, Enterable, Loads
  <1>3. CASE screen.panel = "override"
    BY <1>3, ScreenFacts DEF Dialogs, DialogsOf, Commands, OverrideDialogs, Enterable, Loads
  <1>4. CASE screen.panel = "default"
    BY <1>4, ScreenFacts DEF Dialogs, DialogsOf, Commands, DefaultDialogs, Enterable, Loads
  <1>6. CASE screen.panel = "documents"
    BY <1>6, ScreenFacts DEF Dialogs, DialogsOf, Commands, UploadDialogs, Enterable, Loads
  <1>5. CASE screen.panel \notin {"users", "assignment", "override", "default", "documents"}
    BY <1>5, ScreenFacts DEF Dialogs, DialogsOf, Commands, PeriodDialogs, ExceptionDialogs, Only, Loads, PanelNames
  <1> QED
    BY <1>1, <1>2, <1>3, <1>4, <1>5, <1>6

\* What a button sends on what its panel shows, the rows would have accepted as they
\* were shown, had they met what the button does not ask for; a close has the preview of
\* this opening.
LEMMA OffersAre ==
    ASSUME Screen, NEW v, ViewOk(v), v.loaded, NEW cmd \in Offers(v)
    PROVE  /\ cmd \in Commands(screen)
           /\ Sight(v) \in Database(screen) /\ ~Unasked(cmd, Sight(v)) => Served(cmd, Sight(v)) # {}
           /\ cmd.do = "close" => v.unsure \/ v.preview = [n |-> v.opened, sessions |-> 0]
  <1>1. v.seen \in Database(screen) /\ (v.dialog # None => v.dialog \in DialogsOf(screen))
    BY DEF ViewOk
  <1>2. CASE screen.panel = "session"
    <2>1. /\ Sight(v) = v.seen /\ v.seen.work \in {"out", "working", "break"}
          /\ v.seen.work # "out" => "punch" \notin v.seen.closed
      BY <1>1, <1>2 DEF Sight, Database, Sessions
    <2>2. cmd \in PunchOffers(v) /\ Served(cmd, v.seen) = PunchServed(cmd.do, v.seen)
      BY <1>2 DEF Offers, Served
    <2>3. \/ v.seen.work = "out" /\ cmd = [do |-> "check-in"]
          \/ v.seen.work = "working" /\ cmd \in {[do |-> "break-start"], [do |-> "check-out"]}
          \/ v.seen.work = "break" /\ cmd = [do |-> "break-end"]
      BY <2>1, <2>2 DEF PunchOffers
    <2>4. Punched(cmd.do, v.seen) # {}
      <3>1. CASE v.seen.work = "out" /\ cmd = [do |-> "check-in"]
        BY <3>1 DEF Punched, Only
      <3>2. CASE v.seen.work = "working" /\ cmd = [do |-> "break-start"]
        BY <3>2 DEF Punched, Only
      <3>3. CASE v.seen.work = "working" /\ cmd = [do |-> "check-out"]
        BY <3>3 DEF Punched, Only
      <3>4. CASE v.seen.work = "break" /\ cmd = [do |-> "break-end"]
        BY <3>4 DEF Punched, Only
      <3> QED
        BY <2>3, <3>1, <3>2, <3>3, <3>4
    <2>5. cmd \in Commands(screen) /\ cmd.do # "close" /\ (cmd.do # "check-in" => v.seen.work # "out")
      BY <1>2, <2>3 DEF Commands
    <2>6. ASSUME ~Unasked(cmd, v.seen)
          PROVE  PunchServed(cmd.do, v.seen) # {}
      <3>1. "role" \notin v.seen.barred /\ \A n \in Punched(cmd.do, v.seen) : Resolves(n)
        BY <1>2, <2>6 DEF Unasked
      <3>2. cmd.do = "check-in" => "status" \notin v.seen.barred /\ "punch" \notin v.seen.closed
        BY <2>6 DEF Unasked
      <3>3. PunchServed(cmd.do, v.seen) = Punched(cmd.do, v.seen)
        BY <2>1, <2>5, <3>1, <3>2 DEF PunchServed
      <3> QED
        BY <2>4, <3>3
    <2> QED
      BY <2>1, <2>2, <2>5, <2>6
  <1>3. CASE screen.panel = "period"
    <2>2. PreviewFits(v) /\ v.seen \in [closed: BOOLEAN, sessions: {0, 1}]
      BY <1>1, <1>3 DEF ViewOk, Database
    <2>7. cmd \in PeriodOffers(v)
      BY <1>3 DEF Offers
    <2>8. v.dialog # None /\ v.dialog.do \in {"close", "reopen"}
      BY <2>2, <2>7 DEF PreviewFits, PeriodOffers
    <2>1. cmd = v.dialog /\ v.dialog # None
          /\ (cmd.do = "close" => ~Blocked(v) /\ ~v.loading)
      BY <2>7, <2>8 DEF PeriodOffers, CloseOffers, Only
    <2>3. cmd = [do |-> IF v.seen.closed THEN "reopen" ELSE "close"]
      BY <2>1, <2>2 DEF PreviewFits
    <2>4. cmd \in Commands(screen)
      BY <1>3, <2>3 DEF Commands
    <2>5. CASE v.seen.closed
      <3>1. Sight(v) = v.seen /\ cmd.do = "reopen"
        BY <1>3, <2>3, <2>5 DEF Sight
      <3>2. Served(cmd, v.seen) = PeriodServed(cmd.do, v.seen)
        BY <1>3 DEF Served
      <3> QED
        BY <2>4, <2>5, <3>1, <3>2 DEF PeriodServed, Only
    <2>6. CASE ~v.seen.closed
      <3>1. cmd.do = "close" /\ ~Blocked(v) /\ ~v.loading
        BY <2>1, <2>3, <2>6
      <3>2. v.preview = None \/ (v.preview \in [n: 1..screen.opens, sessions: {0, 1}] /\ v.preview.sessions = 0)
        BY <2>2, <3>1 DEF PreviewFits, Blocked
      <3>3. v.unsure \/ (v.preview # None /\ v.preview.n = v.opened)
        BY <2>1, <2>2, <2>6, <3>1 DEF PreviewFits
      <3>4. v.unsure \/ v.preview = [n |-> v.opened, sessions |-> 0]
        BY <3>2, <3>3
      <3>5. Sight(v) = [v.seen EXCEPT !.sessions = IF v.preview = None THEN None ELSE v.preview.sessions]
        BY <1>3, <2>6 DEF Sight
      <3>6. Sight(v) \in Database(screen) => Sight(v).sessions = 0 /\ ~Sight(v).closed
        BY <1>3, <2>2, <2>6, <3>2, <3>5, ScreenFacts DEF Database
      <3>7. Served(cmd, Sight(v)) = PeriodServed(cmd.do, Sight(v))
        BY <1>3 DEF Served
      <3> QED
        BY <2>4, <3>1, <3>4, <3>6, <3>7 DEF PeriodServed, Only
    <2> QED
      BY <2>5, <2>6
  <1>4. CASE screen.panel = "review"
    <2>1. Sight(v) = v.seen /\ Served(cmd, v.seen) = ReviewServed(cmd.do, v.seen) /\ cmd \in ReviewOffers(v)
      BY <1>4 DEF Sight, Served, Offers
    <2>2. /\ v.seen.status = "PENDING" /\ ~v.seen.closed /\ v.seen.filed = "other" /\ v.seen.ranked
          /\ cmd \in {[do |-> "approve"], [do |-> "reject"]}
      BY <2>1 DEF ReviewOffers, CanReview
    <2>3. cmd \in Commands(screen)
      BY <1>4, <2>2 DEF Commands
    <2>4. ASSUME ~Unasked(cmd, v.seen)
          PROVE  ReviewServed(cmd.do, v.seen) # {}
      <3>1. ~v.seen.own /\ (cmd.do = "approve" => v.seen.resolves)
        BY <1>4, <2>4 DEF Unasked
      <3> QED
        BY <2>2, <3>1 DEF ReviewServed, Only
    <2> QED
      BY <1>4, <2>1, <2>2, <2>3, <2>4
  <1>5. CASE screen.panel \in {"request", "assignment", "override"}
    <2>1. cmd = v.dialog /\ v.dialog # None
      BY <1>5 DEF Offers, Only
    <2>2. cmd \in Commands(screen) /\ cmd.do \in {"request", "assign", "override"}
      BY <1>1, <1>5, <2>1 DEF DialogsOf, Commands
    <2> QED
      BY <2>2 DEF Unasked
  <1>6. CASE screen.panel \in {"users", "default"}
    <2>1. cmd = v.dialog /\ v.dialog # None
      BY <1>6 DEF Offers, Only
    <2>2. cmd \in Commands(screen) /\ cmd.do # "close"
      BY <1>1, <1>6, <2>1 DEF DialogsOf, Commands
    <2>3. Served(cmd, Sight(v)) = IF screen.panel = "users" THEN UserServed(cmd, Sight(v)) ELSE DefaultServed(cmd, Sight(v))
      BY <1>6 DEF Served
    <2>4. ASSUME ~Unasked(cmd, Sight(v))
          PROVE  Served(cmd, Sight(v)) # {}
      <3>1. CASE screen.panel = "users"
        <4>1. cmd.do = "reset" => ~Sight(v).elsewhere
          BY <2>4 DEF Unasked
        <4> QED
          BY <2>3, <3>1, <4>1 DEF UserServed, Only
      <3>2. CASE screen.panel = "default"
        <4>1. cmd.do = "default"
          BY <2>2, <3>2 DEF Commands
        <4>2. cmd.ordered
          BY <2>4, <4>1 DEF Unasked
        <4> QED
          BY <2>3, <3>2, <4>2 DEF DefaultServed, Only
      <3> QED
        BY <1>6, <3>1, <3>2
    <2> QED
      BY <2>2, <2>4
  <1>7. CASE screen.panel = "exceptions"
    <2>1. Sight(v) = v.seen /\ Served(cmd, v.seen) = ExceptionServed(cmd.do, v.seen)
      BY <1>7 DEF Sight, Served
    <2>2. cmd \in ExceptionOffers(v)
      BY <1>7 DEF Offers
    <2>3. /\ IF v.seen.dismissed THEN cmd = [do |-> "undismiss"] ELSE cmd = v.dialog /\ v.dialog # None
          /\ v.seen.exists
      BY <2>2 DEF ExceptionOffers
    <2>4. Commands(screen) = [do: {"dismiss", "undismiss"}] /\ DialogsOf(screen) = [do: {"dismiss"}]
      BY <1>7 DEF DialogsOf, Commands
    <2>5. cmd \in Commands(screen) /\ cmd.do # "close"
      BY <1>1, <2>3, <2>4
    <2>6. v.seen.dismissed \in BOOLEAN
      BY <1>1, <1>7 DEF Database
    <2>7. ExceptionServed(cmd.do, v.seen) # {}
      <3>1. CASE v.seen.dismissed
        BY <2>3, <3>1 DEF ExceptionServed, Only
      <3>2. CASE ~v.seen.dismissed
        <4>1. cmd.do = "dismiss"
          BY <1>1, <2>3, <2>4, <3>2
        <4> QED
          BY <2>3, <4>1 DEF ExceptionServed, Only
      <3> QED
        BY <3>1, <3>2
    <2> QED
      BY <2>1, <2>5, <2>7
  <1>8. CASE screen.panel = "process"
    <2>1. Sight(v) = v.seen /\ Served(cmd, v.seen) = ProcessServed(v.seen) /\ cmd \in ProcessOffers(v)
      BY <1>8 DEF Sight, Served, Offers
    <2>2. ~v.seen.closed /\ cmd = [do |-> "process"]
      BY <2>1 DEF ProcessOffers, Only
    <2>3. cmd \in Commands(screen)
      BY <1>8, <2>2 DEF Commands
    <2>4. ASSUME ~Unasked(cmd, v.seen)
          PROVE  ProcessServed(v.seen) # {}
      <3>1. ~v.seen.future
        BY <2>2, <2>4 DEF Unasked
      <3> QED
        BY <2>2, <3>1 DEF ProcessServed, Only
    <2> QED
      BY <2>1, <2>2, <2>3, <2>4
  <1>9. CASE screen.panel = "onboarding"
    <2>1. Sight(v) = v.seen /\ Served(cmd, v.seen) = OnboardingServed(cmd, v.seen)
      BY <1>9 DEF Sight, Served
    <2>2. cmd \in OnboardingOffers(v) /\ Commands(screen) = [do: {"start"}] \cup [do: {"toggle"}, task: screen.tasks, to: BOOLEAN]
      BY <1>9 DEF Offers, Commands
    <2>3. \/ ~v.seen.started /\ cmd = [do |-> "start"]
          \/ \E i \in screen.tasks : cmd = [do |-> "toggle", task |-> i, to |-> i \notin v.seen.done]
      BY <2>2 DEF OnboardingOffers
    <2>4. CASE ~v.seen.started /\ cmd = [do |-> "start"]
      BY <2>1, <2>2, <2>4 DEF OnboardingServed, Only
    <2>5. CASE \E i \in screen.tasks : cmd = [do |-> "toggle", task |-> i, to |-> i \notin v.seen.done]
      <3>1. PICK i \in screen.tasks : cmd = [do |-> "toggle", task |-> i, to |-> i \notin v.seen.done]
        BY <2>5
      <3> DEFINE to == i \notin v.seen.done
      <3>2. to \in BOOLEAN
        OBVIOUS
      <3> HIDE DEF to
      <3>3. cmd = [do |-> "toggle", task |-> i, to |-> to]
        BY <3>1 DEF to
      <3>4. cmd \in Commands(screen) /\ cmd.do = "toggle"
        BY <2>2, <3>2, <3>3
      <3>5. OnboardingServed(cmd, v.seen) # {}
        BY <3>4 DEF OnboardingServed
      <3> QED
        BY <2>1, <3>4, <3>5
    <2> QED
      BY <2>3, <2>4, <2>5
  <1>10. CASE screen.panel = "documents"
    <2>1. v.seen.listed \subseteq Nat
      BY <1>1, <1>10 DEF Database
    <2>2. /\ cmd \in DocumentOffers(v)
          /\ Commands(screen) = [do: {"upload"}, allowed: BOOLEAN] \cup [do: {"remove"}, document: Nat]
      BY <1>10 DEF Offers, Commands
    <2>4. DialogsOf(screen) = Commands(screen)
      BY <1>10 DEF DialogsOf
    <2>3. cmd \in Commands(screen)
      BY <1>1, <2>1, <2>2, <2>4 DEF DocumentOffers, Only
    <2>5. Served(cmd, Sight(v)) = DocumentServed(cmd, Sight(v))
      BY <1>10 DEF Served
    <2>6. ASSUME ~Unasked(cmd, Sight(v))
          PROVE  DocumentServed(cmd, Sight(v)) # {}
      <3>1. CASE cmd.do = "remove"
        BY <3>1 DEF DocumentServed
      <3>2. CASE cmd.do = "upload"
        <4>1. cmd.allowed /\ Sight(v).reachable
          BY <2>6, <3>2 DEF Unasked
        <4> QED
          BY <3>2, <4>1 DEF DocumentServed, Only
      <3> QED
        BY <2>2, <2>3, <3>1, <3>2
    <2> QED
      BY <2>2, <2>3, <2>5, <2>6
  <1>11. CASE screen.panel = "policy"
    <2>1. cmd \in PolicyOffers(v) /\ Commands(screen) = [do: {"policy"}, minutes: 0..240]
      BY <1>11 DEF Offers, Commands
    <2>2. cmd \in Commands(screen) /\ cmd.do = "policy"
      BY <2>1 DEF PolicyOffers
    <2>3. Served(cmd, Sight(v)) = PolicyServed(cmd, Sight(v))
      BY <1>11 DEF Served
    <2>4. PolicyServed(cmd, Sight(v)) # {}
      BY DEF PolicyServed
    <2> QED
      BY <2>2, <2>3, <2>4
  <1>12. CASE screen.panel = "history"
    BY <1>12 DEF Offers
  <1> QED
    BY <1>2, <1>3, <1>4, <1>5, <1>6, <1>7, <1>8, <1>9, <1>10, <1>11, <1>12, ScreenFacts DEF PanelNames

\* What was accepted and changed something changes nothing when it is pressed again.
Once(cmd, n) == CountsTwice(cmd) \/ Served(cmd, n) \subseteq {n}

\* What one may have, one has if the condition holds.
LEMMA OnlyOne ==
    ASSUME NEW x, NEW condition, NEW y \in Only(x, condition)
    PROVE  y = x /\ condition
  BY Zenon DEF Only

\* A punch leaves a session that a punch can have left, in which it is not valid again.
LEMMA PunchKeeps ==
    ASSUME Screen, screen.panel = "session", NEW d \in Database(screen), NEW cmd \in Commands(screen),
           NEW n \in Served(cmd, d)
    PROVE  n \in Database(screen) /\ Once(cmd, n)
  <1> DEFINE Day == [work: {"out", "working", "break"}, sessions: Nat, left: Nat,
                     missing: SUBSET {"check-in", "break-end"}, barred: SUBSET {"role", "status"},
                     closed: SUBSET {"page", "punch"}]
  <1>1. /\ d \in Day /\ Database(screen) = Sessions
        /\ cmd \in [do: {"check-in", "check-out", "break-start", "break-end"}]
    BY DEF Database, Commands, Sessions
  <1>2. Served(cmd, n) \subseteq Punched(cmd.do, n) /\ n \in Punched(cmd.do, d) /\ "punch" \notin d.closed
    BY DEF Served, PunchServed
  <1>3. ASSUME n \in Day, n.closed = d.closed
        PROVE  n \in Database(screen)
    BY <1>1, <1>2, <1>3 DEF Sessions
  <1>4. CASE cmd.do = "check-in"
    <2>1. n = [[d EXCEPT !.work = "working"] EXCEPT !.sessions = d.sessions + 1]
      BY <1>2, <1>4 DEF Punched, Only
    <2>2. n.work = "working" /\ n \in Day /\ n.closed = d.closed
      <3> DEFINE k == d.sessions + 1
      <3>1. k \in Nat
        BY <1>1
      <3>2. n = [[d EXCEPT !.work = "working"] EXCEPT !.sessions = k]
        BY <2>1
      <3> HIDE DEF k
      <3> QED
        BY <1>1, <3>1, <3>2
    <2> QED
      BY <1>2, <1>3, <1>4, <2>2 DEF Punched, Only, Once
  <1>5. CASE cmd.do = "check-out"
    <2>1. n = [d EXCEPT !.work = "out"]
      BY <1>2, <1>5 DEF Punched, Only
    <2>2. n.work = "out" /\ n \in Day /\ n.closed = d.closed
      BY <1>1, <2>1
    <2> QED
      BY <1>2, <1>3, <1>5, <2>2 DEF Punched, Only, Once
  <1>6. CASE cmd.do = "break-start"
    <2>1. n = [d EXCEPT !.work = "break"]
      BY <1>2, <1>6 DEF Punched, Only
    <2>2. n.work = "break" /\ n \in Day /\ n.closed = d.closed
      BY <1>1, <2>1
    <2> QED
      BY <1>2, <1>3, <1>6, <2>2 DEF Punched, Only, Once
  <1>7. CASE cmd.do = "break-end"
    <2>1. n = [d EXCEPT !.work = "working"]
      BY <1>2, <1>7 DEF Punched, Only
    <2>2. n.work = "working" /\ n \in Day /\ n.closed = d.closed
      BY <1>1, <2>1
    <2> QED
      BY <1>2, <1>3, <1>7, <2>2 DEF Punched, Only, Once
  <1> QED
    BY <1>1, <1>4, <1>5, <1>6, <1>7

\* A period that was closed is not closed again, nor one reopened that is open.
LEMMA PeriodKeeps ==
    ASSUME Screen, screen.panel = "period", NEW d \in Database(screen), NEW cmd \in Commands(screen),
           NEW n \in Served(cmd, d)
    PROVE  n \in Database(screen) /\ Once(cmd, n)
  <1>1. /\ d \in [closed: BOOLEAN, sessions: {0, 1}] /\ Database(screen) = [closed: BOOLEAN, sessions: {0, 1}]
        /\ cmd \in [do: {"close", "reopen"}]
    BY DEF Database, Commands
  <1>2. Served(cmd, n) = PeriodServed(cmd.do, n) /\ n \in PeriodServed(cmd.do, d)
    BY DEF Served
  <1>3. CASE cmd.do = "close"
    <2>1. n = [d EXCEPT !.closed = TRUE]
      BY <1>2, <1>3 DEF PeriodServed, Only
    <2>2. n.closed = TRUE /\ n \in Database(screen)
      BY <1>1, <2>1
    <2> QED
      BY <1>2, <1>3, <2>2 DEF PeriodServed, Only, Once
  <1>4. CASE cmd.do = "reopen"
    <2>1. n = [d EXCEPT !.closed = FALSE]
      BY <1>2, <1>4 DEF PeriodServed, Only
    <2>2. n.closed = FALSE /\ n \in Database(screen)
      BY <1>1, <2>1
    <2> QED
      BY <1>2, <1>4, <2>2 DEF PeriodServed, Only, Once
  <1> QED
    BY <1>1, <1>3, <1>4

\* A correction is reviewed once, and a missing punch has one that lives.
LEMMA CorrectionKeeps ==
    ASSUME Screen, screen.panel \in {"review", "request"}, NEW d \in Database(screen),
           NEW cmd \in Commands(screen), NEW n \in Served(cmd, d)
    PROVE  n \in Database(screen) /\ Once(cmd, n)
  <1>1. CASE screen.panel = "review"
    <2>1. d \in Corrections /\ Database(screen) = Corrections
      BY <1>1 DEF Database
    <2>2. Served(cmd, n) = ReviewServed(cmd.do, n) /\ n \in ReviewServed(cmd.do, d)
      BY <1>1 DEF Served
    <2>3. n = [d EXCEPT !.status = IF cmd.do = "approve" THEN "APPROVED" ELSE "REJECTED"]
      BY <2>2 DEF ReviewServed, Only
    <2>4. n.status \in {"APPROVED", "REJECTED"} /\ n \in Database(screen)
      BY <2>1, <2>3 DEF Corrections
    <2> QED
      BY <2>2, <2>4 DEF ReviewServed, Only, Once
  <1>2. CASE screen.panel = "request"
    <2>1. d \in [corrections: Nat] /\ Database(screen) = [corrections: Nat]
      BY <1>2 DEF Database
    <2>2. Served(cmd, n) = RequestServed(n) /\ n \in RequestServed(d)
      BY <1>2 DEF Served
    <2>3. n = [d EXCEPT !.corrections = d.corrections + 1] /\ d.corrections = 0
      BY <2>2 DEF RequestServed, Only
    <2>4. n.corrections = 1 /\ n \in Database(screen)
      BY <2>1, <2>3
    <2> QED
      BY <2>2, <2>4 DEF RequestServed, Only, Once
  <1> QED
    BY <1>1, <1>2

\* The status of a user, and what is set or dismissed, are the same a second time.
LEMMA SettingKeeps ==
    ASSUME Screen, screen.panel \in {"users", "exceptions", "process", "default", "policy"},
           NEW d \in Database(screen), NEW cmd \in Commands(screen), NEW n \in Served(cmd, d)
    PROVE  n \in Database(screen) /\ Once(cmd, n)
  <1>1. CASE screen.panel = "users"
    <2>1. /\ d \in [active: BOOLEAN, password: Nat, elsewhere: BOOLEAN]
          /\ Database(screen) = [active: BOOLEAN, password: Nat, elsewhere: BOOLEAN]
          /\ cmd \in [do: {"reset"}] \cup [do: {"status"}, to: BOOLEAN]
      BY <1>1 DEF Database, Commands
    <2>2. Served(cmd, n) = UserServed(cmd, n) /\ n \in UserServed(cmd, d)
      BY <1>1 DEF Served
    <2>3. CASE cmd.do = "reset"
      <3>1. n = [d EXCEPT !.password = d.password + 1]
        BY <2>2, <2>3 DEF UserServed, Only
      <3> QED
        BY <2>1, <2>3, <3>1 DEF Once, CountsTwice
    <2>4. CASE cmd.do # "reset"
      <3>1. n = [d EXCEPT !.active = cmd.to] /\ Served(cmd, n) = {[n EXCEPT !.active = cmd.to]}
        BY <2>2, <2>4 DEF UserServed
      <3>2. cmd.to \in BOOLEAN
        BY <2>1, <2>4
      <3> DEFINE to == cmd.to
      <3> HIDE DEF to
      <3>3. n = [d EXCEPT !.active = to] /\ Served(cmd, n) = {[n EXCEPT !.active = to]} /\ to \in BOOLEAN
        BY <3>1, <3>2 DEF to
      <3>4. [n EXCEPT !.active = to] = n /\ n \in Database(screen)
        BY <2>1, <3>3
      <3> QED
        BY <3>3, <3>4 DEF Once
    <2> QED
      BY <2>3, <2>4
  <1>2. CASE screen.panel = "exceptions"
    <2>1. /\ d \in [exists: BOOLEAN, dismissed: BOOLEAN]
          /\ Database(screen) = [exists: BOOLEAN, dismissed: BOOLEAN]
      BY <1>2 DEF Database
    <2>2. Served(cmd, n) = ExceptionServed(cmd.do, n) /\ n \in ExceptionServed(cmd.do, d)
      BY <1>2 DEF Served
    <2>3. CASE cmd.do = "dismiss"
      <3>1. n = [d EXCEPT !.dismissed = TRUE] /\ Served(cmd, n) \subseteq {[n EXCEPT !.dismissed = TRUE]}
        BY <2>2, <2>3 DEF ExceptionServed, Only
      <3>2. [n EXCEPT !.dismissed = TRUE] = n /\ n \in Database(screen)
        BY <2>1, <3>1
      <3> QED
        BY <3>1, <3>2 DEF Once
    <2>4. CASE cmd.do # "dismiss"
      <3>1. n = [d EXCEPT !.dismissed = FALSE]
        BY <2>2, <2>4 DEF ExceptionServed, Only
      <3>2. n.dismissed = FALSE /\ n \in Database(screen)
        BY <2>1, <3>1
      <3> QED
        BY <2>2, <2>4, <3>2 DEF ExceptionServed, Only, Once
    <2> QED
      BY <2>3, <2>4
  <1>3. CASE screen.panel = "process"
    <2>1. /\ d \in [processed: BOOLEAN, closed: BOOLEAN, future: BOOLEAN]
          /\ Database(screen) = [processed: BOOLEAN, closed: BOOLEAN, future: BOOLEAN]
      BY <1>3 DEF Database
    <2>2. Served(cmd, n) = ProcessServed(n) /\ n \in ProcessServed(d)
      BY <1>3 DEF Served
    <2>3. n = [d EXCEPT !.processed = TRUE]
      BY <2>2 DEF ProcessServed, Only
    <2>4. [n EXCEPT !.processed = TRUE] = n /\ n \in Database(screen)
      BY <2>1, <2>3
    <2> QED
      BY <2>2, <2>4 DEF ProcessServed, Only, Once
  <1>4. CASE screen.panel = "default"
    <2>1. /\ d \in [days: SUBSET (0..6)] /\ Database(screen) = [days: SUBSET (0..6)]
          /\ cmd.days \in SUBSET (0..6)
      BY <1>4 DEF Database, Commands
    <2>2. Served(cmd, n) \subseteq {[n EXCEPT !.days = cmd.days]} /\ n = [d EXCEPT !.days = cmd.days]
      BY <1>4 DEF Served, DefaultServed, Only
    <2>3. [n EXCEPT !.days = cmd.days] = n /\ n \in Database(screen)
      BY <2>1, <2>2
    <2> QED
      BY <2>2, <2>3 DEF Once
  <1>5. CASE screen.panel = "policy"
    <2>1. /\ d \in [minutes: 0..240] /\ Database(screen) = [minutes: 0..240] /\ cmd.minutes \in 0..240
      BY <1>5 DEF Database, Commands
    <2>2. Served(cmd, n) = {[n EXCEPT !.minutes = cmd.minutes]} /\ n = [d EXCEPT !.minutes = cmd.minutes]
      BY <1>5 DEF Served, PolicyServed
    <2>3. [n EXCEPT !.minutes = cmd.minutes] = n /\ n \in Database(screen)
      BY <2>1, <2>2
    <2> QED
      BY <2>2, <2>3 DEF Once
  <1> QED
    BY <1>1, <1>2, <1>3, <1>4, <1>5

\* Onboarding is started once, and a task that was ticked stays so.
LEMMA OnboardingKeeps ==
    ASSUME Screen, screen.panel = "onboarding", NEW d \in Database(screen), NEW cmd \in Commands(screen),
           NEW n \in Served(cmd, d)
    PROVE  n \in Database(screen) /\ Once(cmd, n)
  <1>1. /\ d \in [started: BOOLEAN, done: SUBSET screen.tasks]
        /\ Database(screen) = [started: BOOLEAN, done: SUBSET screen.tasks]
        /\ cmd \in [do: {"start"}] \cup [do: {"toggle"}, task: screen.tasks, to: BOOLEAN]
    BY DEF Database, Commands
  <1>2. Served(cmd, n) = OnboardingServed(cmd, n) /\ n \in OnboardingServed(cmd, d)
    BY DEF Served
  <1>3. CASE cmd.do = "start"
    <2>1. n = [d EXCEPT !.started = TRUE] /\ Served(cmd, n) = {[n EXCEPT !.started = TRUE]}
      BY <1>2, <1>3 DEF OnboardingServed
    <2>2. [n EXCEPT !.started = TRUE] = n /\ n \in Database(screen)
      BY <1>1, <2>1
    <2> QED
      BY <2>1, <2>2 DEF Once
  <1>4. CASE cmd.do # "start"
    <2> DEFINE Ticked(done) == IF cmd.to THEN done \cup {cmd.task} ELSE done \ {cmd.task}
    <2>1. n = [d EXCEPT !.done = Ticked(d.done)] /\ Served(cmd, n) = {[n EXCEPT !.done = Ticked(n.done)]}
      BY <1>2, <1>4 DEF OnboardingServed
    <2>2. cmd.task \in screen.tasks
      BY <1>1, <1>4
    <2>3. Ticked(d.done) \subseteq screen.tasks /\ Ticked(Ticked(d.done)) = Ticked(d.done)
      BY <1>1, <2>2
    <2> DEFINE ticked == Ticked(d.done)
    <2>4. n = [d EXCEPT !.done = ticked] /\ ticked \subseteq screen.tasks /\ Ticked(ticked) = ticked
      BY <2>1, <2>3
    <2> HIDE DEF ticked, Ticked
    <2>5. n \in Database(screen) /\ n.done = ticked
      BY <1>1, <2>4
    <2>6. [n EXCEPT !.done = Ticked(n.done)] = n
      BY <1>1, <2>4, <2>5
    <2> QED
      BY <2>1, <2>5, <2>6 DEF Once
  <1> QED
    BY <1>3, <1>4

\* A document that was removed stays so.
LEMMA DocumentKeeps ==
    ASSUME Screen, screen.panel = "documents", NEW d \in Database(screen), IsFiniteSet(d.created),
           NEW cmd \in Commands(screen), NEW n \in Served(cmd, d)
    PROVE  n \in Database(screen) /\ IsFiniteSet(n.created) /\ Once(cmd, n)
  <1>1. /\ d \in [created: SUBSET Nat, listed: SUBSET Nat, stored: SUBSET Nat, reachable: BOOLEAN]
        /\ Database(screen) = [created: SUBSET Nat, listed: SUBSET Nat, stored: SUBSET Nat, reachable: BOOLEAN]
        /\ cmd \in [do: {"upload"}, allowed: BOOLEAN] \cup [do: {"remove"}, document: Nat]
    BY DEF Database, Commands
  <1>2. Served(cmd, n) = DocumentServed(cmd, n) /\ n \in DocumentServed(cmd, d)
    BY DEF Served
  <1>3. CASE cmd.do = "remove"
    <2>1. n = [d EXCEPT !.listed = d.listed \ {cmd.document}]
          /\ Served(cmd, n) = {[n EXCEPT !.listed = n.listed \ {cmd.document}]}
      BY <1>2, <1>3 DEF DocumentServed
    <2> DEFINE left == d.listed \ {cmd.document}
    <2>2. n = [d EXCEPT !.listed = left] /\ left \subseteq Nat /\ left \ {cmd.document} = left
      BY <1>1, <2>1
    <2> HIDE DEF left
    <2>3. n \in Database(screen) /\ n.listed = left /\ n.created = d.created
      BY <1>1, <2>2
    <2>4. [n EXCEPT !.listed = n.listed \ {cmd.document}] = n
      BY <1>1, <2>2, <2>3
    <2> QED
      BY <2>1, <2>3, <2>4 DEF Once
  <1>4. CASE cmd.do # "remove"
    <2> DEFINE new == Cardinality(d.created) + 1
               created == d.created \cup {new}
               listed == d.listed \cup {new}
    <2>1. n = [[d EXCEPT !.created = created] EXCEPT !.listed = listed]
      BY <1>2, <1>4 DEF DocumentServed, Only
    <2>2. new \in Nat
      <3>1. Cardinality(d.created) \in Nat
        BY FS_CardinalityType
      <3> QED
        BY <3>1
    <2>3. created \subseteq Nat /\ listed \subseteq Nat
      BY <1>1, <2>2
    <2>4. IsFiniteSet(created)
      BY FS_AddElement
    <2> HIDE DEF created, listed
    <2>5. n \in Database(screen) /\ n.created = created
      BY <1>1, <2>1, <2>3
    <2>6. cmd.do = "upload"
      BY <1>1, <1>4
    <2> QED
      BY <2>4, <2>5, <2>6 DEF Once, CountsTwice
  <1> QED
    BY <1>3, <1>4

\* The rows of a sequence of them.
LEMMA RowsAre ==
    ASSUME NEW S, NEW s \in Seq(S)
    PROVE  \A i \in DOMAIN s : s[i] \in S
  OBVIOUS

\* An assignment that may not overlap is not made twice.
LEMMA AssignKeeps ==
    ASSUME Screen, screen.panel = "assignment", NEW d \in Database(screen), NEW cmd \in Commands(screen),
           NEW n \in Served(cmd, d)
    PROVE  n \in Database(screen) /\ Once(cmd, n)
  <1>1. /\ d \in [rows: Seq([from: Nat, to: Nat])] /\ Database(screen) = [rows: Seq([from: Nat, to: Nat])]
        /\ cmd \in [do: {"assign"}, from: Nat, to: Nat, overlap: BOOLEAN]
    BY DEF Database, Commands
  <1> DEFINE closing == {i \in OpenRow(d) : d.rows[i].from < cmd.from}
             Closed(i) == IF i \in closing THEN [d.rows[i] EXCEPT !.to = cmd.from - 1] ELSE d.rows[i]
             closed == [i \in DOMAIN d.rows |-> Closed(i)]
             last == [from |-> cmd.from, to |-> cmd.to]
  <1>2. n = [d EXCEPT !.rows = Append(closed, last)] /\ cmd.from <= cmd.to
    <2>1. n \in AssignServed(cmd, d)
      BY DEF Served
    <2> QED
      BY <2>1, OnlyOne DEF AssignServed
  <1>3. \A i \in DOMAIN d.rows : d.rows[i] \in [from: Nat, to: Nat]
    <2>1. d.rows \in Seq([from: Nat, to: Nat])
      BY <1>1
    <2> QED
      BY <2>1, RowsAre
  <1>4. \A i \in DOMAIN d.rows : Closed(i) \in [from: Nat, to: Nat]
    <2> SUFFICES ASSUME NEW i \in DOMAIN d.rows PROVE Closed(i) \in [from: Nat, to: Nat]
      OBVIOUS
    <2>1. CASE i \in closing
      <3>1. cmd.from - 1 \in Nat
        BY <1>1, <1>3, <2>1
      <3> QED
        BY <1>3, <2>1, <3>1
    <2>2. CASE i \notin closing
      BY <1>3, <2>2
    <2> QED
      BY <2>1, <2>2
  <1>5. last \in [from: Nat, to: Nat]
    BY <1>1
  <1> HIDE DEF Closed, last
  <1>6. closed \in Seq([from: Nat, to: Nat]) /\ Len(closed) = Len(d.rows)
    <2>1. DOMAIN d.rows = 1..Len(d.rows) /\ Len(d.rows) \in Nat
      BY <1>1
    <2> QED
      BY <1>4, <2>1
  <1> HIDE DEF closed
  <1> DEFINE made == Append(closed, last)
  <1>7. made \in Seq([from: Nat, to: Nat]) /\ \E k \in DOMAIN made : made[k] = last
    <2>1. made \in Seq([from: Nat, to: Nat]) /\ Len(closed) + 1 \in DOMAIN made /\ made[Len(closed) + 1] = last
      BY <1>5, <1>6
    <2> QED
      BY <2>1
  <1>8. n = [d EXCEPT !.rows = made]
    BY <1>2
  <1> HIDE DEF made
  <1>9. n \in Database(screen) /\ n.rows = made
    BY <1>1, <1>7, <1>8
  <1>10. CASE cmd.overlap
    BY <1>1, <1>9, <1>10 DEF Once, CountsTwice
  <1>11. CASE ~cmd.overlap
    <2> DEFINE closingN == {i \in OpenRow(n) : n.rows[i].from < cmd.from}
               overlappingN == {i \in DOMAIN n.rows : n.rows[i].from <= cmd.to /\ cmd.from <= n.rows[i].to}
    <2>1. PICK k \in DOMAIN made : made[k] = last
      BY <1>7
    <2>2. k \in overlappingN /\ k \notin closingN
      BY <1>1, <1>2, <1>9, <2>1 DEF last
    <2>3. \A m \in AssignServed(cmd, n) : cmd.overlap \/ overlappingN \subseteq closingN
      BY OnlyOne DEF AssignServed
    <2>4. AssignServed(cmd, n) = {}
      BY <1>11, <2>2, <2>3
    <2> QED
      BY <1>9, <2>4 DEF Once, Served
  <1> QED
    BY <1>10, <1>11

\* Nor is an override that has a date.
LEMMA OverrideKeeps ==
    ASSUME Screen, screen.panel = "override", NEW d \in Database(screen), NEW cmd \in Commands(screen),
           NEW n \in Served(cmd, d)
    PROVE  n \in Database(screen) /\ Once(cmd, n)
  <1>1. /\ d \in [rows: Seq([from: Nat, to: Nat])] /\ Database(screen) = [rows: Seq([from: Nat, to: Nat])]
        /\ cmd \in [do: {"override"}, from: Nat]
    BY DEF Database, Commands
  <1> DEFINE starts == IF cmd.from = Blank THEN Today ELSE cmd.from
             Closed(i) == IF i \in OpenRow(d) THEN [d.rows[i] EXCEPT !.to = starts - 1] ELSE d.rows[i]
             closed == [i \in DOMAIN d.rows |-> Closed(i)]
             last == [from |-> cmd.from, to |-> Forever]
  <1>2. n = [d EXCEPT !.rows = Append(closed, last)] /\ \A i \in OpenRow(d) : d.rows[i].from < starts
    <2>1. n \in OverrideServed(cmd, d)
      BY DEF Served
    <2> QED
      BY <2>1, OnlyOne DEF OverrideServed
  <1>3. \A i \in DOMAIN d.rows : d.rows[i] \in [from: Nat, to: Nat]
    <2>1. d.rows \in Seq([from: Nat, to: Nat])
      BY <1>1
    <2> QED
      BY <2>1, RowsAre
  <1>4. starts \in Nat /\ Forever \in Nat
    BY <1>1, ScreensAssumption DEF Forever
  <1>5. \A i \in DOMAIN d.rows : Closed(i) \in [from: Nat, to: Nat]
    <2> SUFFICES ASSUME NEW i \in DOMAIN d.rows PROVE Closed(i) \in [from: Nat, to: Nat]
      OBVIOUS
    <2>1. CASE i \in OpenRow(d)
      <3>1. starts - 1 \in Nat
        BY <1>2, <1>3, <1>4, <2>1
      <3> QED
        BY <1>3, <2>1, <3>1
    <2>2. CASE i \notin OpenRow(d)
      BY <1>3, <2>2
    <2> QED
      BY <2>1, <2>2
  <1>6. last \in [from: Nat, to: Nat]
    BY <1>1, <1>4
  <1> HIDE DEF Closed, last
  <1>7. closed \in Seq([from: Nat, to: Nat])
    <2>1. DOMAIN d.rows = 1..Len(d.rows) /\ Len(d.rows) \in Nat
      BY <1>1
    <2> QED
      BY <1>5, <2>1
  <1> HIDE DEF closed
  <1> DEFINE made == Append(closed, last)
  <1>8. made \in Seq([from: Nat, to: Nat]) /\ \E k \in DOMAIN made : made[k] = last
    <2>1. made \in Seq([from: Nat, to: Nat]) /\ Len(closed) + 1 \in DOMAIN made /\ made[Len(closed) + 1] = last
      BY <1>6, <1>7
    <2> QED
      BY <2>1
  <1>9. n = [d EXCEPT !.rows = made]
    BY <1>2
  <1> HIDE DEF made
  <1>10. n \in Database(screen) /\ n.rows = made
    BY <1>1, <1>8, <1>9
  <1>11. CASE cmd.from = Blank
    BY <1>1, <1>10, <1>11 DEF Once, CountsTwice
  <1>12. CASE cmd.from # Blank
    <2>1. PICK k \in DOMAIN made : made[k] = last
      BY <1>8
    <2>2. k \in OpenRow(n) /\ ~(n.rows[k].from < starts)
      BY <1>1, <1>10, <1>12, <2>1 DEF last, OpenRow
    <2>3. \A m \in OverrideServed(cmd, n) : \A i \in OpenRow(n) : n.rows[i].from < starts
      BY OnlyOne DEF OverrideServed
    <2>4. OverrideServed(cmd, n) = {}
      BY <2>2, <2>3
    <2> QED
      BY <1>10, <2>4 DEF Once, Served
  <1> QED
    BY <1>11, <1>12

\* What is served leaves rows that can be, and would change nothing a second time.
LEMMA ServedKeeps ==
    ASSUME Screen, DbOk, NEW cmd \in Commands(screen), NEW n \in Served(cmd, db)
    PROVE  /\ n \in Database(screen) /\ (screen.panel = "documents" => IsFiniteSet(n.created))
           /\ Once(cmd, n)
  <1>1. screen.panel # "history"
    BY DEF Commands
  <1>2. screen.panel \in PanelNames
    BY ScreenFacts
  <1> QED
    BY <1>1, <1>2, PunchKeeps, PeriodKeeps, CorrectionKeeps, SettingKeeps, OnboardingKeeps, DocumentKeeps,
       AssignKeeps, OverrideKeeps DEF DbOk, PanelNames

-----------------------------------------------------------------------------
(* The invariant is kept: first what the tabs show, step by step.          *)

Views == Viewed /\ \A t \in Tabs : ViewOk(view[t])

\* A tab that is left alone is as right as it was.
LEMMA ViewsOnlyIn ==
    ASSUME PanelInv, NEW t \in Tabs, OnlyIn(t), ViewOk(view[t])'
    PROVE  Views'
  <1>1. \A s \in Tabs \ {t} : ViewOk(view[s])'
    BY DEF OnlyIn, PanelInv, ViewOk, LoadsFit, PreviewFits
  <1> QED
    BY <1>1 DEF OnlyIn, Views

\* The same load, or none.
LEMMA SameLoadsFit ==
    ASSUME NEW v, NEW w, LoadsFit(v), SameLoads(v, w)
    PROVE  LoadsFit(w)
  BY DEF LoadsFit, SameLoads

\* A load that begins is the last.
LEMMA BegunLoadFits ==
    ASSUME NEW v, NEW w, LoadsFit(v), w.loading = TRUE, w.run = v.run + 1,
           w.out = v.out \cup {[n |-> w.run, key |-> w.key]}
    PROVE  LoadsFit(w)
  BY DEF LoadsFit

\* Rendering a page.
LEMMA ShowPanelOk ==
    ASSUME PanelInv, NEW t \in Tabs, ShowPanel(t)
    PROVE  Views'
  <1> DEFINE w == view'[t]
  <1>1. /\ OnlyIn(t)
        /\ w.loaded = TRUE /\ w.seen = db /\ w.dialog = None /\ w.preview = None /\ w.opened = 0 /\ w.sight = 1
        /\ w.loading = (screen.panel \in Loads) /\ w.loadError = FALSE /\ w.key = 1 /\ w.run = 1
        /\ w.out = IF screen.panel \in Loads THEN {[n |-> 1, key |-> 1]} ELSE {}
    BY ShowPanelView DEF PanelInv
  <1>2. screen' = screen /\ screen.opens \in Nat
    BY <1>1, ScreenFacts DEF OnlyIn, PanelInv
  <1> HIDE DEF w
  <1>3. ASSUME screen.panel \in Loads PROVE LoadsFit(w)
    <2>1. w.loading = TRUE /\ w.out = {[n |-> 1, key |-> 1]}
      BY <1>1, <1>3
    <2> QED
      BY <1>1, <2>1 DEF LoadsFit
  <1>4. screen.panel = "period" => PreviewFits(w)
    BY <1>1 DEF PreviewFits, Loads
  <1>5. ViewOk(w)
    BY <1>1, <1>2, <1>3, <1>4 DEF ViewOk, PanelInv, DbOk
  <1>6. ViewOk(view[t])'
    BY <1>2, <1>5 DEF w, ViewOk, PreviewFits, LoadsFit
  <1> QED
    BY <1>1, <1>6, ViewsOnlyIn

\* Opening a dialog.
LEMMA OpenDialogOk ==
    ASSUME PanelInv, NEW t \in Tabs, OpenDialog(t)
    PROVE  Views'
  <1> DEFINE v == view[t]
             w == view'[t]
  <1>1. OnlyIn(t) /\ v.loaded /\ v.dialog = None /\ v.opened < screen.opens
    BY OpenDialogView DEF PanelInv
  <1>2. PICK d \in Dialogs(v) :
           /\ w.loaded = v.loaded /\ w.seen = v.seen /\ w.dialog = d /\ w.opened = v.opened + 1
           /\ w.sight = v.sight /\ w.preview = v.preview /\ w.unsure = FALSE
           /\ w.loading = (v.loading \/ d.do = "close") /\ w.loadError = v.loadError
           /\ w.out = IF d.do = "close" THEN v.out \cup {[n |-> v.opened + 1]} ELSE v.out
           /\ w.key = v.key /\ w.run = v.run /\ w.data = v.data
    BY OpenDialogView DEF PanelInv
  <1>3. ViewOk(v) /\ Screen /\ screen' = screen /\ screen.opens \in Nat /\ v.seen \in Database(screen)
    BY <1>1, ScreenFacts DEF OnlyIn, PanelInv, ViewOk
  <1> HIDE DEF v, w
  <1>4. /\ d \in DialogsOf(screen)
        /\ screen.panel = "period" => d = [do |-> IF v.seen.closed THEN "reopen" ELSE "close"]
        /\ screen.panel \in Loads => d.do # "close"
    BY <1>3, DialogsAre
  <1>5. screen.panel \in Loads => LoadsFit(w)
    BY <1>2, <1>3, <1>4 DEF LoadsFit, ViewOk
  <1>6. ASSUME screen.panel = "period" PROVE PreviewFits(w)
    <2>1. PreviewFits(v) /\ v.opened \in Nat
      BY <1>3, <1>6 DEF ViewOk
    <2>2. \A f \in w.out : f.n \in 1..w.opened
      BY <1>2, <2>1 DEF PreviewFits
    <2>3. ASSUME ~v.seen.closed PROVE w.loading
      <3>1. d = [do |-> "close"]
        BY <1>4, <1>6, <2>3
      <3>2. d.do = "close"
        BY <3>1
      <3>3. (v.loading \/ d.do = "close") = TRUE
        BY Zenon, <3>2
      <3> QED
        BY Zenon, <1>2, <3>3
    <2> QED
      BY <1>2, <1>4, <1>6, <2>1, <2>2, <2>3 DEF PreviewFits
  <1>7. ViewOk(w)
    BY <1>1, <1>2, <1>3, <1>4, <1>5, <1>6 DEF ViewOk
  <1>8. ViewOk(view[t])'
    BY <1>3, <1>7 DEF w, ViewOk, PreviewFits, LoadsFit
  <1> QED
    BY <1>1, <1>8, ViewsOnlyIn

\* Closing it.
LEMMA CloseDialogOk ==
    ASSUME PanelInv, NEW t \in Tabs, DismissDialog(t) \/ CancelDialog(t)
    PROVE  Views'
  <1> DEFINE v == view[t]
             w == view'[t]
  <1>1. /\ OnlyIn(t) /\ SameLoads(v, w)
        /\ w.seen = v.seen /\ w.dialog = None /\ w.opened = v.opened /\ w.preview \in {v.preview, None}
        /\ w.sight = v.sight
    BY DismissDialogView, CancelDialogView DEF PanelInv
  <1>2. ViewOk(v) /\ screen' = screen
    BY <1>1 DEF OnlyIn, PanelInv
  <1> HIDE DEF v, w
  <1>3. screen.panel \in Loads => LoadsFit(w)
    BY <1>1, <1>2, SameLoadsFit DEF ViewOk
  <1>4. screen.panel = "period" => PreviewFits(w)
    BY <1>1, <1>2 DEF ViewOk, PreviewFits, SameLoads
  <1>5. ViewOk(w)
    BY <1>1, <1>2, <1>3, <1>4 DEF ViewOk, SameLoads
  <1>6. ViewOk(view[t])'
    BY <1>2, <1>5 DEF w, ViewOk, PreviewFits, LoadsFit
  <1> QED
    BY <1>1, <1>6, ViewsOnlyIn

\* Sending a command.
LEMMA PressViews ==
    ASSUME PanelInv, NEW t \in Tabs, NEW c \in Calls, Press(t, c)
    PROVE  Views'
  <1> DEFINE v == view[t]
             w == view'[t]
  <1>1. OnlyIn(t) /\ SameLoads(v, w) /\ SameDialog(v, w)
    BY PressView DEF PanelInv
  <1>2. ViewOk(v) /\ screen' = screen
    BY <1>1 DEF OnlyIn, PanelInv
  <1> HIDE DEF v, w
  <1>3. screen.panel \in Loads => LoadsFit(w)
    BY <1>1, <1>2, SameLoadsFit DEF ViewOk
  <1>4. screen.panel = "period" => PreviewFits(w)
    BY <1>1, <1>2 DEF ViewOk, PreviewFits, SameLoads, SameDialog
  <1>5. ViewOk(w)
    BY <1>1, <1>2, <1>3, <1>4 DEF ViewOk, SameDialog
  <1>6. ViewOk(view[t])'
    BY <1>2, <1>5 DEF w, ViewOk, PreviewFits, LoadsFit
  <1> QED
    BY <1>1, <1>6, ViewsOnlyIn

\* Choosing another range.
LEMMA ChooseRangeOk ==
    ASSUME PanelInv, NEW t \in Tabs, ChooseRange(t)
    PROVE  Views'
  <1> DEFINE v == view[t]
             w == view'[t]
  <1>1. /\ OnlyIn(t) /\ SameDialog(v, w) /\ screen.panel = "history"
        /\ w.loading = TRUE /\ w.loadError = FALSE /\ w.run = v.run + 1
        /\ w.out = v.out \cup {[n |-> w.run, key |-> w.key]}
    BY ChooseRangeView DEF PanelInv
  <1>2. ViewOk(v) /\ screen' = screen
    BY <1>1 DEF OnlyIn, PanelInv
  <1> HIDE DEF v, w
  <1>3. LoadsFit(w)
    BY <1>1, <1>2, BegunLoadFits DEF ViewOk, Loads
  <1>4. ViewOk(w)
    BY <1>1, <1>2, <1>3 DEF ViewOk, SameDialog
  <1>5. ViewOk(view[t])'
    BY <1>2, <1>4 DEF w, ViewOk, PreviewFits, LoadsFit
  <1> QED
    BY <1>1, <1>5, ViewsOnlyIn

\* The answer to a load.
LEMMA SettleLoadOk ==
    ASSUME PanelInv, NEW t \in Tabs, SettleLoad(t)
    PROVE  Views'
  <1> DEFINE v == view[t]
             w == view'[t]
  <1>1. OnlyIn(t) /\ SameDialog(v, w) /\ screen.panel \in Loads
    BY SettleLoadView DEF PanelInv
  <1>2. PICK f \in v.out, ok \in BOOLEAN :
           /\ w.out = v.out \ {f} /\ w.key = v.key /\ w.run = v.run
           /\ w.data = IF f.n = v.run /\ ok THEN f.key ELSE v.data
           /\ w.loadError = (v.loadError \/ (f.n = v.run /\ ~ok))
           /\ w.loading = (v.loading /\ f.n # v.run)
    BY SettleLoadView DEF PanelInv
  <1>3. ViewOk(v) /\ screen' = screen
    BY <1>1 DEF OnlyIn, PanelInv
  <1> HIDE DEF v, w
  <1>4. LoadsFit(v) /\ w.loaded = v.loaded
    BY <1>1, <1>3 DEF ViewOk, SameDialog
  <1>5. LoadsFit(w)
    BY <1>2, <1>4 DEF LoadsFit
  <1>6. screen.panel # "period"
    BY <1>1 DEF Loads
  <1>7. ViewOk(w)
    BY <1>1, <1>3, <1>5, <1>6 DEF ViewOk, SameDialog
  <1>8. ViewOk(view[t])'
    BY <1>3, <1>7 DEF w, ViewOk, PreviewFits, LoadsFit
  <1> QED
    BY <1>1, <1>8, ViewsOnlyIn

\* The answer to the question for a preview.
LEMMA SettlePreviewOk ==
    ASSUME PanelInv, NEW t \in Tabs, SettlePreview(t)
    PROVE  Views'
  <1> DEFINE v == view[t]
             w == view'[t]
  <1>1. OnlyIn(t) /\ screen.panel = "period"
    BY SettlePreviewView DEF PanelInv
  <1>2. PICK f \in v.out, ok \in BOOLEAN :
           /\ w.loaded = v.loaded /\ w.seen = v.seen /\ w.dialog = v.dialog /\ w.opened = v.opened
           /\ w.out = v.out \ {f} /\ w.run = v.run /\ w.loadError = v.loadError /\ w.loading = FALSE
           /\ w.sight = v.sight
           /\ w.unsure = (v.unsure \/ ~ok \/ f.n # v.opened)
           /\ w.preview = IF ok THEN [n |-> f.n, sessions |-> db.sessions] ELSE v.preview
    BY SettlePreviewView DEF PanelInv
  <1>3. ViewOk(v) /\ screen' = screen /\ Screen
    BY <1>1 DEF OnlyIn, PanelInv
  <1> HIDE DEF v, w
  <1>4. PreviewFits(v) /\ v.opened \in 0..screen.opens /\ screen.opens \in Nat
    BY <1>1, <1>3, ScreenFacts DEF ViewOk
  <1>5. db.sessions \in {0, 1}
    BY <1>1 DEF PanelInv, DbOk, Database
  <1>6. f.n \in 1..v.opened
    BY <1>4 DEF PreviewFits
  <1> DEFINE new == [n |-> f.n, sessions |-> db.sessions]
  <1>7. new \in [n: 1..screen.opens, sessions: {0, 1}] /\ new.n = f.n /\ new # None
    BY <1>3, <1>4, <1>5, <1>6, ScreenFacts
  <1>8. w.preview = IF ok THEN new ELSE v.preview
    BY <1>2
  <1> HIDE DEF new
  <1>9. PreviewFits(w)
    BY <1>2, <1>4, <1>7, <1>8 DEF PreviewFits
  <1>10. ViewOk(w)
    BY <1>1, <1>2, <1>3, <1>9 DEF ViewOk, Loads
  <1>11. ViewOk(view[t])'
    BY <1>3, <1>10 DEF w, ViewOk, PreviewFits, LoadsFit
  <1> QED
    BY <1>1, <1>11, ViewsOnlyIn

\* A refresh.
LEMMA RefreshPanelOk ==
    ASSUME PanelInv, NEW t \in Tabs, RefreshPanel(t)
    PROVE  Views'
  <1> DEFINE v == view[t]
             w == view'[t]
  <1>1. OnlyIn(t) /\ w.opened = v.opened /\ w.seen = db /\ w.sight = v.sight + 1
    BY RefreshPanelView DEF PanelInv
  <1>2. \/ /\ Place(v.seen) = Place(db) /\ SameLoads(v, w)
           /\ w.dialog = v.dialog /\ w.preview = v.preview /\ w.unsure = v.unsure
        \/ /\ w.loaded = TRUE /\ w.dialog = None /\ w.preview = None /\ w.out = {} /\ w.loadError = FALSE
           /\ w.loading = (screen.panel \in Loads) /\ w.run = 1
    BY RefreshPanelView DEF PanelInv
  <1>3. ViewOk(v) /\ screen' = screen /\ Screen /\ db \in Database(screen)
    BY <1>1 DEF OnlyIn, PanelInv, DbOk
  <1> HIDE DEF v, w
  <1>4. ASSUME Place(v.seen) = Place(db), SameLoads(v, w),
               w.dialog = v.dialog, w.preview = v.preview, w.unsure = v.unsure
        PROVE  ViewOk(w)
    <2>1. screen.panel \in Loads => LoadsFit(w)
      BY <1>3, <1>4, SameLoadsFit DEF ViewOk
    <2>2. ASSUME screen.panel = "period" PROVE PreviewFits(w)
      <3>1. PreviewFits(v) /\ v.seen.closed = db.closed
        BY <1>3, <1>4, <2>2 DEF ViewOk, Place
      <3>2. w.seen.closed = v.seen.closed /\ w.out = v.out /\ w.loading = v.loading
        BY <1>1, <1>4, <3>1 DEF SameLoads
      <3> QED
        BY <1>1, <1>4, <3>1, <3>2 DEF PreviewFits
    <2>3. w.loaded = v.loaded
      BY <1>4 DEF SameLoads
    <2> QED
      BY <1>1, <1>3, <1>4, <2>1, <2>2, <2>3 DEF ViewOk
  <1>5. ASSUME w.loaded = TRUE, w.dialog = None, w.preview = None, w.out = {}, w.loadError = FALSE,
               w.loading = (screen.panel \in Loads), w.run = 1
        PROVE  ViewOk(w)
    <2>1. ASSUME screen.panel \in Loads PROVE LoadsFit(w)
      <3>1. w.loading = TRUE
        BY <1>5, <2>1
      <3> QED
        BY <1>5, <3>1 DEF LoadsFit
    <2>2. PreviewFits(w)
      BY <1>5 DEF PreviewFits
    <2> QED
      BY <1>1, <1>3, <1>5, <2>1, <2>2 DEF ViewOk
  <1>6. ViewOk(w)
    BY <1>2, <1>4, <1>5
  <1>7. ViewOk(view[t])'
    BY <1>3, <1>6 DEF w, ViewOk, PreviewFits, LoadsFit
  <1> QED
    BY <1>1, <1>7, ViewsOnlyIn

\* The answer to a command, or its loss.
LEMMA SettleCommandOk ==
    ASSUME PanelInv, NEW c \in Calls, request[c] # NoRequest, AnswerCommand(c) \/ LoseCommand(c)
    PROVE  Views'
  <1>1. request[c].tab \in Tabs /\ request[c].cmd \in Commands(screen) /\ Screen
    BY DEF PanelInv, RequestOk
  <1>0. PICK t \in Tabs : t = request[c].tab
    BY <1>1
  <1> DEFINE v == view[t]
             w == view'[t]
  <1>2. OnlyIn(t)
    BY <1>0, SettleCommandView DEF PanelInv, OnlyIn
  <1>3. /\ w.seen = v.seen /\ w.opened = v.opened /\ w.preview = v.preview /\ w.unsure = v.unsure
        /\ w.dialog \in {v.dialog, None} /\ w.sight = v.sight
        /\ SameLoads(v, w) \/ (Begins(v, w) /\ request[c].cmd.do = "request")
    BY <1>0, SettleCommandView DEF PanelInv
  <1>4. ViewOk(v) /\ screen' = screen
    BY <1>1, <1>2 DEF OnlyIn, PanelInv
  <1>5. SameLoads(v, w) \/ (Begins(v, w) /\ screen.panel = "request")
    BY <1>1, <1>3, CommandsOfPanel
  <1> HIDE DEF v, w
  <1>6. screen.panel \in Loads => LoadsFit(w)
    BY <1>4, <1>5, SameLoadsFit, BegunLoadFits DEF ViewOk, Begins
  <1>7. screen.panel = "period" => PreviewFits(w)
    BY <1>3, <1>4, <1>5 DEF ViewOk, PreviewFits, SameLoads
  <1>8. w.loaded = v.loaded
    BY <1>5 DEF SameLoads, Begins
  <1>9. ViewOk(w)
    BY <1>3, <1>4, <1>6, <1>7, <1>8 DEF ViewOk
  <1>10. ViewOk(view[t])'
    BY <1>4, <1>9 DEF w, ViewOk, PreviewFits, LoadsFit
  <1> QED
    BY <1>2, <1>10, ViewsOnlyIn

-----------------------------------------------------------------------------
(* The commands that were sent, the rows and what changed them last.       *)

\* What is right of a command stays so.
LEMMA RequestStays ==
    ASSUME screen' = screen, NEW c, NEW q, RequestOk(q), request'[c] = q
    PROVE  RequestOk(request[c])'
  BY DEF RequestOk, Uploads, Served, Unasked

\* One command is sent or goes on, and the others stay as they are.
LEMMA RequestsOnly ==
    ASSUME PanelInv, screen' = screen, NEW c \in Calls, NEW q, RequestOk(q),
           request' = [request EXCEPT ![c] = q]
    PROVE  DOMAIN request' = Calls /\ \A x \in Calls : RequestOk(request[x])'
  <1>1. DOMAIN request = Calls /\ \A x \in Calls : RequestOk(request[x])
    BY DEF PanelInv
  <1>2. request'[c] = q /\ \A x \in Calls \ {c} : request'[x] = request[x]
    BY <1>1
  <1>3. RequestOk(request[c])'
    BY <1>2, RequestStays
  <1>4. ASSUME NEW x \in Calls \ {c} PROVE RequestOk(request[x])'
    <2>1. PICK p : p = request[x]
      OBVIOUS
    <2>2. RequestOk(p) /\ request'[x] = p
      BY <1>1, <1>2, <2>1
    <2> QED
      BY <2>2, RequestStays
  <1> QED
    BY <1>1, <1>3, <1>4

\* A step that sends nothing and leaves the rows alone.
LEMMA ViewStep ==
    ASSUME PanelInv, UNCHANGED <<screen, db, request, effect>>, Views'
    PROVE  PanelInv'
  <1>1. Screen' /\ DbOk'
    BY DEF PanelInv, Screen, DbOk
  <1>2. ASSUME NEW c \in Calls PROVE RequestOk(request[c])'
    <2>1. PICK p : p = request[c]
      OBVIOUS
    <2>2. RequestOk(p) /\ request'[c] = p
      BY <2>1 DEF PanelInv
    <2> QED
      BY <2>2, RequestStays
  <1>3. EffectOk'
    BY DEF PanelInv, EffectOk, Served
  <1> QED
    BY <1>1, <1>2, <1>3 DEF PanelInv, Views

\* What changed the rows last is still that, and still changes nothing again.
LEMMA EffectStays ==
    ASSUME EffectOk, UNCHANGED <<screen, db, effect>>
    PROVE  EffectOk'
  BY DEF EffectOk, Served

\* Sending a command.
LEMMA PressOk ==
    ASSUME PanelInv, NEW t \in Tabs, NEW c \in Calls, Press(t, c)
    PROVE  PanelInv'
  <1>1. view[t].loaded /\ UNCHANGED <<screen, db, effect>>
    BY DEF Press
  <1>2. PICK cmd \in Offers(view[t]) :
          request' = [request EXCEPT ![c] =
             [state |-> "sent", tab |-> t, cmd |-> cmd, waiting |-> TRUE, saw |-> Sight(view[t]),
              sight |-> view[t].sight, mount |-> view[t].mount, document |-> None]]
    BY Zenon DEF Press
  <1>3. PICK v : v = view[t]
    OBVIOUS
  <1>4. Screen /\ ViewOk(v) /\ v.loaded /\ cmd \in Offers(v)
    BY <1>1, <1>2, <1>3 DEF PanelInv
  <1>5. PICK saw : saw = Sight(v)
    OBVIOUS
  <1>6. /\ cmd \in Commands(screen)
        /\ saw \in Database(screen) /\ ~Unasked(cmd, saw) => Served(cmd, saw) # {}
    BY <1>4, <1>5, OffersAre
  <1> DEFINE q == [state |-> "sent", tab |-> t, cmd |-> cmd, waiting |-> TRUE, saw |-> saw,
                   sight |-> v.sight, mount |-> v.mount, document |-> None]
  <1>7. request' = [request EXCEPT ![c] = q]
    BY <1>2, <1>3, <1>5
  <1>8. v.sight \in Nat
    BY <1>4 DEF ViewOk
  <1>9. /\ q.state = "sent" /\ q.tab = t /\ q.cmd = cmd /\ q.saw = saw /\ q.sight = v.sight
        /\ DOMAIN q = {"state", "tab", "cmd", "waiting", "saw", "sight", "mount", "document"}
    OBVIOUS
  <1> HIDE DEF q
  <1>10. RequestOk(q)
    BY <1>6, <1>8, <1>9 DEF RequestOk, Uploads
  <1>11. DOMAIN request' = Calls /\ \A x \in Calls : RequestOk(request[x])'
    BY <1>1, <1>7, <1>10, RequestsOnly
  <1>12. Views'
    BY PressViews
  <1>13. Screen' /\ DbOk' /\ EffectOk'
    BY <1>1, EffectStays DEF PanelInv, Screen, DbOk
  <1> QED
    BY <1>11, <1>12, <1>13 DEF PanelInv, Views

\* A command goes on: its state, its answer and its document change, not what it is.
LEMMA GoesOn ==
    ASSUME NEW p, RequestOk(p), p # NoRequest, NEW q,
           DOMAIN q = DOMAIN p, q.state \in {"sent", "refused", "ok", "put", "stored"},
           q.tab = p.tab, q.cmd = p.cmd, q.sight = p.sight, q.saw = p.saw,
           q.state \in {"put", "stored"} => p.cmd.do = "upload",
           Uploads(q) => q.document \in Nat
    PROVE  RequestOk(q)
  BY DEF RequestOk

\* Serving it.
LEMMA ServeCommandOk ==
    ASSUME PanelInv, NEW c \in Calls, ServeCommand(c)
    PROVE  PanelInv'
  <1>1. PICK p : p = request[c]
    OBVIOUS
  <1>2. /\ p.state = "sent" /\ UNCHANGED <<screen, view>>
        /\ \/ /\ Served(p.cmd, db) = {} /\ UNCHANGED <<db, effect>>
              /\ request' = [request EXCEPT ![c].state = "refused"]
           \/ /\ db' \in Served(p.cmd, db)
              /\ request' = [request EXCEPT ![c].state = "ok",
                      ![c].document = IF p.cmd.do = "upload" THEN Cardinality(db'.created) ELSE None]
              /\ effect' = IF db' = db THEN effect ELSE [tab |-> p.tab, sight |-> p.sight, cmd |-> p.cmd]
    BY <1>1 DEF ServeCommand
  <1>3. RequestOk(p) /\ p # NoRequest /\ DOMAIN request = Calls
    BY <1>1, <1>2 DEF PanelInv, NoRequest
  <1>4. /\ DOMAIN p = {"state", "tab", "cmd", "waiting", "saw", "sight", "mount", "document"}
        /\ p.tab \in Tabs /\ p.cmd \in Commands(screen) /\ p.sight \in Nat
    BY <1>3 DEF RequestOk
  <1>5. Screen /\ DbOk /\ EffectOk
    BY DEF PanelInv
  <1>6. Views'
    BY <1>2 DEF PanelInv, Views, Viewed, ViewOk, LoadsFit, PreviewFits
  <1>7. ASSUME UNCHANGED <<db, effect>>, request' = [request EXCEPT ![c].state = "refused"]
        PROVE  PanelInv'
    <2> DEFINE q == [p EXCEPT !.state = "refused"]
    <2>1. request' = [request EXCEPT ![c] = q]
      BY <1>1, <1>7
    <2>2. /\ DOMAIN q = DOMAIN p /\ q.state = "refused" /\ q.tab = p.tab /\ q.cmd = p.cmd
          /\ q.sight = p.sight /\ q.saw = p.saw
      BY <1>4
    <2> HIDE DEF q
    <2>3. RequestOk(q)
      BY <1>3, <2>2, GoesOn DEF Uploads
    <2>4. DOMAIN request' = Calls /\ \A x \in Calls : RequestOk(request[x])'
      BY <1>2, <2>1, <2>3, RequestsOnly
    <2>5. Screen' /\ DbOk' /\ EffectOk'
      BY <1>2, <1>5, <1>7, EffectStays DEF Screen, DbOk
    <2> QED
      BY <1>6, <2>4, <2>5 DEF PanelInv, Views
  <1>8. ASSUME db' \in Served(p.cmd, db),
               request' = [request EXCEPT ![c].state = "ok",
                      ![c].document = IF p.cmd.do = "upload" THEN Cardinality(db'.created) ELSE None],
               effect' = IF db' = db THEN effect ELSE [tab |-> p.tab, sight |-> p.sight, cmd |-> p.cmd]
        PROVE  PanelInv'
    <2>1. PICK n : n = db'
      OBVIOUS
    <2>2. n \in Database(screen) /\ (screen.panel = "documents" => IsFiniteSet(n.created)) /\ Once(p.cmd, n)
      BY <1>4, <1>5, <1>8, <2>1, ServedKeeps
    <2> DEFINE document == IF p.cmd.do = "upload" THEN Cardinality(n.created) ELSE None
               q == [[p EXCEPT !.state = "ok"] EXCEPT !.document = document]
    <2>3. request' = [request EXCEPT ![c] = q]
      BY <1>1, <1>3, <1>8, <2>1
    <2>4. p.cmd.do = "upload" => document \in Nat
      BY <1>4, <1>5, <2>2, CommandsOfPanel, FS_CardinalityType
    <2> HIDE DEF document
    <2>5. /\ DOMAIN q = DOMAIN p /\ q.state = "ok" /\ q.tab = p.tab /\ q.cmd = p.cmd
          /\ q.sight = p.sight /\ q.saw = p.saw /\ q.document = document
      BY <1>4
    <2> HIDE DEF q
    <2>6. RequestOk(q)
      BY <1>3, <2>4, <2>5, GoesOn DEF Uploads
    <2>7. DOMAIN request' = Calls /\ \A x \in Calls : RequestOk(request[x])'
      BY <1>2, <2>3, <2>6, RequestsOnly
    <2>8. Screen' /\ DbOk'
      BY <1>2, <1>5, <2>1, <2>2 DEF Screen, DbOk
    <2>9. EffectOk'
      <3>1. CASE db' = db
        BY <1>2, <1>5, <1>8, <3>1, EffectStays
      <3>2. CASE db' # db
        <4>1. effect' = [tab |-> p.tab, sight |-> p.sight, cmd |-> p.cmd]
          BY <1>8, <3>2
        <4>2. effect' \in [tab: Tabs, sight: Nat, cmd: Commands(screen)] /\ effect'.cmd = p.cmd
          BY <1>4, <4>1
        <4>3. CountsTwice(p.cmd) \/ Served(p.cmd, n) \subseteq {n}
          BY <2>2 DEF Once
        <4> QED
          BY <1>2, <2>1, <4>2, <4>3 DEF EffectOk, Served, CountsTwice
      <3> QED
        BY <3>1, <3>2
    <2> QED
      BY <1>6, <2>7, <2>8, <2>9 DEF PanelInv, Views
  <1> QED
    BY <1>2, <1>7, <1>8

\* What others do meanwhile leaves rows of the panel.
LEMMA OthersKeep ==
    ASSUME Screen, DbOk, NEW act \in Acts(screen), NEW n \in Others(act, db)
    PROVE  n \in Database(screen) /\ (screen.panel = "documents" => IsFiniteSet(n.created))
  <1>1. db \in Database(screen) /\ (screen.panel = "documents" => IsFiniteSet(db.created))
    BY DEF DbOk
  <1>2. CASE screen.panel = "session"
    <2> DEFINE Day == [work: {"out", "working", "break"}, sessions: Nat, left: Nat,
                       missing: SUBSET {"check-in", "break-end"}, barred: SUBSET {"role", "status"},
                       closed: SUBSET {"page", "punch"}]
    <2>1. db \in Day /\ Database(screen) = Sessions /\ (db.work # "out" => "punch" \notin db.closed)
      BY <1>1, <1>2 DEF Database, Sessions
    <2>2. act \in {"approve", "close"}
      BY <1>2 DEF Acts
    <2>3. ASSUME n \in Day, n.work # "out" => "punch" \notin n.closed
          PROVE  n \in Database(screen)
      BY <2>1, <2>3 DEF Sessions
    <2>4. CASE act = "approve"
      <3> DEFINE in == db.missing \cup {"check-in"}
                 end == db.missing \cup {"break-end"}
                 open == OpenBreaks(db)
      <3>1. "punch" \notin db.closed
        BY <2>4 DEF Others, Approved
      <3>2. in \subseteq {"check-in", "break-end"} /\ end \subseteq {"check-in", "break-end"} /\ open \in Nat
        BY <2>1 DEF OpenBreaks
      <3>3. \/ n = [db EXCEPT !.missing = in]
            \/ n = [db EXCEPT !.missing = end]
            \/ n = [[db EXCEPT !.work = "out"] EXCEPT !.left = open]
        BY <2>4 DEF Others, Approved, Only
      <3> HIDE DEF in, end, open
      <3>4. n \in Day /\ n.closed = db.closed
        BY <2>1, <3>2, <3>3
      <3> QED
        BY <1>2, <2>3, <3>1, <3>4
    <2>5. CASE act = "close"
      <3>1. PICK c \in SUBSET {"page", "punch"} :
                n = [db EXCEPT !.closed = c] /\ (db.work # "out" => "punch" \notin c)
        BY <1>2, <2>5 DEF Others, ClosedOrReopened
      <3>2. n \in Day /\ n.work = db.work /\ n.closed = c
        BY <2>1, <3>1
      <3> QED
        BY <1>2, <2>3, <3>1, <3>2
    <2> QED
      BY <2>2, <2>4, <2>5
  <1>3. CASE screen.panel = "period"
    <2>1. db \in [closed: BOOLEAN, sessions: {0, 1}] /\ Database(screen) = [closed: BOOLEAN, sessions: {0, 1}]
      BY <1>1, <1>3 DEF Database
    <2> DEFINE k == 1 - db.sessions
    <2>2. k \in {0, 1}
      BY <2>1
    <2>3. n = [db EXCEPT !.sessions = k]
      BY <1>3 DEF Acts, Others, Only
    <2> HIDE DEF k
    <2> QED
      BY <1>3, <2>1, <2>2, <2>3
  <1>4. CASE screen.panel = "review"
    <2>1. db \in Corrections /\ Database(screen) = Corrections
      BY <1>1, <1>4 DEF Database
    <2>2. \/ n = [db EXCEPT !.closed = ~db.closed]
          \/ n = [db EXCEPT !.ranked = ~db.ranked]
          \/ n = [db EXCEPT !.resolves = ~db.resolves]
      BY <1>4 DEF Acts, Others, ClosedOrReopened
    <2> QED
      BY <1>4, <2>1, <2>2 DEF Corrections
  <1>5. CASE screen.panel = "exceptions"
    <2>1. /\ db \in [exists: BOOLEAN, dismissed: BOOLEAN]
          /\ Database(screen) = [exists: BOOLEAN, dismissed: BOOLEAN]
      BY <1>1, <1>5 DEF Database
    <2>2. n = [db EXCEPT !.exists = ~db.exists]
      BY <1>5 DEF Acts, Others
    <2> QED
      BY <1>5, <2>1, <2>2
  <1>6. CASE screen.panel = "process"
    <2>1. /\ db \in [processed: BOOLEAN, closed: BOOLEAN, future: BOOLEAN]
          /\ Database(screen) = [processed: BOOLEAN, closed: BOOLEAN, future: BOOLEAN]
      BY <1>1, <1>6 DEF Database
    <2>2. n = [db EXCEPT !.closed = ~db.closed] \/ n = [db EXCEPT !.future = FALSE]
      BY <1>6 DEF Acts, Others, ClosedOrReopened
    <2> QED
      BY <1>6, <2>1, <2>2
  <1>7. CASE screen.panel = "documents"
    <2>1. /\ db \in [created: SUBSET Nat, listed: SUBSET Nat, stored: SUBSET Nat, reachable: BOOLEAN]
          /\ Database(screen) = [created: SUBSET Nat, listed: SUBSET Nat, stored: SUBSET Nat, reachable: BOOLEAN]
      BY <1>1, <1>7 DEF Database
    <2>2. n = [db EXCEPT !.reachable = ~db.reachable]
      BY <1>7 DEF Acts, Others
    <2>3. n \in Database(screen) /\ n.created = db.created
      BY <2>1, <2>2
    <2> QED
      BY <1>1, <1>7, <2>3
  <1> QED
    BY <1>2, <1>3, <1>4, <1>5, <1>6, <1>7 DEF Acts

LEMMA OthersMeanwhileOk ==
    ASSUME PanelInv, OthersMeanwhile
    PROVE  PanelInv'
  <1>1. PICK act \in screen.others : db' \in Others(act, db)
    BY DEF OthersMeanwhile
  <1>2. effect' = None /\ UNCHANGED <<screen, view, request>>
    BY DEF OthersMeanwhile
  <1>3. PICK n : n = db'
    OBVIOUS
  <1>4. n \in Database(screen) /\ (screen.panel = "documents" => IsFiniteSet(n.created))
    <2>1. Screen /\ DbOk /\ act \in Acts(screen)
      BY ScreenFacts DEF PanelInv
    <2> QED
      BY <1>1, <1>3, <2>1, OthersKeep
  <1>5. Screen' /\ DbOk'
    BY <1>2, <1>3, <1>4 DEF PanelInv, Screen, DbOk
  <1>6. EffectOk'
    BY <1>2 DEF EffectOk
  <1>7. Views'
    BY <1>2 DEF PanelInv, Views, Viewed, ViewOk, LoadsFit, PreviewFits
  <1>8. ASSUME NEW c \in Calls PROVE RequestOk(request[c])'
    <2>1. PICK p : p = request[c]
      OBVIOUS
    <2>2. RequestOk(p) /\ request'[c] = p
      BY <1>2, <2>1 DEF PanelInv
    <2> QED
      BY <1>2, <2>2, RequestStays
  <1> QED
    BY <1>2, <1>5, <1>6, <1>7, <1>8 DEF PanelInv, Views

\* The storage takes a file: what was removed stays so.
LEMMA StoreFileOk ==
    ASSUME PanelInv, NEW c \in Calls, StoreFile(c)
    PROVE  PanelInv'
  <1>1. PICK p : p = request[c]
    OBVIOUS
  <1>2. /\ p # NoRequest /\ p.state = "put" /\ UNCHANGED <<screen, view, effect>>
        /\ db' = [db EXCEPT !.stored = db.stored \cup {p.document}]
        /\ request' = [request EXCEPT ![c].state = "stored"]
    BY <1>1 DEF StoreFile, Awaiting
  <1>3. RequestOk(p) /\ DOMAIN request = Calls /\ Screen /\ DbOk /\ EffectOk
    BY <1>1 DEF PanelInv
  <1>4. /\ DOMAIN p = {"state", "tab", "cmd", "waiting", "saw", "sight", "mount", "document"}
        /\ p.cmd \in Commands(screen) /\ p.cmd.do = "upload" /\ p.document \in Nat
    BY <1>2, <1>3 DEF RequestOk, Uploads
  <1>5. screen.panel = "documents"
    BY <1>3, <1>4, CommandsOfPanel
  <1>6. /\ db \in [created: SUBSET Nat, listed: SUBSET Nat, stored: SUBSET Nat, reachable: BOOLEAN]
        /\ Database(screen) = [created: SUBSET Nat, listed: SUBSET Nat, stored: SUBSET Nat, reachable: BOOLEAN]
    BY <1>3, <1>5 DEF DbOk, Database
  <1>7. /\ db' \in [created: SUBSET Nat, listed: SUBSET Nat, stored: SUBSET Nat, reachable: BOOLEAN]
        /\ db'.listed = db.listed /\ db'.created = db.created
    <2> DEFINE stored == db.stored \cup {p.document}
    <2>1. stored \subseteq Nat /\ db' = [db EXCEPT !.stored = stored]
      BY <1>2, <1>4, <1>6
    <2> HIDE DEF stored
    <2> QED
      BY <1>6, <2>1
  <1>8. Screen' /\ DbOk'
    BY <1>2, <1>3, <1>5, <1>6, <1>7 DEF Screen, DbOk
  <1>9. Views'
    BY <1>2 DEF PanelInv, Views, Viewed, ViewOk, LoadsFit, PreviewFits
  <1>10. DOMAIN request' = Calls /\ \A x \in Calls : RequestOk(request[x])'
    <2> DEFINE q == [p EXCEPT !.state = "stored"]
    <2>1. request' = [request EXCEPT ![c] = q]
      BY <1>1, <1>2
    <2>2. /\ DOMAIN q = DOMAIN p /\ q.state = "stored" /\ q.tab = p.tab /\ q.cmd = p.cmd
          /\ q.sight = p.sight /\ q.saw = p.saw /\ q.document = p.document
      BY <1>4
    <2> HIDE DEF q
    <2>3. RequestOk(q)
      BY <1>2, <1>3, <1>4, <2>2, GoesOn
    <2> QED
      BY <1>2, <2>1, <2>3, RequestsOnly
  <1>11. EffectOk'
    <2> SUFFICES ASSUME effect # None, ~CountsTwice(effect.cmd) PROVE EffectOk'
      BY <1>2, <1>3 DEF EffectOk, CountsTwice
    <2>1. effect \in [tab: Tabs, sight: Nat, cmd: Commands(screen)] /\ Served(effect.cmd, db) \subseteq {db}
      BY <1>3 DEF EffectOk
    <2>2. PICK cmd : cmd = effect.cmd
      OBVIOUS
    <2>3. cmd.do = "remove"
      BY <1>5, <2>1, <2>2 DEF Commands, CountsTwice
    <2>4. \A d : Served(cmd, d) = {[d EXCEPT !.listed = d.listed \ {cmd.document}]}
      BY <1>5, <2>3 DEF Served, DocumentServed
    <2>5. [db EXCEPT !.listed = db.listed \ {cmd.document}] = db
      BY <2>1, <2>2, <2>4
    <2>6. db.listed \ {cmd.document} = db.listed
      BY <1>6, <2>5
    <2>7. PICK n : n = db'
      OBVIOUS
    <2>8. [n EXCEPT !.listed = n.listed \ {cmd.document}] = n
      BY <1>7, <2>6, <2>7
    <2>9. Served(cmd, n) \subseteq {n}
      BY <2>4, <2>8
    <2> QED
      BY <1>2, <2>1, <2>2, <2>7, <2>9 DEF EffectOk, Served
  <1> QED
    BY <1>8, <1>9, <1>10, <1>11 DEF PanelInv, Views

\* The upload that was initiated goes on to put its file.
LEMMA PutFileOk ==
    ASSUME PanelInv, NEW c \in Calls, PutFile(c)
    PROVE  PanelInv'
  <1>1. PICK p : p = request[c]
    OBVIOUS
  <1>2. /\ p # NoRequest /\ p.state = "ok" /\ p.cmd.do = "upload" /\ UNCHANGED <<screen, db, view, effect>>
        /\ request' = [request EXCEPT ![c].state = "put"]
    BY <1>1 DEF PutFile, Awaiting
  <1>3. RequestOk(p) /\ Screen /\ DbOk /\ EffectOk
    BY <1>1 DEF PanelInv
  <1>4. /\ DOMAIN p = {"state", "tab", "cmd", "waiting", "saw", "sight", "mount", "document"}
        /\ p.document \in Nat
    BY <1>2, <1>3 DEF RequestOk, Uploads
  <1> DEFINE q == [p EXCEPT !.state = "put"]
  <1>5. request' = [request EXCEPT ![c] = q]
    BY <1>1, <1>2
  <1>6. /\ DOMAIN q = DOMAIN p /\ q.state = "put" /\ q.tab = p.tab /\ q.cmd = p.cmd
        /\ q.sight = p.sight /\ q.saw = p.saw /\ q.document = p.document
    BY <1>4
  <1> HIDE DEF q
  <1>7. RequestOk(q)
    BY <1>2, <1>3, <1>4, <1>6, GoesOn
  <1>8. DOMAIN request' = Calls /\ \A x \in Calls : RequestOk(request[x])'
    BY <1>2, <1>5, <1>7, RequestsOnly
  <1>9. Screen' /\ DbOk' /\ EffectOk'
    BY <1>2, <1>3, EffectStays DEF Screen, DbOk
  <1>10. Views'
    BY <1>2 DEF PanelInv, Views, Viewed, ViewOk, LoadsFit, PreviewFits
  <1> QED
    BY <1>8, <1>9, <1>10 DEF PanelInv, Views

\* The answer to a command, or its loss.
LEMMA SettleOk ==
    ASSUME PanelInv, NEW c \in Calls, AnswerCommand(c) \/ LoseCommand(c)
    PROVE  PanelInv'
  <1>1. PICK p : p = request[c]
    OBVIOUS
  <1>2. /\ p # NoRequest /\ UNCHANGED <<screen, db, effect>>
        /\ request' = [request EXCEPT ![c].waiting = FALSE]
    BY <1>1 DEF AnswerCommand, LoseCommand, SettleCommand, Awaiting
  <1>3. RequestOk(p) /\ Screen /\ DbOk /\ EffectOk
    BY <1>1 DEF PanelInv
  <1>4. DOMAIN p = {"state", "tab", "cmd", "waiting", "saw", "sight", "mount", "document"}
    BY <1>2, <1>3 DEF RequestOk
  <1> DEFINE q == [p EXCEPT !.waiting = FALSE]
  <1>5. request' = [request EXCEPT ![c] = q]
    BY <1>1, <1>2
  <1>6. /\ DOMAIN q = DOMAIN p /\ q.state = p.state /\ q.tab = p.tab /\ q.cmd = p.cmd
        /\ q.sight = p.sight /\ q.saw = p.saw /\ q.document = p.document
    BY <1>4
  <1> HIDE DEF q
  <1>7. RequestOk(q)
    BY <1>2, <1>3, <1>6 DEF RequestOk, Uploads
  <1>8. DOMAIN request' = Calls /\ \A x \in Calls : RequestOk(request[x])'
    BY <1>2, <1>5, <1>7, RequestsOnly
  <1>9. Screen' /\ DbOk' /\ EffectOk'
    BY <1>2, <1>3, EffectStays DEF Screen, DbOk
  <1>10. Views'
    BY <1>1, <1>2, SettleCommandOk
  <1> QED
    BY <1>8, <1>9, <1>10 DEF PanelInv, Views

-----------------------------------------------------------------------------
(* The theorems.                                                           *)

\* It holds before anything was used.
LEMMA PanelsBegin ==
    ASSUME PanelsInit
    PROVE  PanelInv
  <1>1. Screen /\ db = screen.db /\ effect = None
    BY DEF PanelsInit, Screen
  <1>2. DbOk /\ EffectOk
    BY <1>1, ScreenFacts DEF DbOk, EffectOk
  <1>3. DOMAIN request = Calls /\ \A c \in Calls : RequestOk(request[c])
    BY DEF PanelsInit, RequestOk
  <1>4. view = [t \in Tabs |-> Absent]
    BY DEF PanelsInit
  <1>5. /\ DOMAIN Absent = ViewFields /\ Absent.loaded = FALSE /\ Absent.dialog = None
        /\ Absent.sight = 1 /\ Absent.opened = 0 /\ Absent.preview = None /\ Absent.out = {} /\ Absent.run = 1
    BY SMTT(30) DEF Absent, View, ViewFields
  <1>6. ViewOk(Absent)
    BY <1>1, <1>5, ScreenFacts DEF ViewOk, LoadsFit, PreviewFits
  <1>7. Viewed /\ \A t \in Tabs : ViewOk(view[t])
    BY <1>4, <1>5, <1>6 DEF Viewed
  <1> QED
    BY <1>1, <1>2, <1>3, <1>7 DEF PanelInv

\* Except by pressing a button, a tab changes only what it shows.
LEMMA TabSteps ==
    ASSUME NEW t \in Tabs,
           \/ ShowPanel(t) \/ OpenDialog(t) \/ DismissDialog(t) \/ CancelDialog(t) \/ ChooseRange(t)
           \/ ForTab(t)
    PROVE  UNCHANGED <<screen, db, request, effect>>
  <1>1. ShowPanel(t) => UNCHANGED <<screen, db, request, effect>>
    BY Zenon DEF ShowPanel
  <1>2. OpenDialog(t) => UNCHANGED <<screen, db, request, effect>>
    BY Zenon DEF OpenDialog
  <1>3. DismissDialog(t) => UNCHANGED <<screen, db, request, effect>>
    BY Zenon DEF DismissDialog
  <1>4. CancelDialog(t) => UNCHANGED <<screen, db, request, effect>>
    BY Zenon DEF CancelDialog
  <1>5. ChooseRange(t) => UNCHANGED <<screen, db, request, effect>>
    BY Zenon DEF ChooseRange
  <1>6. SettleLoad(t) => UNCHANGED <<screen, db, request, effect>>
    BY Zenon DEF SettleLoad
  <1>7. SettlePreview(t) => UNCHANGED <<screen, db, request, effect>>
    BY Zenon DEF SettlePreview
  <1>8. RefreshPanel(t) => UNCHANGED <<screen, db, request, effect>>
    BY Zenon DEF RefreshPanel
  <1> QED
    BY <1>1, <1>2, <1>3, <1>4, <1>5, <1>6, <1>7, <1>8 DEF ForTab

\* Every step keeps it.
LEMMA PanelsGoOn ==
    ASSUME PanelInv, [PanelsNext]_panelVars
    PROVE  PanelInv'
  <1>1. CASE UNCHANGED panelVars
    <2>1. Views' /\ UNCHANGED <<screen, db, request, effect>>
      BY <1>1 DEF panelVars, PanelInv, Views, Viewed, ViewOk, LoadsFit, PreviewFits
    <2> QED
      BY <2>1, ViewStep
  <1>2. ASSUME NEW t \in Tabs,
               \/ ShowPanel(t) \/ OpenDialog(t) \/ DismissDialog(t) \/ CancelDialog(t) \/ ChooseRange(t)
               \/ ForTab(t)
        PROVE  PanelInv'
    <2>1. Views'
      BY <1>2, ShowPanelOk, OpenDialogOk, CloseDialogOk, ChooseRangeOk, SettleLoadOk, SettlePreviewOk,
         RefreshPanelOk DEF ForTab
    <2>2. UNCHANGED <<screen, db, request, effect>>
      BY <1>2, TabSteps
    <2> QED
      BY <2>1, <2>2, ViewStep
  <1>3. ASSUME NEW t \in Tabs, NEW c \in Calls, Press(t, c) PROVE PanelInv'
    BY <1>3, PressOk
  <1>4. ASSUME NEW c \in Calls, ServeCommand(c) \/ StoreFile(c) \/ ForRequest(c) PROVE PanelInv'
    BY <1>4, ServeCommandOk, StoreFileOk, SettleOk, PutFileOk DEF ForRequest
  <1>5. CASE OthersMeanwhile
    BY <1>5, OthersMeanwhileOk
  <1> QED
    BY <1>1, <1>2, <1>3, <1>4, <1>5 DEF PanelsNext

\* A step of the browser is one of the panels, or leaves them alone.
LEMMA BrowserSteps ==
    ASSUME [BrowserNext]_browserVars
    PROVE  [PanelsNext]_panelVars
  BY DEF BrowserNext, browserVars

\* The invariant of the panels holds whatever is done in the browser.
LEMMA PanelsAreRight == BrowserSpec => []PanelInv
  <1>1. BrowserInit => PanelInv
    BY PanelsBegin DEF BrowserInit
  <1>2. PanelInv /\ [BrowserNext]_browserVars => PanelInv'
    BY PanelsGoOn, BrowserSteps
  <1> QED
    BY <1>1, <1>2, PTL DEF BrowserSpec

\* What the history and the corrections show is of the range that is chosen and not
\* older than the last request, in whatever order any number of answers come.
THEOREM LatestLoadWins == BrowserSpec => []LatestLoadIsShown
  <1>1. PanelInv => LatestLoadIsShown
    BY DEF PanelInv, ViewOk, LoadsFit, LatestLoadIsShown
  <1> QED
    BY <1>1, PanelsAreRight, PTL

\* HR closes a period on the preview of this opening of the dialog, however often it
\* was opened and in whatever order the previews came, unless that preview failed or
\* one of an earlier opening took its place.
THEOREM ClosesOnItsPreview == BrowserSpec => ClosedOnItsPreview
  <1> DEFINE A == \A c \in Calls :
          request'[c].state = "sent" /\ request[c] = NoRequest /\ request'[c].cmd.do = "close" =>
             LET v == view[request'[c].tab]
             IN  v.unsure \/ (v.preview = [n |-> v.opened, sessions |-> 0])
  <1>1. PanelInv /\ [BrowserNext]_browserVars => [A]_panelVars
    <2> SUFFICES ASSUME PanelInv, PanelsNext,
                        NEW c \in Calls, request'[c].state = "sent", request[c] = NoRequest,
                        request'[c].cmd.do = "close"
                 PROVE  LET v == view[request'[c].tab]
                        IN  v.unsure \/ (v.preview = [n |-> v.opened, sessions |-> 0])
      BY BrowserSteps
    <2>1. DOMAIN request = Calls /\ request[c].state = "new"
      BY DEF PanelInv, NoRequest
    <2>2. PICK t \in Tabs, x \in Calls : Press(t, x)
      <3>1. ASSUME UNCHANGED request PROVE FALSE
        BY <2>1, <3>1
      <3>2. ASSUME NEW x \in Calls, ServeCommand(x) \/ StoreFile(x) \/ ForRequest(x) PROVE FALSE
        <4>1. ASSUME NEW state \in {"refused", "ok", "stored", "put"}, NEW document,
                     \/ request' = [request EXCEPT ![x].state = state]
                     \/ request' = [request EXCEPT ![x].state = state, ![x].document = document]
                     \/ request' = [request EXCEPT ![x].waiting = FALSE]
              PROVE  FALSE
          <5>1. CASE x = c
            BY <2>1, <4>1, <5>1 DEF NoRequest
          <5>2. CASE x # c
            BY <2>1, <4>1, <5>2
          <5> QED
            BY <5>1, <5>2
        <4>2. \/ ServeCommand(x) \/ StoreFile(x) \/ PutFile(x)
              \/ request' = [request EXCEPT ![x].waiting = FALSE]
          BY <3>2 DEF ForRequest, AnswerCommand, LoseCommand, SettleCommand
        <4>3. ASSUME ServeCommand(x) PROVE FALSE
          <5>1. PICK document : document = IF request[x].cmd.do = "upload" THEN Cardinality(db'.created) ELSE None
            OBVIOUS
          <5>2. \/ request' = [request EXCEPT ![x].state = "refused"]
                \/ request' = [request EXCEPT ![x].state = "ok", ![x].document = document]
            BY <4>3, <5>1 DEF ServeCommand
          <5> QED
            BY <4>1, <5>2
        <4>4. ASSUME StoreFile(x) \/ PutFile(x) PROVE FALSE
          BY <4>1, <4>4 DEF StoreFile, PutFile
        <4> QED
          BY <4>1, <4>2, <4>3, <4>4
      <3> QED
        BY <3>1, <3>2, TabSteps DEF PanelsNext, OthersMeanwhile
    <2>3. view[t].loaded
      BY <2>2 DEF Press
    <2>4. PICK cmd \in Offers(view[t]) :
            request' = [request EXCEPT ![x] =
               [state |-> "sent", tab |-> t, cmd |-> cmd, waiting |-> TRUE, saw |-> Sight(view[t]),
                sight |-> view[t].sight, mount |-> view[t].mount, document |-> None]]
      BY <2>2, Zenon DEF Press
    <2>5. c = x
      BY <2>1, <2>4
    <2>6. request'[c].tab = t /\ request'[c].cmd = cmd
      BY <2>1, <2>4, <2>5
    <2>7. PICK v : v = view[t]
      OBVIOUS
    <2>8. v.unsure \/ v.preview = [n |-> v.opened, sessions |-> 0]
      BY <2>3, <2>4, <2>6, <2>7, OffersAre DEF PanelInv
    <2> QED
      BY <2>6, <2>7, <2>8
  <1>2. BrowserSpec => [][A]_panelVars
    <2> HIDE DEF A
    <2> QED
      BY <1>1, PanelsAreRight, PTL DEF BrowserSpec
  <1> QED
    BY <1>2 DEF ClosedOnItsPreview

\* Only the service takes a command that was sent or refuses it.
LEMMA OnlyServed ==
    ASSUME PanelInv, PanelsNext, NEW c \in Calls, request[c].state = "sent", NEW s \in {"refused", "ok"},
           request'[c].state = s
    PROVE  ServeCommand(c)
  <1>1. DOMAIN request = Calls /\ DOMAIN request[c] = {"state", "tab", "cmd", "waiting", "saw", "sight", "mount", "document"}
    BY DEF PanelInv, RequestOk, NoRequest
  <1>2. ASSUME UNCHANGED request PROVE FALSE
    BY <1>2
  <1>3. ASSUME NEW t \in Tabs, NEW x \in Calls, Press(t, x) PROVE FALSE
    <2>1. PICK cmd \in Offers(view[t]) :
            request' = [request EXCEPT ![x] =
               [state |-> "sent", tab |-> t, cmd |-> cmd, waiting |-> TRUE, saw |-> Sight(view[t]),
                sight |-> view[t].sight, mount |-> view[t].mount, document |-> None]]
      BY <1>3, Zenon DEF Press
    <2> QED
      BY <1>1, <2>1
  <1>4. ASSUME NEW x \in Calls, StoreFile(x) \/ PutFile(x) \/ AnswerCommand(x) \/ LoseCommand(x) PROVE FALSE
    <2>1. \/ request[x].state = "put" /\ request' = [request EXCEPT ![x].state = "stored"]
          \/ request[x].state = "ok" /\ request' = [request EXCEPT ![x].state = "put"]
          \/ request' = [request EXCEPT ![x].waiting = FALSE]
      BY <1>4 DEF StoreFile, PutFile, AnswerCommand, LoseCommand, SettleCommand
    <2> QED
      BY <1>1, <2>1
  <1>5. ASSUME NEW x \in Calls, ServeCommand(x) PROVE x = c
    <2>1. PICK document : document = IF request[x].cmd.do = "upload" THEN Cardinality(db'.created) ELSE None
      OBVIOUS
    <2>2. \/ request' = [request EXCEPT ![x].state = "refused"]
          \/ request' = [request EXCEPT ![x].state = "ok", ![x].document = document]
      BY <1>5, <2>1 DEF ServeCommand
    <2> QED
      BY <1>1, <2>2
  <1> QED
    BY <1>2, <1>3, <1>4, <1>5, TabSteps DEF PanelsNext, OthersMeanwhile, ForRequest

\* A command is refused only because something has changed since its panel was rendered,
\* or for one of the conditions that the service has and the buttons do not.
THEOREM RefusalsAreExplained == BrowserSpec => RefusedOnlyForTheUnasked
  <1> DEFINE A == \A c \in Calls :
          request[c].state = "sent" /\ request'[c].state = "refused" =>
             request[c].saw # db \/ Unasked(request[c].cmd, db)
  <1>1. PanelInv /\ [BrowserNext]_browserVars => [A]_panelVars
    <2> SUFFICES ASSUME PanelInv, PanelsNext,
                        NEW c \in Calls, request[c].state = "sent", request'[c].state = "refused",
                        ~Unasked(request[c].cmd, db)
                 PROVE  request[c].saw # db
      BY BrowserSteps
    <2>1. ServeCommand(c)
      BY OnlyServed
    <2>2. PICK p : p = request[c]
      OBVIOUS
    <2>3. RequestOk(p) /\ p # NoRequest /\ db \in Database(screen) /\ DOMAIN request = Calls
      BY <2>2 DEF PanelInv, DbOk, NoRequest
    <2>4. Served(p.cmd, db) = {}
      <3>1. ASSUME Served(p.cmd, db) # {} PROVE FALSE
        <4>1. PICK document : document = IF p.cmd.do = "upload" THEN Cardinality(db'.created) ELSE None
          OBVIOUS
        <4>2. request' = [request EXCEPT ![c].state = "ok", ![c].document = document]
          BY <2>1, <2>2, <3>1, <4>1 DEF ServeCommand
        <4>3. DOMAIN request[c] = {"state", "tab", "cmd", "waiting", "saw", "sight", "mount", "document"}
          BY <2>2, <2>3 DEF RequestOk
        <4>4. request'[c].state = "ok"
          BY <2>3, <4>2, <4>3
        <4> QED
          BY <4>4
      <3> QED
        BY <3>1
    <2>5. p.saw \in Database(screen) /\ ~Unasked(p.cmd, p.saw) => Served(p.cmd, p.saw) # {}
      BY <2>2, <2>3 DEF RequestOk
    <2>6. p.saw # db
      BY <2>2, <2>3, <2>4, <2>5
    <2> QED
      BY <2>2, <2>6
  <1>2. BrowserSpec => [][A]_panelVars
    <2> HIDE DEF A
    <2> QED
      BY <1>1, PanelsAreRight, PTL DEF BrowserSpec
  <1> QED
    BY <1>2 DEF RefusedOnlyForTheUnasked

\* A command that is pressed again on the same view, because its answer was lost or
\* late, changes nothing that the first has not, but for the four that count twice.
THEOREM SecondPressChangesNothing == BrowserSpec => PressedTwiceCountsOnce
  <1> DEFINE A == \A c \in Calls :
          request[c].state = "sent" /\ db' # db /\ request'[c].state = "ok" =>
             \/ effect # [tab |-> request[c].tab, sight |-> request[c].sight, cmd |-> request[c].cmd]
             \/ CountsTwice(request[c].cmd)
  <1>1. PanelInv /\ [BrowserNext]_browserVars => [A]_panelVars
    <2> SUFFICES ASSUME PanelInv, PanelsNext,
                        NEW c \in Calls, request[c].state = "sent", db' # db, request'[c].state = "ok",
                        effect = [tab |-> request[c].tab, sight |-> request[c].sight, cmd |-> request[c].cmd]
                 PROVE  CountsTwice(request[c].cmd)
      BY BrowserSteps
    <2>1. ServeCommand(c)
      BY OnlyServed
    <2>2. PICK p : p = request[c]
      OBVIOUS
    <2>3. Screen /\ RequestOk(p) /\ p # NoRequest /\ EffectOk
      BY <2>2 DEF PanelInv, NoRequest
    <2>4. effect \in [tab: Tabs, sight: Nat, cmd: Commands(screen)] /\ effect.cmd = p.cmd
      BY <2>2, <2>3 DEF RequestOk
    <2>5. effect # None
      BY <2>3, <2>4, ScreenFacts
    <2>6. CountsTwice(p.cmd) \/ Served(p.cmd, db) \subseteq {db}
      BY <2>3, <2>4, <2>5 DEF EffectOk
    <2>7. db' \in Served(p.cmd, db)
      BY <2>1, <2>2 DEF ServeCommand
    <2> QED
      BY <2>2, <2>6, <2>7
  <1>2. BrowserSpec => [][A]_panelVars
    <2> HIDE DEF A
    <2> QED
      BY <1>1, PanelsAreRight, PTL DEF BrowserSpec
  <1> QED
    BY <1>2 DEF PressedTwiceCountsOnce

-----------------------------------------------------------------------------
(* The forms.  What each step does to a tab; all tabs but one are as they   *)
(* were.                                                                    *)

\* The fields of a tab's form, and of a request.
TabFields ==
    {"loaded", "open", "editing", "form", "formError", "listError", "submitting", "archiving", "shown",
     "refreshing", "sent", "typed", "from", "opened"}

CallFields ==
    {"state", "verb", "tab", "id", "payload", "waiting", "typed", "from", "opened", "existing", "logged"}

Tabbed == DOMAIN tab = Tabs /\ \A t \in Tabs : DOMAIN tab[t] = TabFields

\* What is yes or no of a tab.
Flags(v) ==
    /\ v.loaded \in BOOLEAN /\ v.open \in BOOLEAN /\ v.formError \in BOOLEAN /\ v.listError \in BOOLEAN
    /\ v.submitting \in BOOLEAN /\ v.refreshing \in BOOLEAN

\* Only tab t changes, and no row.
OnlyTab(t) ==
    /\ Tabbed' /\ \A s \in Tabs \ {t} : tab'[s] = tab[s]
    /\ UNCHANGED <<scene, rows>>

\* The form and what is edited stay.
SameForm(v, w) == w.editing = v.editing /\ w.form = v.form /\ w.typed = v.typed /\ w.from = v.from

\* What is shown stays, and which requests are out.
SameTable(v, w) ==
    /\ w.loaded = v.loaded /\ w.shown = v.shown /\ w.archiving = v.archiving
    /\ w.submitting = v.submitting /\ w.sent = v.sent
    /\ w.refreshing = v.refreshing /\ w.listError = v.listError

\* A form that is opened for a row, or for a new one.
LEMMA OpenFormTab ==
    ASSUME Tabbed, NEW t \in Tabs, NEW id, NEW form, NEW row, OpenForm(t, id, form, row)
    PROVE  /\ OnlyTab(t) /\ UNCHANGED call
           /\ SameTable(tab[t], tab'[t])
           /\ LET w == tab'[t]
              IN  /\ w.open = TRUE /\ w.editing = id /\ w.form = form /\ w.typed = {} /\ w.from = row
                  /\ w.formError = FALSE
  <1>1. tab' = [tab EXCEPT ![t].editing = id, ![t].form = form, ![t].formError = FALSE,
                          ![t].open = TRUE, ![t].typed = {}, ![t].from = row, ![t].opened = @ + 1]
    BY Zenon DEF OpenForm
  <1>2. UNCHANGED <<scene, rows, call>>
    BY Zenon DEF OpenForm
  <1>3. OnlyTab(t)
    BY ONLY <1>1, <1>2, Tabbed, t \in Tabs, SMTT(60) DEF Tabbed, TabFields, OnlyTab
  <1>4. /\ SameTable(tab[t], tab'[t])
        /\ LET w == tab'[t]
           IN  /\ w.open = TRUE /\ w.editing = id /\ w.form = form /\ w.typed = {} /\ w.from = row
               /\ w.formError = FALSE
    BY ONLY <1>1, Tabbed, t \in Tabs, SMTT(60) DEF Tabbed, TabFields, SameTable
  <1> QED
    BY <1>2, <1>3, <1>4

\* An input takes what is typed.
LEMMA TypeIntoTab ==
    ASSUME Tabbed, NEW t \in Tabs, NEW enabled, TypeInto(t, enabled)
    PROVE  /\ OnlyTab(t) /\ UNCHANGED call
           /\ SameTable(tab[t], tab'[t])
           /\ \E f \in DOMAIN scene.entered : \E x \in scene.entered[f] :
                LET v == tab[t]
                    w == tab'[t]
                IN  /\ w.open = v.open /\ v.open /\ w.editing = v.editing /\ w.from = v.from
                    /\ w.formError = v.formError
                    /\ w.form = [v.form EXCEPT ![f] = x] /\ w.typed = v.typed \cup {f}
  <1>0. PICK f \in DOMAIN scene.entered : \E x \in scene.entered[f] :
          tab' = [tab EXCEPT ![t].form[f] = x, ![t].typed = @ \cup {f}]
    BY Zenon DEF TypeInto
  <1>1. PICK x \in scene.entered[f] : tab' = [tab EXCEPT ![t].form[f] = x, ![t].typed = @ \cup {f}]
    BY <1>0
  <1>2. tab[t].open /\ UNCHANGED <<scene, rows, call>>
    BY Zenon DEF TypeInto
  <1>3. OnlyTab(t)
    BY ONLY <1>1, <1>2, Tabbed, t \in Tabs, SMTT(60) DEF Tabbed, TabFields, OnlyTab
  <1>4. /\ SameTable(tab[t], tab'[t])
        /\ LET v == tab[t]
               w == tab'[t]
           IN  /\ w.open = v.open /\ w.editing = v.editing /\ w.from = v.from
               /\ w.formError = v.formError
               /\ w.form = [v.form EXCEPT ![f] = x] /\ w.typed = v.typed \cup {f}
    BY ONLY <1>1, Tabbed, t \in Tabs, SMTT(60) DEF Tabbed, TabFields, SameTable
  <1> QED
    BY <1>2, <1>3, <1>4

\* The form is submitted.
LEMMA SubmitFormTab ==
    ASSUME Tabbed, NEW t \in Tabs, NEW c \in Calls, NEW payload, NEW required, SubmitForm(t, c, payload, required)
    PROVE  /\ OnlyTab(t) /\ SameForm(tab[t], tab'[t])
           /\ LET v == tab[t]
                  w == tab'[t]
              IN  /\ v.open /\ w.open = v.open /\ w.submitting = TRUE /\ w.sent = c /\ w.formError = FALSE
                  /\ w.loaded = v.loaded /\ w.shown = v.shown /\ w.archiving = v.archiving
                  /\ w.refreshing = v.refreshing /\ w.listError = v.listError
  <1>1. tab' = [tab EXCEPT ![t].submitting = TRUE, ![t].formError = FALSE, ![t].sent = c]
    BY Zenon DEF SubmitForm
  <1>2. tab[t].open /\ UNCHANGED <<scene, rows>>
    BY Zenon DEF SubmitForm
  <1>3. OnlyTab(t)
    BY ONLY <1>1, <1>2, Tabbed, t \in Tabs, SMTT(60) DEF Tabbed, TabFields, OnlyTab
  <1>4. /\ SameForm(tab[t], tab'[t])
        /\ LET v == tab[t]
               w == tab'[t]
           IN  /\ w.open = v.open /\ w.submitting = TRUE /\ w.sent = c /\ w.formError = FALSE
               /\ w.loaded = v.loaded /\ w.shown = v.shown /\ w.archiving = v.archiving
               /\ w.refreshing = v.refreshing /\ w.listError = v.listError
    BY ONLY <1>1, Tabbed, t \in Tabs, SMTT(60) DEF Tabbed, TabFields, SameForm
  <1> QED
    BY <1>2, <1>3, <1>4

\* A row's button is pressed.
LEMMA SendActiveTab ==
    ASSUME Tabbed, NEW t \in Tabs, NEW id, NEW c \in Calls, NEW verb, SendActive(t, id, c, verb)
    PROVE  /\ OnlyTab(t) /\ SameForm(tab[t], tab'[t])
           /\ LET v == tab[t]
                  w == tab'[t]
              IN  /\ w.open = v.open /\ w.archiving = id /\ w.listError = FALSE
                  /\ w.loaded = v.loaded /\ w.shown = v.shown /\ w.submitting = v.submitting
                  /\ w.sent = v.sent /\ w.refreshing = v.refreshing /\ w.formError = v.formError
  <1>1. tab' = [tab EXCEPT ![t].archiving = id, ![t].listError = FALSE]
    BY Zenon DEF SendActive
  <1>2. UNCHANGED <<scene, rows>>
    BY Zenon DEF SendActive
  <1>3. OnlyTab(t)
    BY ONLY <1>1, <1>2, Tabbed, t \in Tabs, SMTT(60) DEF Tabbed, TabFields, OnlyTab
  <1>4. /\ SameForm(tab[t], tab'[t])
        /\ LET v == tab[t]
               w == tab'[t]
           IN  /\ w.open = v.open /\ w.archiving = id /\ w.listError = FALSE
               /\ w.loaded = v.loaded /\ w.shown = v.shown /\ w.submitting = v.submitting
               /\ w.sent = v.sent /\ w.refreshing = v.refreshing /\ w.formError = v.formError
    BY ONLY <1>1, Tabbed, t \in Tabs, SMTT(60) DEF Tabbed, TabFields, SameForm
  <1> QED
    BY <1>2, <1>3, <1>4

\* The form is closed.
LEMMA CloseFormTab ==
    ASSUME Tabbed, NEW t \in Tabs, CloseForm(t)
    PROVE  /\ OnlyTab(t) /\ UNCHANGED call
           /\ SameForm(tab[t], tab'[t]) /\ SameTable(tab[t], tab'[t])
           /\ tab'[t].formError = tab[t].formError /\ tab'[t].open = FALSE
  <1>1. tab' = [tab EXCEPT ![t].open = FALSE]
    BY Zenon DEF CloseForm
  <1>2. UNCHANGED <<scene, rows, call>>
    BY Zenon DEF CloseForm
  <1>3. OnlyTab(t)
    BY ONLY <1>1, <1>2, Tabbed, t \in Tabs, SMTT(60) DEF Tabbed, TabFields, OnlyTab
  <1> QED
    BY ONLY <1>1, <1>2, <1>3, Tabbed, t \in Tabs, SMTT(60) DEF Tabbed, TabFields, SameForm, SameTable

\* The rows are shown as they are.
LEMMA RefreshTab ==
    ASSUME Tabbed, NEW t \in Tabs, Refresh(t)
    PROVE  /\ OnlyTab(t) /\ UNCHANGED call /\ SameForm(tab[t], tab'[t])
           /\ LET v == tab[t]
                  w == tab'[t]
              IN  /\ w.open = v.open /\ w.shown = rows /\ w.refreshing = FALSE
                  /\ w.loaded = v.loaded /\ w.archiving = v.archiving /\ w.submitting = v.submitting
                  /\ w.sent = v.sent /\ w.listError = v.listError /\ w.formError = v.formError
  <1>1. tab' = [tab EXCEPT ![t].shown = rows, ![t].refreshing = FALSE]
    BY Zenon DEF Refresh
  <1>2. UNCHANGED <<scene, rows, call>>
    BY Zenon DEF Refresh
  <1>3. OnlyTab(t)
    BY ONLY <1>1, <1>2, Tabbed, t \in Tabs, SMTT(60) DEF Tabbed, TabFields, OnlyTab
  <1> QED
    BY ONLY <1>1, <1>2, <1>3, Tabbed, t \in Tabs, SMTT(60) DEF Tabbed, TabFields, SameForm

\* A page that is loaded, and the employee's form on it.
LEMMA NewTab ==
    ASSUME NEW snapshot
    PROVE  LET w == Tab(snapshot)
           IN  /\ DOMAIN w = TabFields /\ w.loaded = TRUE /\ w.open = FALSE /\ w.editing = None
               /\ w.formError = FALSE /\ w.listError = FALSE /\ w.submitting = FALSE /\ w.archiving = None
               /\ w.shown = snapshot /\ w.refreshing = FALSE /\ w.typed = {}
  BY SMTT(30) DEF Tab, TabFields

\* A page is loaded.
LEMMA LoadTab ==
    ASSUME Tabbed, NEW t \in Tabs, Load(t)
    PROVE  OnlyTab(t) /\ UNCHANGED call /\ tab'[t] = Tab(rows)
  <1>1. tab' = [tab EXCEPT ![t] = Tab(rows)] /\ UNCHANGED <<scene, rows, call>>
    BY Zenon DEF Load
  <1> QED
    BY <1>1, NewTab DEF Tabbed, OnlyTab

\* The employee's form is opened.
LEMMA OpenEmployeeTab ==
    ASSUME Tabbed, NEW t \in Tabs, OpenEmployee(t)
    PROVE  /\ OnlyTab(t) /\ UNCHANGED call /\ scene.panel = "employee"
           /\ \E id \in {None} \cup {i \in Ids : rows[i] # None} :
                LET w == tab'[t]
                IN  /\ w.loaded = TRUE /\ w.open = TRUE /\ w.editing = id /\ w.formError = FALSE
                    /\ w.listError = FALSE /\ w.submitting = FALSE /\ w.archiving = None
                    /\ w.shown = rows /\ w.refreshing = FALSE /\ w.typed = {}
                    /\ w.form = IF id = None THEN EmptyEmployee ELSE EmployeeForm(rows[id])
                    /\ w.from = IF id = None THEN None ELSE rows[id]
  <1>1. PICK id \in {None} \cup {i \in Ids : rows[i] # None} :
          tab' = [tab EXCEPT ![t] =
             [Tab(rows) EXCEPT !.open = TRUE, !.editing = id, !.opened = tab[t].opened + 1,
                !.form = IF id = None THEN EmptyEmployee ELSE EmployeeForm(rows[id]),
                !.from = IF id = None THEN None ELSE rows[id]]]
    BY Zenon DEF OpenEmployee
  <1>2. UNCHANGED <<scene, rows, call>> /\ scene.panel = "employee"
    BY Zenon DEF OpenEmployee, InTab
  <1> DEFINE fresh == Tab(rows)
             opened == tab[t].opened + 1
             form == IF id = None THEN EmptyEmployee ELSE EmployeeForm(rows[id])
             from == IF id = None THEN None ELSE rows[id]
             w == [fresh EXCEPT !.open = TRUE, !.editing = id, !.opened = opened, !.form = form, !.from = from]
  <1>3. tab' = [tab EXCEPT ![t] = w]
    BY <1>1
  <1>4. /\ DOMAIN fresh = TabFields /\ fresh.loaded = TRUE /\ fresh.open = FALSE /\ fresh.editing = None
        /\ fresh.formError = FALSE /\ fresh.listError = FALSE /\ fresh.submitting = FALSE
        /\ fresh.archiving = None /\ fresh.shown = rows /\ fresh.refreshing = FALSE /\ fresh.typed = {}
    BY NewTab
  <1> HIDE DEF fresh, opened, form, from
  <1>5. /\ DOMAIN w = TabFields /\ w.loaded = TRUE /\ w.open = TRUE /\ w.editing = id /\ w.formError = FALSE
        /\ w.listError = FALSE /\ w.submitting = FALSE /\ w.archiving = None
        /\ w.shown = rows /\ w.refreshing = FALSE /\ w.typed = {} /\ w.form = form /\ w.from = from
    BY ONLY <1>4, SMTT(30) DEF TabFields
  <1> HIDE DEF w
  <1>6. OnlyTab(t) /\ tab'[t] = w
    BY <1>2, <1>3, <1>5 DEF Tabbed, OnlyTab
  <1> QED
    BY <1>2, <1>5, <1>6 DEF form, from

\* What an answer, or its loss, changes in the tab that waits for it: it closes the
\* form, or leaves it as it is, or moves on from the employee's form.
Settled(v, w) ==
    \/ /\ SameForm(v, w)
       /\ w.loaded = v.loaded /\ w.shown = v.shown /\ w.sent = v.sent
       /\ w.archiving \in {v.archiving, None} /\ w.submitting \in {v.submitting, FALSE}
       /\ w.open => v.open
       /\ Flags(v) => Flags(w)
    \/ w = [Tab(rows) EXCEPT !.opened = v.opened]

\* A tab whose request is settled, and only that, does one of these.
LEMMA SettleTab ==
    ASSUME Tabbed, NEW c \in Calls, Answer(c) \/ Lose(c), call[c].tab \in Tabs
    PROVE  OnlyTab(call[c].tab) /\ Settled(tab[call[c].tab], tab'[call[c].tab])
  <1>1. PICK answer : Settle(c, answer)
    BY DEF Answer, Lose
  <1>2. PICK t \in Tabs : t = call[c].tab
    OBVIOUS
  <1>3. UNCHANGED <<scene, rows>>
    BY <1>1 DEF Settle
  <1> DEFINE ok == answer = "ok"
  <1>4. ok \in BOOLEAN
    OBVIOUS
  <1>5. CASE SettleSave(c, answer = "ok")
    <2>1. tab' = [tab EXCEPT ![t].open = @ /\ ~ok, ![t].refreshing = @ \/ ok,
                           ![t].formError = @ \/ ~ok, ![t].submitting = FALSE]
      BY <1>2, <1>5, Zenon DEF SettleSave
    <2> HIDE DEF ok
    <2>2. OnlyTab(t)
      BY ONLY <2>1, <1>3, Tabbed, t \in Tabs, SMTT(60) DEF Tabbed, TabFields, OnlyTab
    <2>3. LET v == tab[t]
              w == tab'[t]
          IN  /\ w.editing = v.editing /\ w.form = v.form /\ w.typed = v.typed /\ w.from = v.from
              /\ w.loaded = v.loaded /\ w.shown = v.shown /\ w.sent = v.sent /\ w.archiving = v.archiving
              /\ w.submitting = FALSE /\ w.open = (v.open /\ ~ok) /\ w.refreshing = (v.refreshing \/ ok)
              /\ w.formError = (v.formError \/ ~ok) /\ w.listError = v.listError
      BY ONLY <2>1, Tabbed, t \in Tabs, SMTT(60) DEF Tabbed, TabFields
    <2>4. SameForm(tab[t], tab'[t]) /\ (tab'[t].open => tab[t].open)
      BY <2>3 DEF SameForm
    <2>5. Flags(tab[t]) => Flags(tab'[t])
      BY <1>4, <2>3 DEF Flags
    <2> QED
      BY <1>2, <2>2, <2>3, <2>4, <2>5, Zenon DEF Settled
  <1>6. CASE SettleActive(c, answer = "ok")
    <2>1. tab' = [tab EXCEPT ![t].refreshing = @ \/ ok, ![t].listError = @ \/ ~ok, ![t].archiving = None]
      BY <1>2, <1>6, Zenon DEF SettleActive
    <2> HIDE DEF ok
    <2>2. OnlyTab(t)
      BY ONLY <2>1, <1>3, Tabbed, t \in Tabs, SMTT(60) DEF Tabbed, TabFields, OnlyTab
    <2>3. LET v == tab[t]
              w == tab'[t]
          IN  /\ w.editing = v.editing /\ w.form = v.form /\ w.typed = v.typed /\ w.from = v.from
              /\ w.loaded = v.loaded /\ w.shown = v.shown /\ w.sent = v.sent /\ w.archiving = None
              /\ w.submitting = v.submitting /\ w.open = v.open /\ w.refreshing = (v.refreshing \/ ok)
              /\ w.formError = v.formError /\ w.listError = (v.listError \/ ~ok)
      BY ONLY <2>1, Tabbed, t \in Tabs, SMTT(60) DEF Tabbed, TabFields
    <2>4. SameForm(tab[t], tab'[t]) /\ (tab'[t].open => tab[t].open)
      BY <2>3 DEF SameForm
    <2>5. Flags(tab[t]) => Flags(tab'[t])
      BY <1>4, <2>3 DEF Flags
    <2> QED
      BY <1>2, <2>2, <2>3, <2>4, <2>5, Zenon DEF Settled
  <1>7. CASE SettleEmployee(c, answer)
    <2> DEFINE w == [Tab(rows) EXCEPT !.opened = tab[t].opened]
    <2>1. \/ tab' = [tab EXCEPT ![t] = w]
          \/ tab' = [tab EXCEPT ![t].formError = TRUE, ![t].submitting = FALSE]
          \/ tab' = tab
      <3>1. CASE answer = "ok"
        BY <1>2, <1>7, <3>1, Zenon DEF SettleEmployee
      <3>2. CASE answer # "ok" /\ answer = "refused" /\ tab[t].open /\ tab[t].sent = c
        BY <1>2, <1>7, <3>2 DEF SettleEmployee
      <3>3. CASE answer # "ok" /\ ~(answer = "refused" /\ tab[t].open /\ tab[t].sent = c)
        BY <1>2, <1>7, <3>3 DEF SettleEmployee
      <3> QED
        BY <3>1, <3>2, <3>3
    <2>2. CASE tab' = [tab EXCEPT ![t] = w]
      <3>1. DOMAIN Tab(rows) = TabFields
        BY NewTab
      <3>2. DOMAIN w = TabFields
        BY <3>1
      <3> HIDE DEF w
      <3>3. OnlyTab(t) /\ tab'[t] = w
        BY <1>3, <2>2, <3>2 DEF Tabbed, OnlyTab
      <3> QED
        BY <1>2, <3>3, Zenon DEF Settled, w
    <2>3. CASE tab' = [tab EXCEPT ![t].formError = TRUE, ![t].submitting = FALSE]
      <3>1. OnlyTab(t)
        BY ONLY <2>3, <1>3, Tabbed, t \in Tabs, SMTT(60) DEF Tabbed, TabFields, OnlyTab
      <3>2. LET v == tab[t]
                x == tab'[t]
            IN  /\ x.editing = v.editing /\ x.form = v.form /\ x.typed = v.typed /\ x.from = v.from
                /\ x.loaded = v.loaded /\ x.shown = v.shown /\ x.sent = v.sent /\ x.archiving = v.archiving
                /\ x.submitting = FALSE /\ x.open = v.open /\ x.refreshing = v.refreshing
                /\ x.formError = TRUE /\ x.listError = v.listError
        BY ONLY <2>3, Tabbed, t \in Tabs, SMTT(60) DEF Tabbed, TabFields
      <3>3. SameForm(tab[t], tab'[t]) /\ (Flags(tab[t]) => Flags(tab'[t]))
        BY <3>2 DEF SameForm, Flags
      <3> QED
        BY <1>2, <3>1, <3>2, <3>3, Zenon DEF Settled
    <2>4. CASE tab' = tab
      <3>1. OnlyTab(t) /\ tab'[t] = tab[t]
        BY <1>3, <2>4 DEF Tabbed, OnlyTab
      <3>2. SameForm(tab[t], tab'[t])
        BY <3>1 DEF SameForm
      <3> QED
        BY <1>2, <3>1, <3>2 DEF Settled
    <2> QED
      BY <2>1, <2>2, <2>3, <2>4
  <1> QED
    BY <1>1, <1>5, <1>6, <1>7 DEF Settle

-----------------------------------------------------------------------------
(* The invariant of the forms: what a form holds is what was shown or typed, *)
(* what a request sends is what its form held, and rows that were created   *)
(* are there under their key, unless an edit has changed it.                *)

FormFields(p) == IF p = "holidays" THEN DOMAIN EmptyHoliday ELSE Columns(p)

\* The key columns that the form of a panel can edit.
EditableKey(p) == IF p = "schedules" THEN {"name"} ELSE IF p = "employee" THEN {"workEmail"} ELSE {}

\* A form that edits holds the row it was opened from, but for what was typed.
FormFits(editing, form, from, typed) ==
    /\ DOMAIN form = FormFields(scene.panel)
    /\ \A f \in (DOMAIN form) \ {"scope"} : form[f] \in Nat
    /\ editing # None =>
          /\ rows[editing] # None /\ from \in RowsOf(scene.panel)
          /\ \A f \in (DOMAIN form) \ {"scope", "branchId"} : f \in typed \/ form[f] = from.fields[f]

TabOk(v) ==
    /\ DOMAIN v = TabFields /\ Flags(v)
    /\ v.editing \in Ids \cup {None} /\ v.archiving \in Ids \cup {None}
    /\ v.submitting => v.sent \in Calls
    /\ v.shown \in [Ids -> {None} \cup RowsOf(scene.panel)]
    /\ \A i \in Ids : v.shown[i] # None => rows[i] # None
    /\ v.open => FormFits(v.editing, v.form, v.from, v.typed)

\* A payload holds columns of the table; an edit's what was typed or shown.
PayloadFits(verb, payload, from, typed) ==
    /\ payload \in [DOMAIN payload -> Nat] /\ (DOMAIN payload) \subseteq Columns(scene.panel)
    /\ verb = "POST" => EditableKey(scene.panel) \subseteq DOMAIN payload
    /\ verb = "PATCH" =>
          /\ KeyColumns \cap (DOMAIN payload) \subseteq EditableKey(scene.panel)
          /\ from \in RowsOf(scene.panel)
          /\ \A f \in DOMAIN payload : f \in typed \/ payload[f] = from.fields[f]

CallOk(q) ==
    q # NoCall =>
        /\ DOMAIN q = CallFields /\ q.tab \in Tabs /\ q.waiting \in BOOLEAN
        /\ q.state \in {"sent", "found", "ok", "refused"} /\ q.verb \in {"POST", "PATCH", "DELETE", "RESTORE"}
        /\ q.verb # "POST" => q.id \in Ids /\ rows[q.id] # None
        /\ q.verb \in {"POST", "PATCH"} => PayloadFits(q.verb, q.payload, q.from, q.typed)
        /\ q.state = "found" => q.existing \in RowsOf(scene.panel)

Stored == scene \in Scenes /\ rows \in [Ids -> {None} \cup RowsOf(scene.panel)]
TabsOk == DOMAIN tab = Tabs /\ \A t \in Tabs : TabOk(tab[t])
CallsOk == DOMAIN call = Calls /\ \A c \in Calls : CallOk(call[c])

\* The row that a panel stores when a payload is sent.
Inserted(payload) ==
    Over(payload, CASE scene.panel = "shifts" -> EmptyShift [] scene.panel = "schedules" -> EmptySchedule
                    [] scene.panel = "holidays" -> NoHoliday [] scene.panel = "employee" -> EmptyEmployee)

KeptOrFreed(c) ==
    Created(c) =>
       \/ \E e \in Calls : Frees(e, call[c].payload)
       \/ \E i \in Ids : rows[i] # None /\ UniqueKey(rows[i].fields) = UniqueKey(Inserted(call[c].payload))

KeysOk == (\A c \in Calls : KeptOrFreed(c)) /\ OneRowPerPayload

FormsInv == Stored /\ TabsOk /\ CallsOk /\ KeysOk

\* The panel is one of the four, and None is neither a row nor an id.
LEMMA SceneFacts ==
    ASSUME Stored
    PROVE  /\ scene.panel \in Panels /\ None \notin RowsOf(scene.panel) /\ None \notin Ids /\ None \notin Calls
           /\ scene.rows \in [Ids -> {None} \cup RowsOf(scene.panel)]
           /\ \A f \in DOMAIN scene.entered :
                 scene.entered[f] \subseteq IF f = "scope" THEN {"company", "branch"} ELSE Nat
  BY ScenesAssumption DEF Stored

\* The keys are columns, and those of the forms that can be edited are required.
LEMMA KeysAreColumns ==
    ASSUME Stored
    PROVE  KeyColumns \subseteq Columns(scene.panel) /\ EditableKey(scene.panel) \subseteq KeyColumns
  <1>1. scene.panel \in Panels
    BY SceneFacts
  <1>2. CASE scene.panel = "shifts"
    BY <1>2 DEF KeyColumns, Columns, EditableKey, EmptyShift
  <1>3. CASE scene.panel = "schedules"
    BY <1>3 DEF KeyColumns, Columns, EditableKey, EmptySchedule
  <1>4. CASE scene.panel = "holidays"
    BY <1>4 DEF KeyColumns, Columns, EditableKey, NoHoliday
  <1>5. CASE scene.panel = "employee"
    BY <1>5 DEF KeyColumns, Columns, EditableKey, EmployeeFields, EmployeeRequired
  <1> QED
    BY <1>1, <1>2, <1>3, <1>4, <1>5 DEF Panels

\* What replaces some columns is a row's fields again.
LEMMA OverFits ==
    ASSUME NEW S, NEW sent, sent \in [DOMAIN sent -> Nat], (DOMAIN sent) \subseteq S, NEW columns \in [S -> Nat]
    PROVE  /\ Over(sent, columns) \in [S -> Nat]
           /\ \A k \in S : Over(sent, columns)[k] = IF k \in DOMAIN sent THEN sent[k] ELSE columns[k]
  <1>1. (DOMAIN sent) \cup (DOMAIN columns) = S
    OBVIOUS
  <1>2. Over(sent, columns) = [k \in S |-> IF k \in DOMAIN sent THEN sent[k] ELSE columns[k]]
    BY <1>1 DEF Over
  <1> QED
    BY <1>2

\* A payload is stored as a row.
LEMMA InsertedFits ==
    ASSUME Stored, NEW payload, payload \in [DOMAIN payload -> Nat], (DOMAIN payload) \subseteq Columns(scene.panel)
    PROVE  /\ Inserted(payload) \in [Columns(scene.panel) -> Nat]
           /\ \A k \in DOMAIN payload : Inserted(payload)[k] = payload[k]
  <1> DEFINE empty == CASE scene.panel = "shifts" -> EmptyShift [] scene.panel = "schedules" -> EmptySchedule
                        [] scene.panel = "holidays" -> NoHoliday [] scene.panel = "employee" -> EmptyEmployee
  <1>1. empty \in [Columns(scene.panel) -> Nat]
    <2>1. scene.panel \in Panels
      BY SceneFacts
    <2>2. CASE scene.panel = "shifts"
      BY <2>2 DEF Columns, EmptyShift, Blank
    <2>3. CASE scene.panel = "schedules"
      BY <2>3 DEF Columns, EmptySchedule, Blank
    <2>4. CASE scene.panel = "holidays"
      BY <2>4 DEF Columns, NoHoliday, Blank
    <2>5. CASE scene.panel = "employee"
      <3>1. EmptyEmployee \in [EmployeeFields -> Nat]
        BY DEF EmptyEmployee, Blank
      <3> QED
        BY <2>5, <3>1 DEF Columns
    <2> QED
      BY <2>1, <2>2, <2>3, <2>4, <2>5 DEF Panels
  <1>2. Inserted(payload) = Over(payload, empty)
    BY DEF Inserted
  <1> HIDE DEF empty
  <1> QED
    BY <1>1, <1>2, OverFits

\* No row disappears.
RowsStay == scene' = scene /\ \A i \in Ids : rows[i] # None => rows'[i] # None

\* What is right of a tab stays so.
LEMMA TabStays ==
    ASSUME RowsStay, NEW v, TabOk(v)
    PROVE  TabOk(v)'
  BY DEF RowsStay, TabOk, FormFits, Flags

\* One tab changes, and the others stay as they are.
LEMMA TabStep ==
    ASSUME TabsOk, NEW t \in Tabs, OnlyTab(t), NEW w, w = tab'[t], TabOk(w)
    PROVE  TabsOk'
  <1>1. RowsStay /\ DOMAIN tab' = Tabs /\ \A s \in Tabs \ {t} : tab'[s] = tab[s]
    BY DEF OnlyTab, RowsStay, Tabbed
  <1>2. TabOk(tab[t])'
    <2>1. TabOk(w)'
      BY <1>1, TabStays
    <2> QED
      BY <2>1
  <1>3. ASSUME NEW s \in Tabs \ {t} PROVE TabOk(tab[s])'
    <2>1. PICK v : v = tab[s]
      OBVIOUS
    <2>2. TabOk(v) /\ tab'[s] = v
      BY <1>1, <2>1 DEF TabsOk
    <2>3. TabOk(v)'
      BY <1>1, <2>2, TabStays
    <2> QED
      BY <2>2, <2>3
  <1> QED
    BY <1>1, <1>2, <1>3 DEF TabsOk

\* All tabs stay, whatever happens to the rows.
LEMMA TabsStay ==
    ASSUME TabsOk, RowsStay, tab' = tab
    PROVE  TabsOk'
  <1>1. ASSUME NEW s \in Tabs PROVE TabOk(tab[s])'
    <2>1. PICK v : v = tab[s]
      OBVIOUS
    <2>2. TabOk(v) /\ tab'[s] = v
      BY <2>1 DEF TabsOk
    <2>3. TabOk(v)'
      BY <2>2, TabStays
    <2> QED
      BY <2>2, <2>3
  <1> QED
    BY <1>1 DEF TabsOk

\* The tabs have their fields.
LEMMA TabsAreTabbed ==
    ASSUME TabsOk
    PROVE  Tabbed
  BY DEF TabsOk, TabOk, Tabbed

\* Opening a form that fits.
LEMMA OpenFormOk ==
    ASSUME TabsOk, NEW t \in Tabs, NEW id \in Ids \cup {None}, NEW form, NEW row,
           OpenForm(t, id, form, row), FormFits(id, form, row, {})
    PROVE  TabsOk'
  <1>1. PICK v, w : v = tab[t] /\ w = tab'[t]
    OBVIOUS
  <1>2. TabOk(v)
    BY <1>1 DEF TabsOk
  <1>3. /\ OnlyTab(t) /\ SameTable(v, w)
        /\ w.open = TRUE /\ w.editing = id /\ w.form = form /\ w.typed = {} /\ w.from = row
        /\ w.formError = FALSE
    BY <1>1, OpenFormTab, TabsAreTabbed
  <1>4. DOMAIN w = TabFields
    BY <1>1, <1>3 DEF OnlyTab, Tabbed
  <1>5. TabOk(w)
    BY <1>2, <1>3, <1>4 DEF TabOk, SameTable, Flags
  <1> QED
    BY <1>1, <1>3, <1>5, TabStep

\* Typing.
LEMMA TypeIntoOk ==
    ASSUME Stored, TabsOk, NEW t \in Tabs, NEW enabled, TypeInto(t, enabled)
    PROVE  TabsOk'
  <1>1. PICK v, w : v = tab[t] /\ w = tab'[t]
    OBVIOUS
  <1>2. TabOk(v)
    BY <1>1 DEF TabsOk
  <1>3. /\ OnlyTab(t) /\ SameTable(v, w)
        /\ \E f \in DOMAIN scene.entered : \E x \in scene.entered[f] :
              /\ w.open = v.open /\ v.open /\ w.editing = v.editing /\ w.from = v.from
              /\ w.formError = v.formError
              /\ w.form = [v.form EXCEPT ![f] = x] /\ w.typed = v.typed \cup {f}
    BY <1>1, TypeIntoTab, TabsAreTabbed
  <1>4. PICK f \in DOMAIN scene.entered : \E x \in scene.entered[f] :
              /\ w.open = v.open /\ v.open /\ w.editing = v.editing /\ w.from = v.from
              /\ w.formError = v.formError
              /\ w.form = [v.form EXCEPT ![f] = x] /\ w.typed = v.typed \cup {f}
    BY <1>3
  <1>5. PICK x \in scene.entered[f] :
              /\ w.open = v.open /\ v.open /\ w.editing = v.editing /\ w.from = v.from
              /\ w.formError = v.formError
              /\ w.form = [v.form EXCEPT ![f] = x] /\ w.typed = v.typed \cup {f}
    BY <1>4
  <1>6. f # "scope" => x \in Nat
    BY SceneFacts
  <1>7. FormFits(v.editing, v.form, v.from, v.typed)
    BY <1>2, <1>5 DEF TabOk
  <1>8. FormFits(w.editing, w.form, w.from, w.typed)
    BY <1>5, <1>6, <1>7 DEF FormFits
  <1>9. DOMAIN w = TabFields
    BY <1>1, <1>3 DEF OnlyTab, Tabbed
  <1>10. TabOk(w)
    BY <1>2, <1>3, <1>5, <1>8, <1>9 DEF TabOk, SameTable, Flags
  <1> QED
    BY <1>1, <1>3, <1>10, TabStep

\* A form that is kept or closed fits as before.
LEMMA SameFormFits ==
    ASSUME NEW v, NEW w, SameForm(v, w), w.open => v.open, v.open => FormFits(v.editing, v.form, v.from, v.typed)
    PROVE  w.open => FormFits(w.editing, w.form, w.from, w.typed)
  BY DEF SameForm

\* Submitting.
LEMMA SubmitFormTabOk ==
    ASSUME TabsOk, NEW t \in Tabs, NEW c \in Calls, NEW payload, NEW required, SubmitForm(t, c, payload, required)
    PROVE  TabsOk'
  <1>1. PICK v, w : v = tab[t] /\ w = tab'[t]
    OBVIOUS
  <1>2. TabOk(v)
    BY <1>1 DEF TabsOk
  <1>3. /\ OnlyTab(t) /\ SameForm(v, w)
        /\ v.open /\ w.open = v.open /\ w.submitting = TRUE /\ w.sent = c /\ w.formError = FALSE
        /\ w.loaded = v.loaded /\ w.shown = v.shown /\ w.archiving = v.archiving
        /\ w.refreshing = v.refreshing /\ w.listError = v.listError
    BY <1>1, SubmitFormTab, TabsAreTabbed
  <1>4. DOMAIN w = TabFields
    BY <1>1, <1>3 DEF OnlyTab, Tabbed
  <1>5. TabOk(w)
    BY <1>1, <1>2, <1>3, <1>4, SameFormFits DEF TabOk, Flags, SameForm
  <1> QED
    BY <1>1, <1>3, <1>5, TabStep

\* Pressing a row's button.
LEMMA SendActiveTabOk ==
    ASSUME TabsOk, NEW t \in Tabs, NEW id \in Ids, NEW c \in Calls, NEW verb, SendActive(t, id, c, verb)
    PROVE  TabsOk'
  <1>1. PICK v, w : v = tab[t] /\ w = tab'[t]
    OBVIOUS
  <1>2. TabOk(v)
    BY <1>1 DEF TabsOk
  <1>3. /\ OnlyTab(t) /\ SameForm(v, w)
        /\ w.open = v.open /\ w.archiving = id /\ w.listError = FALSE
        /\ w.loaded = v.loaded /\ w.shown = v.shown /\ w.submitting = v.submitting
        /\ w.sent = v.sent /\ w.refreshing = v.refreshing /\ w.formError = v.formError
    BY <1>1, SendActiveTab, TabsAreTabbed
  <1>4. DOMAIN w = TabFields
    BY <1>1, <1>3 DEF OnlyTab, Tabbed
  <1>5. TabOk(w)
    BY <1>2, <1>3, <1>4, SameFormFits DEF TabOk, Flags, SameForm
  <1> QED
    BY <1>1, <1>3, <1>5, TabStep

\* Closing a form.
LEMMA CloseFormOk ==
    ASSUME TabsOk, NEW t \in Tabs, CloseForm(t)
    PROVE  TabsOk'
  <1>1. PICK v, w : v = tab[t] /\ w = tab'[t]
    OBVIOUS
  <1>2. TabOk(v)
    BY <1>1 DEF TabsOk
  <1>3. OnlyTab(t) /\ SameForm(v, w) /\ SameTable(v, w) /\ w.formError = v.formError /\ w.open = FALSE
    BY <1>1, CloseFormTab, TabsAreTabbed
  <1>4. DOMAIN w = TabFields
    BY <1>1, <1>3 DEF OnlyTab, Tabbed
  <1>5. TabOk(w)
    BY <1>2, <1>3, <1>4 DEF TabOk, Flags, SameForm, SameTable
  <1> QED
    BY <1>1, <1>3, <1>5, TabStep

\* Refreshing the rows.
LEMMA RefreshOk ==
    ASSUME Stored, TabsOk, NEW t \in Tabs, Refresh(t)
    PROVE  TabsOk'
  <1>1. PICK v, w : v = tab[t] /\ w = tab'[t]
    OBVIOUS
  <1>2. TabOk(v)
    BY <1>1 DEF TabsOk
  <1>3. /\ OnlyTab(t) /\ SameForm(v, w)
        /\ w.open = v.open /\ w.shown = rows /\ w.refreshing = FALSE
        /\ w.loaded = v.loaded /\ w.archiving = v.archiving /\ w.submitting = v.submitting
        /\ w.sent = v.sent /\ w.listError = v.listError /\ w.formError = v.formError
    BY <1>1, RefreshTab, TabsAreTabbed
  <1>4. DOMAIN w = TabFields
    BY <1>1, <1>3 DEF OnlyTab, Tabbed
  <1>5. TabOk(w)
    BY <1>2, <1>3, <1>4, SameFormFits DEF TabOk, Flags, SameForm, Stored
  <1> QED
    BY <1>1, <1>3, <1>5, TabStep

\* A page that was just loaded.
LEMMA NewTabOk ==
    ASSUME Stored
    PROVE  TabOk(Tab(rows))
  <1>1. PICK w : w = Tab(rows)
    OBVIOUS
  <1>2. /\ DOMAIN w = TabFields /\ w.loaded = TRUE /\ w.open = FALSE /\ w.editing = None
        /\ w.formError = FALSE /\ w.listError = FALSE /\ w.submitting = FALSE /\ w.archiving = None
        /\ w.shown = rows /\ w.refreshing = FALSE
    BY <1>1, NewTab
  <1>3. TabOk(w)
    BY <1>2 DEF TabOk, Flags, Stored
  <1> QED
    BY <1>1, <1>3

\* Loading a page.
LEMMA LoadOk ==
    ASSUME Stored, TabsOk, NEW t \in Tabs, Load(t)
    PROVE  TabsOk'
  <1>1. PICK w : w = Tab(rows)
    OBVIOUS
  <1>2. OnlyTab(t) /\ w = tab'[t] /\ TabOk(w)
    BY <1>1, LoadTab, TabsAreTabbed, NewTabOk
  <1> QED
    BY <1>2, TabStep

\* An answer, or its loss.
LEMMA SettleTabOk ==
    ASSUME Stored, TabsOk, NEW c \in Calls, Answer(c) \/ Lose(c), call[c].tab \in Tabs
    PROVE  TabsOk'
  <1>1. PICK t \in Tabs : t = call[c].tab
    OBVIOUS
  <1>2. PICK v, w : v = tab[t] /\ w = tab'[t]
    OBVIOUS
  <1>3. TabOk(v)
    BY <1>2 DEF TabsOk
  <1>4. OnlyTab(t) /\ Settled(v, w)
    BY <1>1, <1>2, SettleTab, TabsAreTabbed
  <1>5. DOMAIN w = TabFields
    BY <1>2, <1>4 DEF OnlyTab, Tabbed
  <1>6. TabOk(w)
    <2>1. CASE w = [Tab(rows) EXCEPT !.opened = v.opened]
      <3>1. PICK n : n = Tab(rows)
        OBVIOUS
      <3>2. TabOk(n) /\ n.open = FALSE
        BY <3>1, NewTab, NewTabOk
      <3>3. w = [n EXCEPT !.opened = v.opened]
        BY <2>1, <3>1
      <3>4. /\ w.loaded = n.loaded /\ w.open = FALSE /\ w.editing = n.editing
            /\ w.formError = n.formError /\ w.listError = n.listError /\ w.submitting = n.submitting
            /\ w.archiving = n.archiving /\ w.shown = n.shown /\ w.refreshing = n.refreshing /\ w.sent = n.sent
        BY ONLY <3>2, <3>3, SMTT(30) DEF TabOk, TabFields
      <3> QED
        BY <1>5, <3>2, <3>4 DEF TabOk, Flags
    <2>2. CASE w # [Tab(rows) EXCEPT !.opened = v.opened]
      <3>1. /\ SameForm(v, w)
            /\ w.loaded = v.loaded /\ w.shown = v.shown /\ w.sent = v.sent
            /\ w.archiving \in {v.archiving, None} /\ w.submitting \in {v.submitting, FALSE}
            /\ w.open => v.open
            /\ Flags(v) => Flags(w)
        BY <1>4, <2>2, Zenon DEF Settled
      <3>3. Flags(v)
        BY <1>3 DEF TabOk
      <3> QED
        BY <1>3, <1>5, <3>1, <3>3, SameFormFits DEF TabOk, SameForm
    <2> QED
      BY <2>1, <2>2
  <1> QED
    BY <1>1, <1>2, <1>4, <1>6, TabStep

\* A new form fits.
LEMMA NewFormsFit ==
    ASSUME Stored
    PROVE  /\ scene.panel = "shifts" => FormFits(None, EmptyShift, None, {})
           /\ scene.panel = "schedules" => FormFits(None, EmptySchedule, None, {})
           /\ scene.panel = "holidays" => FormFits(None, EmptyHoliday, None, {})
           /\ scene.panel = "employee" => FormFits(None, EmptyEmployee, None, {})
  <1>1. ASSUME scene.panel = "shifts" PROVE FormFits(None, EmptyShift, None, {})
    BY <1>1 DEF FormFits, FormFields, Columns, EmptyShift, Blank
  <1>2. ASSUME scene.panel = "schedules" PROVE FormFits(None, EmptySchedule, None, {})
    BY <1>2 DEF FormFits, FormFields, Columns, EmptySchedule, Blank
  <1>3. ASSUME scene.panel = "holidays" PROVE FormFits(None, EmptyHoliday, None, {})
    BY <1>3 DEF FormFits, FormFields, EmptyHoliday, Blank, FirstBranch
  <1>4. ASSUME scene.panel = "employee" PROVE FormFits(None, EmptyEmployee, None, {})
    BY <1>4 DEF FormFits, FormFields, Columns, EmptyEmployee, Blank
  <1> QED
    BY <1>1, <1>2, <1>3, <1>4

\* A form that is filled from a row fits.
LEMMA RowFormsFit ==
    ASSUME Stored, NEW id \in Ids, rows[id] # None, NEW row \in RowsOf(scene.panel)
    PROVE  /\ scene.panel = "shifts" => FormFits(id, ShiftForm(row), row, {})
           /\ scene.panel = "schedules" => FormFits(id, ScheduleForm(row), row, {})
           /\ scene.panel = "holidays" => FormFits(id, HolidayForm(row), row, {})
           /\ scene.panel = "employee" => FormFits(id, EmployeeForm(row), row, {})
  <1>1. row.fields \in [Columns(scene.panel) -> Nat]
    BY DEF RowsOf
  <1>2. ASSUME scene.panel \in {"shifts", "schedules", "employee"} PROVE FormFits(id, row.fields, row, {})
    BY <1>1, <1>2 DEF FormFits, FormFields
  <1>3. ASSUME scene.panel = "holidays" PROVE FormFits(id, HolidayForm(row), row, {})
    <2>1. DOMAIN EmptyHoliday = {"name", "date", "holidayType", "description", "scope", "branchId"}
      BY DEF EmptyHoliday
    <2>2. Columns(scene.panel) = {"name", "date", "holidayType", "description", "branchId"}
      BY <1>3 DEF Columns, NoHoliday
    <2> DEFINE form == HolidayForm(row)
    <2>3. DOMAIN form = DOMAIN EmptyHoliday
      BY DEF HolidayForm
    <2>4. \A f \in {"name", "date", "holidayType", "description"} : form[f] = row.fields[f]
      BY <2>1 DEF HolidayForm
    <2>5. form["branchId"] \in {row.fields["branchId"], FirstBranch}
      BY <2>1 DEF HolidayForm
    <2> HIDE DEF form
    <2>6. \A f \in (DOMAIN form) \ {"scope"} : form[f] \in Nat
      BY <1>1, <2>1, <2>2, <2>3, <2>4, <2>5 DEF FirstBranch
    <2>7. \A f \in (DOMAIN form) \ {"scope", "branchId"} : form[f] = row.fields[f]
      BY <2>1, <2>3, <2>4
    <2>8. FormFits(id, form, row, {})
      BY <1>3, <2>3, <2>6, <2>7 DEF FormFits, FormFields
    <2> QED
      BY <2>8 DEF form
  <1> QED
    BY <1>2, <1>3 DEF ShiftForm, ScheduleForm, EmployeeForm

\* Opening the employee's form.
LEMMA OpenEmployeeOk ==
    ASSUME Stored, TabsOk, NEW t \in Tabs, OpenEmployee(t)
    PROVE  TabsOk'
  <1>1. PICK w : w = tab'[t]
    OBVIOUS
  <1>2. /\ OnlyTab(t) /\ scene.panel = "employee"
        /\ \E id \in {None} \cup {i \in Ids : rows[i] # None} :
                /\ w.loaded = TRUE /\ w.open = TRUE /\ w.editing = id /\ w.formError = FALSE
                /\ w.listError = FALSE /\ w.submitting = FALSE /\ w.archiving = None
                /\ w.shown = rows /\ w.refreshing = FALSE /\ w.typed = {}
                /\ w.form = IF id = None THEN EmptyEmployee ELSE EmployeeForm(rows[id])
                /\ w.from = IF id = None THEN None ELSE rows[id]
    BY <1>1, OpenEmployeeTab, TabsAreTabbed
  <1>3. PICK id \in {None} \cup {i \in Ids : rows[i] # None} :
                /\ w.loaded = TRUE /\ w.open = TRUE /\ w.editing = id /\ w.formError = FALSE
                /\ w.listError = FALSE /\ w.submitting = FALSE /\ w.archiving = None
                /\ w.shown = rows /\ w.refreshing = FALSE /\ w.typed = {}
                /\ w.form = IF id = None THEN EmptyEmployee ELSE EmployeeForm(rows[id])
                /\ w.from = IF id = None THEN None ELSE rows[id]
    BY <1>2
  <1>4. FormFits(w.editing, w.form, w.from, w.typed)
    <2>1. CASE id = None
      <3>1. w.editing = None /\ w.form = EmptyEmployee /\ w.from = None /\ w.typed = {}
        BY <1>3, <2>1
      <3> QED
        BY <1>2, <3>1, NewFormsFit
    <2>2. CASE id # None
      <3>1. PICK row : row = rows[id]
        OBVIOUS
      <3>2. id \in Ids /\ row # None
        BY <2>2, <3>1
      <3>3. row \in RowsOf(scene.panel)
        BY <3>1, <3>2 DEF Stored
      <3>4. w.editing = id /\ w.form = EmployeeForm(row) /\ w.from = row /\ w.typed = {}
        BY <1>3, <2>2, <3>1
      <3> QED
        BY <1>2, <3>1, <3>2, <3>3, <3>4, RowFormsFit
    <2> QED
      BY <2>1, <2>2
  <1>5. DOMAIN w = TabFields
    BY <1>1, <1>2 DEF OnlyTab, Tabbed
  <1>6. TabOk(w)
    BY <1>3, <1>4, <1>5 DEF TabOk, Flags, Stored
  <1> QED
    BY <1>1, <1>2, <1>6, TabStep

\* Opening a form changes its tab only.
LEMMA OpenFormOnly ==
    ASSUME NEW t, NEW id, NEW form, NEW row, OpenForm(t, id, form, row)
    PROVE  UNCHANGED <<scene, rows, call>>
  BY Zenon DEF OpenForm

\* A form that is opened from the table fits.
LEMMA OpenFormsOk ==
    ASSUME Stored, TabsOk, NEW t \in Tabs,
           \/ OpenCreateShift(t) \/ OpenEditShift(t)
           \/ OpenCreateSchedule(t) \/ OpenEditSchedule(t)
           \/ OpenCreateHoliday(t) \/ OpenEditHoliday(t)
    PROVE  TabsOk' /\ UNCHANGED <<scene, rows, call>>
  <1>1. ASSUME NEW id \in Shown(t)
        PROVE  id \in Ids /\ rows[id] # None /\ tab[t].shown[id] \in RowsOf(scene.panel)
    BY <1>1 DEF Shown, TabsOk, TabOk
  <1>2. ASSUME NEW id \in Ids \cup {None}, NEW form, NEW row,
               OpenForm(t, id, form, row), FormFits(id, form, row, {})
        PROVE  TabsOk' /\ UNCHANGED <<scene, rows, call>>
    BY <1>2, OpenFormOk, OpenFormOnly
  <1>3. ASSUME OpenCreateShift(t) PROVE TabsOk' /\ UNCHANGED <<scene, rows, call>>
    <2>1. OpenForm(t, None, EmptyShift, None) /\ scene.panel = "shifts"
      BY <1>3, Zenon DEF OpenCreateShift, InTab
    <2> QED
      BY <1>2, <2>1, NewFormsFit
  <1>4. ASSUME OpenCreateSchedule(t) PROVE TabsOk' /\ UNCHANGED <<scene, rows, call>>
    <2>1. OpenForm(t, None, EmptySchedule, None) /\ scene.panel = "schedules"
      BY <1>4, Zenon DEF OpenCreateSchedule, InTab
    <2> QED
      BY <1>2, <2>1, NewFormsFit
  <1>5. ASSUME OpenCreateHoliday(t) PROVE TabsOk' /\ UNCHANGED <<scene, rows, call>>
    <2>1. OpenForm(t, None, EmptyHoliday, None) /\ scene.panel = "holidays"
      BY <1>5, Zenon DEF OpenCreateHoliday, InTab
    <2> QED
      BY <1>2, <2>1, NewFormsFit
  <1>6. ASSUME OpenEditShift(t) PROVE TabsOk' /\ UNCHANGED <<scene, rows, call>>
    <2>1. PICK id \in Shown(t) : OpenForm(t, id, ShiftForm(tab[t].shown[id]), tab[t].shown[id])
      BY <1>6, Zenon DEF OpenEditShift
    <2>2. PICK row : row = tab[t].shown[id]
      OBVIOUS
    <2>3. OpenForm(t, id, ShiftForm(row), row)
      BY <2>1, <2>2, Zenon
    <2>4. scene.panel = "shifts"
      BY <1>6 DEF OpenEditShift, InTab
    <2>5. id \in Ids /\ rows[id] # None /\ row \in RowsOf(scene.panel)
      BY <1>1, <2>2
    <2>6. FormFits(id, ShiftForm(row), row, {})
      BY <2>4, <2>5, RowFormsFit
    <2> QED
      BY <1>2, <2>3, <2>5, <2>6
  <1>7. ASSUME OpenEditSchedule(t) PROVE TabsOk' /\ UNCHANGED <<scene, rows, call>>
    <2>1. PICK id \in Shown(t) : OpenForm(t, id, ScheduleForm(tab[t].shown[id]), tab[t].shown[id])
      BY <1>7, Zenon DEF OpenEditSchedule
    <2>2. PICK row : row = tab[t].shown[id]
      OBVIOUS
    <2>3. OpenForm(t, id, ScheduleForm(row), row)
      BY <2>1, <2>2, Zenon
    <2>4. scene.panel = "schedules"
      BY <1>7 DEF OpenEditSchedule, InTab
    <2>5. id \in Ids /\ rows[id] # None /\ row \in RowsOf(scene.panel)
      BY <1>1, <2>2
    <2>6. FormFits(id, ScheduleForm(row), row, {})
      BY <2>4, <2>5, RowFormsFit
    <2> QED
      BY <1>2, <2>3, <2>5, <2>6
  <1>8. ASSUME OpenEditHoliday(t) PROVE TabsOk' /\ UNCHANGED <<scene, rows, call>>
    <2>1. PICK id \in Shown(t) : OpenForm(t, id, HolidayForm(tab[t].shown[id]), tab[t].shown[id])
      BY <1>8, Zenon DEF OpenEditHoliday
    <2>2. PICK row : row = tab[t].shown[id]
      OBVIOUS
    <2>3. OpenForm(t, id, HolidayForm(row), row)
      BY <2>1, <2>2, Zenon
    <2>4. scene.panel = "holidays"
      BY <1>8 DEF OpenEditHoliday, InTab
    <2>5. id \in Ids /\ rows[id] # None /\ row \in RowsOf(scene.panel)
      BY <1>1, <2>2
    <2>6. FormFits(id, HolidayForm(row), row, {})
      BY <2>4, <2>5, RowFormsFit
    <2> QED
      BY <1>2, <2>3, <2>5, <2>6
  <1> QED
    BY <1>3, <1>4, <1>5, <1>6, <1>7, <1>8

\* Steps that send nothing keep the tabs right, and change neither rows nor requests.
LEMMA QuietStepsOk ==
    ASSUME Stored, TabsOk, NEW t \in Tabs,
           \/ OpenCreateShift(t) \/ OpenEditShift(t) \/ TypeShift(t)
           \/ OpenCreateSchedule(t) \/ OpenEditSchedule(t) \/ TypeSchedule(t)
           \/ OpenCreateHoliday(t) \/ OpenEditHoliday(t) \/ TypeHoliday(t)
           \/ OpenEmployee(t) \/ TypeEmployee(t)
           \/ Load(t) \/ CloseForm(t) \/ Refresh(t)
    PROVE  TabsOk' /\ UNCHANGED <<scene, rows, call>>
  <1>1. ASSUME \/ OpenCreateShift(t) \/ OpenEditShift(t)
               \/ OpenCreateSchedule(t) \/ OpenEditSchedule(t)
               \/ OpenCreateHoliday(t) \/ OpenEditHoliday(t)
        PROVE  TabsOk' /\ UNCHANGED <<scene, rows, call>>
    BY <1>1, OpenFormsOk
  <1>2. ASSUME TypeShift(t) \/ TypeSchedule(t) \/ TypeHoliday(t) \/ TypeEmployee(t)
        PROVE  TabsOk' /\ UNCHANGED <<scene, rows, call>>
    <2>1. PICK enabled : TypeInto(t, enabled)
      BY <1>2, Zenon DEF TypeShift, TypeSchedule, TypeHoliday, TypeEmployee
    <2>2. UNCHANGED <<scene, rows, call>>
      BY <2>1, Zenon DEF TypeInto
    <2> QED
      BY <2>1, <2>2, TypeIntoOk
  <1>3. ASSUME OpenEmployee(t) PROVE TabsOk' /\ UNCHANGED <<scene, rows, call>>
    <2>1. UNCHANGED <<scene, rows, call>>
      BY <1>3, Zenon DEF OpenEmployee
    <2> QED
      BY <1>3, <2>1, OpenEmployeeOk
  <1>4. ASSUME Load(t) PROVE TabsOk' /\ UNCHANGED <<scene, rows, call>>
    <2>1. UNCHANGED <<scene, rows, call>>
      BY <1>4, Zenon DEF Load
    <2> QED
      BY <1>4, <2>1, LoadOk
  <1>5. ASSUME CloseForm(t) PROVE TabsOk' /\ UNCHANGED <<scene, rows, call>>
    <2>1. UNCHANGED <<scene, rows, call>>
      BY <1>5, Zenon DEF CloseForm
    <2> QED
      BY <1>5, <2>1, CloseFormOk
  <1>6. ASSUME Refresh(t) PROVE TabsOk' /\ UNCHANGED <<scene, rows, call>>
    <2>1. UNCHANGED <<scene, rows, call>>
      BY <1>6, Zenon DEF Refresh
    <2> QED
      BY <1>6, <2>1, RefreshOk
  <1> QED
    BY <1>1, <1>2, <1>3, <1>4, <1>5, <1>6

\* What is right of a request stays so.
LEMMA CallStays ==
    ASSUME RowsStay, NEW q, CallOk(q)
    PROVE  CallOk(q)'
  <1>1. KeyColumns' = KeyColumns
    BY DEF RowsStay, KeyColumns
  <1> QED
    BY <1>1 DEF RowsStay, CallOk, PayloadFits

\* One request changes, and the others stay as they are.
LEMMA CallStep ==
    ASSUME CallsOk, RowsStay, NEW c \in Calls, NEW q, call' = [call EXCEPT ![c] = q], CallOk(q)
    PROVE  CallsOk'
  <1>1. DOMAIN call' = Calls /\ call'[c] = q /\ \A e \in Calls \ {c} : call'[e] = call[e]
    BY DEF CallsOk
  <1>2. CallOk(call[c])'
    <2>1. CallOk(q)'
      BY CallStays
    <2> QED
      BY <1>1, <2>1
  <1>3. ASSUME NEW e \in Calls \ {c} PROVE CallOk(call[e])'
    <2>1. PICK q0 : q0 = call[e]
      OBVIOUS
    <2>2. CallOk(q0) /\ call'[e] = q0
      BY <1>1, <2>1 DEF CallsOk
    <2>3. CallOk(q0)'
      BY <2>2, CallStays
    <2> QED
      BY <2>2, <2>3
  <1> QED
    BY <1>1, <1>2, <1>3 DEF CallsOk

\* All requests stay, whatever is added to the rows.
LEMMA CallsStay ==
    ASSUME CallsOk, RowsStay, UNCHANGED call
    PROVE  CallsOk'
  <1>1. ASSUME NEW e \in Calls PROVE CallOk(call[e])'
    <2>1. PICK q : q = call[e]
      OBVIOUS
    <2>2. CallOk(q) /\ call'[e] = q
      BY <2>1 DEF CallsOk
    <2>3. CallOk(q)'
      BY <2>2, CallStays
    <2> QED
      BY <2>2, <2>3
  <1> QED
    BY <1>1 DEF CallsOk

\* What is given of a form that fits is numbers, each as it is in the form.
LEMMA GivenFits ==
    ASSUME NEW form, NEW keys, keys \subseteq DOMAIN form, \A f \in keys : form[f] \in Nat
    PROVE  LET p == Given(form, keys)
           IN  /\ p \in [DOMAIN p -> Nat] /\ (DOMAIN p) \subseteq keys
               /\ \A f \in DOMAIN p : p[f] = form[f]
               /\ \A f \in keys : form[f] # Blank => f \in DOMAIN p
  BY DEF Given

\* The payload of a form that fits fits, when its required inputs are not blank.
LEMMA PayloadsFit ==
    ASSUME Stored, NEW editing, NEW form, NEW from, NEW typed, FormFits(editing, form, from, typed)
    PROVE  LET verb == IF editing = None THEN "POST" ELSE "PATCH"
           IN  /\ scene.panel = "shifts" =>
                     PayloadFits(verb, ShiftPayload(form, editing = None), from, typed)
               /\ scene.panel = "schedules" /\ (\A f \in ScheduleInputs.required : form[f] # Blank) =>
                     PayloadFits(verb, SchedulePayload(form), from, typed)
               /\ scene.panel = "holidays" =>
                     PayloadFits(verb, HolidayPayload(form, editing), from, typed)
               /\ scene.panel = "employee" /\ (\A f \in EmployeeRequired : form[f] # Blank) =>
                     PayloadFits(verb, EmployeePayload(form, editing), from, typed)
  <1> DEFINE verb == IF editing = None THEN "POST" ELSE "PATCH"
  <1>1. /\ DOMAIN form = FormFields(scene.panel)
        /\ \A f \in (DOMAIN form) \ {"scope"} : form[f] \in Nat
        /\ editing # None =>
              /\ from \in RowsOf(scene.panel)
              /\ \A f \in (DOMAIN form) \ {"scope", "branchId"} : f \in typed \/ form[f] = from.fields[f]
    BY DEF FormFits
  <1>2. ASSUME NEW p, p \in [DOMAIN p -> Nat], (DOMAIN p) \subseteq Columns(scene.panel),
               (DOMAIN p) \subseteq DOMAIN form, \A f \in DOMAIN p : p[f] = form[f],
               editing = None => EditableKey(scene.panel) \subseteq DOMAIN p,
               editing # None =>
                  /\ KeyColumns \cap (DOMAIN p) \subseteq EditableKey(scene.panel)
                  /\ "scope" \notin DOMAIN p /\ "branchId" \notin DOMAIN p
        PROVE  PayloadFits(verb, p, from, typed)
    BY <1>1, <1>2 DEF PayloadFits
  <1>3. ASSUME scene.panel = "shifts" PROVE PayloadFits(verb, ShiftPayload(form, editing = None), from, typed)
    <2>1. Columns(scene.panel) = DOMAIN form /\ "scope" \notin DOMAIN form /\ "branchId" \notin DOMAIN form
      BY <1>1, <1>3 DEF FormFields, Columns, EmptyShift
    <2>2. PICK keys : keys = IF editing = None THEN DOMAIN form ELSE DOMAIN form \ {"code"}
      OBVIOUS
    <2>3. PICK p : p = Given(form, keys)
      OBVIOUS
    <2>4. p = ShiftPayload(form, editing = None)
      BY <2>2, <2>3 DEF ShiftPayload
    <2>5. keys \subseteq DOMAIN form /\ \A f \in keys : form[f] \in Nat
      BY <1>1, <2>1, <2>2
    <2>6. p \in [DOMAIN p -> Nat] /\ (DOMAIN p) \subseteq keys /\ \A f \in DOMAIN p : p[f] = form[f]
      BY <2>3, <2>5, GivenFits
    <2>7. KeyColumns = {"code"} /\ EditableKey(scene.panel) = {}
      BY <1>3 DEF KeyColumns, EditableKey
    <2>8. PayloadFits(verb, p, from, typed)
      BY <1>2, <2>1, <2>2, <2>5, <2>6, <2>7
    <2> QED
      BY <2>4, <2>8
  <1>4. ASSUME scene.panel = "schedules", \A f \in ScheduleInputs.required : form[f] # Blank
        PROVE  PayloadFits(verb, SchedulePayload(form), from, typed)
    <2>1. /\ Columns(scene.panel) = DOMAIN form /\ "scope" \notin DOMAIN form /\ "branchId" \notin DOMAIN form
          /\ "name" \in DOMAIN form
      BY <1>1, <1>4 DEF FormFields, Columns, EmptySchedule
    <2>2. PICK p : p = Given(form, DOMAIN form)
      OBVIOUS
    <2>3. p = SchedulePayload(form)
      BY <2>2 DEF SchedulePayload
    <2>4. \A f \in DOMAIN form : form[f] \in Nat
      BY <1>1, <2>1
    <2>5. /\ p \in [DOMAIN p -> Nat] /\ (DOMAIN p) \subseteq DOMAIN form /\ \A f \in DOMAIN p : p[f] = form[f]
          /\ \A f \in DOMAIN form : form[f] # Blank => f \in DOMAIN p
      BY <2>2, <2>4, GivenFits
    <2>6. form["name"] # Blank
      BY <1>4 DEF ScheduleInputs
    <2>7. KeyColumns = {"name"} /\ EditableKey(scene.panel) = {"name"}
      BY <1>4 DEF KeyColumns, EditableKey
    <2>8. PayloadFits(verb, p, from, typed)
      BY <1>2, <2>1, <2>5, <2>6, <2>7
    <2> QED
      BY <2>3, <2>8
  <1>5. ASSUME scene.panel = "holidays" PROVE PayloadFits(verb, HolidayPayload(form, editing), from, typed)
    <2>1. /\ DOMAIN form = {"name", "date", "holidayType", "description", "scope", "branchId"}
          /\ Columns(scene.panel) = {"name", "date", "holidayType", "description", "branchId"}
      BY <1>1, <1>5 DEF FormFields, Columns, EmptyHoliday, NoHoliday
    <2>2. PICK keys : keys = {"name", "holidayType", "description"}
                             \cup (IF editing = None
                                   THEN {"date"} \cup (IF form.scope = "branch" THEN {"branchId"} ELSE {})
                                   ELSE {})
      OBVIOUS
    <2>3. PICK p : p = Given(form, keys)
      OBVIOUS
    <2>4. p = HolidayPayload(form, editing)
      BY <2>2, <2>3 DEF HolidayPayload
    <2>5. /\ keys \subseteq Columns(scene.panel)
          /\ editing # None => keys = {"name", "holidayType", "description"}
      BY <2>1, <2>2
    <2>6. keys \subseteq DOMAIN form /\ \A f \in keys : form[f] \in Nat
      BY <1>1, <2>1, <2>5
    <2>7. p \in [DOMAIN p -> Nat] /\ (DOMAIN p) \subseteq keys /\ \A f \in DOMAIN p : p[f] = form[f]
      BY <2>3, <2>6, GivenFits
    <2>8. KeyColumns = {"date", "branchId"} /\ EditableKey(scene.panel) = {}
      BY <1>5 DEF KeyColumns, EditableKey
    <2>9. PayloadFits(verb, p, from, typed)
      BY <1>2, <2>5, <2>6, <2>7, <2>8
    <2> QED
      BY <2>4, <2>9
  <1>6. ASSUME scene.panel = "employee", \A f \in EmployeeRequired : form[f] # Blank
        PROVE  PayloadFits(verb, EmployeePayload(form, editing), from, typed)
    <2>1. DOMAIN form = EmployeeFields /\ Columns(scene.panel) = EmployeeFields
      BY <1>1, <1>6 DEF FormFields, Columns
    <2>2. /\ "scope" \notin EmployeeFields /\ "branchId" \notin EmployeeFields
          /\ "workEmail" \in EmployeeFields /\ "workEmail" \in EmployeeRequired
      BY DEF EmployeeFields, EmployeeRequired
    <2>3. PICK p : p = EmployeePayload(form, editing)
      OBVIOUS
    <2>4. /\ p \in [DOMAIN p -> Nat] /\ (DOMAIN p) \subseteq DOMAIN form /\ \A f \in DOMAIN p : p[f] = form[f]
          /\ \A f \in DOMAIN form : form[f] # Blank => f \in DOMAIN p
      BY <1>1, <2>1, <2>2, <2>3 DEF EmployeePayload
    <2>5. form["workEmail"] # Blank
      BY <1>6, <2>2
    <2>6. KeyColumns = {"workEmail"} /\ EditableKey(scene.panel) = {"workEmail"}
      BY <1>6 DEF KeyColumns, EditableKey
    <2>7. PayloadFits(verb, p, from, typed)
      BY <1>2, <2>1, <2>2, <2>4, <2>5, <2>6
    <2> QED
      BY <2>3, <2>7
  <1> QED
    BY <1>3, <1>4, <1>5, <1>6

\* No request becomes a successful creation, and those that succeeded stay.
SameSuccess ==
    \A e \in Calls :
       /\ call'[e].state = "ok" /\ call'[e].verb = "POST" => call[e].state = "ok"
       /\ call[e].state = "ok" =>
             call'[e].state = "ok" /\ call'[e].verb = call[e].verb /\ call'[e].payload = call[e].payload

\* The rows keep their fields.
SameFields == scene' = scene /\ \A i \in Ids : rows[i] # None => rows'[i] # None /\ rows'[i].fields = rows[i].fields

\* Rows and successes stay under their keys.
LEMMA KeysStay ==
    ASSUME KeysOk, SameSuccess, SameFields
    PROVE  KeysOk'
  <1>1. KeyColumns' = KeyColumns
    BY DEF SameFields, KeyColumns
  <1>2. ASSUME NEW fields PROVE UniqueKey(fields)' = UniqueKey(fields)
    BY <1>1 DEF UniqueKey
  <1>3. ASSUME NEW payload PROVE Inserted(payload)' = Inserted(payload)
    BY DEF Inserted, SameFields
  <1>4. \A e \in Calls : Created(e)' => Created(e) /\ call'[e].payload = call[e].payload
    BY DEF SameSuccess, Created
  <1>5. ASSUME NEW e \in Calls, NEW payload, Frees(e, payload) PROVE Frees(e, payload)'
    BY <1>1, <1>5 DEF SameSuccess, Frees
  <1>6. ASSUME NEW e \in Calls PROVE KeptOrFreed(e)'
    <2> SUFFICES ASSUME Created(e)'
                 PROVE  (\/ \E x \in Calls : Frees(x, call[e].payload)
                         \/ \E i \in Ids : rows[i] # None
                               /\ UniqueKey(rows[i].fields) = UniqueKey(Inserted(call[e].payload)))'
      BY DEF KeptOrFreed
    <2>1. PICK p : p = call[e].payload
      OBVIOUS
    <2>2. call'[e].payload = p /\ Created(e)
      BY <1>4, <2>1
    <2>3. \/ \E x \in Calls : Frees(x, p)
          \/ \E i \in Ids : rows[i] # None /\ UniqueKey(rows[i].fields) = UniqueKey(Inserted(p))
      BY <2>1, <2>2 DEF KeysOk, KeptOrFreed
    <2>4. CASE \E x \in Calls : Frees(x, p)
      BY <1>5, <2>2, <2>4
    <2>5. ASSUME NEW i \in Ids, rows[i] # None, UniqueKey(rows[i].fields) = UniqueKey(Inserted(p))
          PROVE  (rows[i] # None /\ UniqueKey(rows[i].fields) = UniqueKey(Inserted(call[e].payload)))'
      <3>1. PICK fields, inserted : fields = rows[i].fields /\ inserted = Inserted(p)
        OBVIOUS
      <3>2. rows'[i] # None /\ rows'[i].fields = fields
        BY <2>5, <3>1 DEF SameFields
      <3>3. Inserted(call[e].payload)' = inserted
        BY <1>3, <2>2, <3>1
      <3>4. UniqueKey(fields)' = UniqueKey(inserted)'
        BY <1>2, <2>5, <3>1
      <3> QED
        BY <3>2, <3>3, <3>4
    <2> QED
      BY <2>3, <2>4, <2>5
  <1>7. OneRowPerPayload'
    <2> SUFFICES ASSUME NEW c1 \in Calls, NEW c2 \in Calls, Created(c1)', Created(c2)',
                        call'[c1].payload = call'[c2].payload, c1 # c2
                 PROVE  (\E c \in Calls : Frees(c, call[c1].payload))'
      BY DEF OneRowPerPayload
    <2>1. PICK p : p = call[c1].payload
      OBVIOUS
    <2>2. call'[c1].payload = p /\ call[c2].payload = p /\ Created(c1) /\ Created(c2)
      BY <1>4, <2>1
    <2>3. \E c \in Calls : Frees(c, p)
      BY <2>1, <2>2 DEF KeysOk, OneRowPerPayload
    <2> QED
      BY <1>5, <2>2, <2>3
  <1> QED
    BY <1>6, <1>7 DEF KeysOk

\* A row that is inserted under a free key.
LEMMA KeysAfterInsert ==
    ASSUME Stored, KeysOk, SameFields, NEW c \in Calls, NEW payload,
           call[c].state # "ok", call'[c].payload = payload,
           \A e \in Calls \ {c} : call'[e] = call[e],
           ~ \E i \in Ids : rows[i] # None /\ UniqueKey(rows[i].fields) = UniqueKey(Inserted(payload)),
           \E i \in Ids : rows'[i] # None /\ rows'[i].fields = Inserted(payload),
           call'[c].verb = "POST"
    PROVE  KeysOk'
  <1>1. KeyColumns' = KeyColumns
    BY DEF SameFields, KeyColumns
  <1>2. ASSUME NEW fields PROVE UniqueKey(fields)' = UniqueKey(fields)
    BY <1>1 DEF UniqueKey
  <1>3. ASSUME NEW p PROVE Inserted(p)' = Inserted(p)
    BY DEF Inserted, SameFields
  <1>4. \A e \in Calls \ {c} : Created(e)' => Created(e) /\ call'[e].payload = call[e].payload
    BY DEF Created
  <1>5. ASSUME NEW e \in Calls, NEW p, Frees(e, p) PROVE Frees(e, p)'
    <2>1. e # c
      BY <1>5 DEF Frees
    <2> QED
      BY <1>1, <1>5, <2>1 DEF Frees
  <1>6. ASSUME NEW e \in Calls \ {c}, Created(e), NEW p, p = call[e].payload
        PROVE  \/ \E x \in Calls : Frees(x, p)
               \/ \E i \in Ids : rows[i] # None /\ UniqueKey(rows[i].fields) = UniqueKey(Inserted(p))
    BY <1>6 DEF KeysOk, KeptOrFreed
  <1>7. ASSUME NEW e \in Calls PROVE KeptOrFreed(e)'
    <2> SUFFICES ASSUME Created(e)'
                 PROVE  (\/ \E x \in Calls : Frees(x, call[e].payload)
                         \/ \E i \in Ids : rows[i] # None
                               /\ UniqueKey(rows[i].fields) = UniqueKey(Inserted(call[e].payload)))'
      BY DEF KeptOrFreed
    <2>1. CASE e = c
      <3>1. PICK inserted : inserted = Inserted(payload)
        OBVIOUS
      <3>2. PICK i \in Ids : rows'[i] # None /\ rows'[i].fields = inserted
        BY <3>1
      <3>3. Inserted(call[e].payload)' = inserted
        BY <1>3, <2>1, <3>1
      <3> QED
        BY <3>2, <3>3
    <2>2. CASE e # c
      <3>1. PICK p : p = call[e].payload
        OBVIOUS
      <3>2. call'[e].payload = p /\ Created(e)
        BY <1>4, <2>2, <3>1
      <3>3. CASE \E x \in Calls : Frees(x, p)
        BY <1>5, <3>2, <3>3
      <3>4. ASSUME NEW i \in Ids, rows[i] # None, UniqueKey(rows[i].fields) = UniqueKey(Inserted(p))
            PROVE  (rows[i] # None /\ UniqueKey(rows[i].fields) = UniqueKey(Inserted(call[e].payload)))'
        <4>1. PICK fields, inserted : fields = rows[i].fields /\ inserted = Inserted(p)
          OBVIOUS
        <4>2. rows'[i] # None /\ rows'[i].fields = fields
          BY <3>4, <4>1 DEF SameFields
        <4>3. Inserted(call[e].payload)' = inserted
          BY <1>3, <3>2, <4>1
        <4>4. UniqueKey(fields)' = UniqueKey(inserted)'
          BY <1>2, <3>4, <4>1
        <4> QED
          BY <4>2, <4>3, <4>4
      <3> QED
        BY <1>6, <2>2, <3>1, <3>2, <3>3, <3>4
    <2> QED
      BY <2>1, <2>2
  <1>8. ASSUME NEW e \in Calls \ {c}, Created(e), call[e].payload = payload
        PROVE  \E x \in Calls : Frees(x, payload)
    BY <1>6, <1>8
  <1>9. OneRowPerPayload'
    <2> SUFFICES ASSUME NEW c1 \in Calls, NEW c2 \in Calls, Created(c1)', Created(c2)',
                        call'[c1].payload = call'[c2].payload, c1 # c2
                 PROVE  (\E x \in Calls : Frees(x, call[c1].payload))'
      BY DEF OneRowPerPayload
    <2>1. PICK p : p = call'[c1].payload
      OBVIOUS
    <2>2. \E x \in Calls : Frees(x, p)
      <3>1. CASE c1 = c
        BY <1>4, <1>8, <2>1, <3>1
      <3>2. CASE c2 = c
        BY <1>4, <1>8, <2>1, <3>2
      <3>3. CASE c1 # c /\ c2 # c
        BY <1>4, <2>1, <3>3 DEF KeysOk, OneRowPerPayload
      <3> QED
        BY <3>1, <3>2, <3>3
    <2> QED
      BY <1>5, <2>1, <2>2
  <1> QED
    BY <1>7, <1>9 DEF KeysOk

\* A row that is edited keeps its key, or the edit frees it.
LEMMA KeysAfterUpdate ==
    ASSUME Stored, CallsOk, KeysOk, scene' = scene, NEW c \in Calls, NEW id \in Ids, NEW sent,
           call[c].state \notin {"new", "ok"}, call[c].verb = "PATCH", call[c].payload = sent,
           rows[id] # None,
           call'[c].state = "ok", call'[c].verb = "PATCH", call'[c].payload = sent,
           \A e \in Calls \ {c} : call'[e] = call[e],
           \A i \in Ids \ {id} : rows'[i] = rows[i],
           rows'[id] # None, rows'[id].fields = Over(sent, rows[id].fields)
    PROVE  KeysOk'
  <1>1. KeyColumns' = KeyColumns
    BY DEF KeyColumns
  <1>2. ASSUME NEW fields PROVE UniqueKey(fields)' = UniqueKey(fields)
    BY <1>1 DEF UniqueKey
  <1>3. ASSUME NEW p PROVE Inserted(p)' = Inserted(p)
    BY DEF Inserted
  <1>4. \A e \in Calls : Created(e)' => e # c /\ Created(e) /\ call'[e].payload = call[e].payload
    BY DEF Created
  <1>5. ASSUME NEW e \in Calls, NEW p, Frees(e, p) PROVE Frees(e, p)'
    <2>1. e # c
      BY <1>5 DEF Frees
    <2> QED
      BY <1>1, <1>5, <2>1 DEF Frees
  <1>6. PayloadFits("PATCH", sent, call[c].from, call[c].typed)
    <2>1. PICK q : q = call[c]
      OBVIOUS
    <2>2. q # NoCall
      BY <2>1 DEF NoCall
    <2> QED
      BY <2>1, <2>2 DEF CallsOk, CallOk
  <1>7. PICK old : old = rows[id].fields
    OBVIOUS
  <1>8. old \in [Columns(scene.panel) -> Nat]
    BY <1>7 DEF Stored, RowsOf
  <1>9. \A k \in Columns(scene.panel) : Over(sent, old)[k] = IF k \in DOMAIN sent THEN sent[k] ELSE old[k]
    BY <1>6, <1>8, OverFits DEF PayloadFits
  <1>10. ASSUME NEW p, p \in [DOMAIN p -> Nat], (DOMAIN p) \subseteq Columns(scene.panel),
                EditableKey(scene.panel) \subseteq DOMAIN p, UniqueKey(old) = UniqueKey(Inserted(p)),
                \A k \in KeyColumns \cap DOMAIN sent : sent[k] = p[k]
         PROVE  UniqueKey(Over(sent, old)) = UniqueKey(Inserted(p))
    <2>1. PICK new : new = Over(sent, old)
      OBVIOUS
    <2>2. PICK ins : ins = Inserted(p)
      OBVIOUS
    <2>3. \A k \in KeyColumns : old[k] = ins[k]
      BY <1>10, <2>2 DEF UniqueKey
    <2>4. \A k \in DOMAIN p : ins[k] = p[k]
      BY <1>10, <2>2, InsertedFits
    <2>5. KeyColumns \cap (DOMAIN sent) \subseteq DOMAIN p
      BY <1>6, <1>10 DEF PayloadFits
    <2>6. \A k \in KeyColumns : new[k] = ins[k]
      BY <1>9, <1>10, <2>1, <2>3, <2>4, <2>5, KeysAreColumns
    <2>7. UniqueKey(new) = UniqueKey(ins)
      BY <2>6 DEF UniqueKey
    <2> QED
      BY <2>1, <2>2, <2>7
  <1>11. ASSUME NEW e \in Calls, Created(e), NEW p, p = call[e].payload
         PROVE  /\ p \in [DOMAIN p -> Nat] /\ (DOMAIN p) \subseteq Columns(scene.panel)
                /\ EditableKey(scene.panel) \subseteq DOMAIN p
    BY <1>11 DEF CallsOk, CallOk, NoCall, PayloadFits, Created
  <1>12. ASSUME NEW p, NEW k \in KeyColumns \cap DOMAIN sent, sent[k] # p[k] PROVE Frees(c, p)'
    BY <1>1, <1>12 DEF Frees
  <1>13. ASSUME NEW e \in Calls PROVE KeptOrFreed(e)'
    <2> SUFFICES ASSUME Created(e)'
                 PROVE  (\/ \E x \in Calls : Frees(x, call[e].payload)
                         \/ \E i \in Ids : rows[i] # None
                               /\ UniqueKey(rows[i].fields) = UniqueKey(Inserted(call[e].payload)))'
      BY DEF KeptOrFreed
    <2>1. PICK p : p = call[e].payload
      OBVIOUS
    <2>2. call'[e].payload = p /\ Created(e)
      BY <1>4, <2>1
    <2>3. \/ \E x \in Calls : Frees(x, p)
          \/ \E i \in Ids : rows[i] # None /\ UniqueKey(rows[i].fields) = UniqueKey(Inserted(p))
      BY <2>1, <2>2 DEF KeysOk, KeptOrFreed
    <2>4. CASE \E x \in Calls : Frees(x, p)
      BY <1>5, <2>2, <2>4
    <2>5. CASE \E k \in KeyColumns \cap DOMAIN sent : sent[k] # p[k]
      BY <1>12, <2>2, <2>5
    <2>6. ASSUME \A k \in KeyColumns \cap DOMAIN sent : sent[k] = p[k],
                 NEW i \in Ids, rows[i] # None, UniqueKey(rows[i].fields) = UniqueKey(Inserted(p))
          PROVE  (rows[i] # None /\ UniqueKey(rows[i].fields) = UniqueKey(Inserted(call[e].payload)))'
      <3>1. PICK inserted : inserted = Inserted(p)
        OBVIOUS
      <3>2. Inserted(call[e].payload)' = inserted
        BY <1>3, <2>2, <3>1
      <3>3. PICK fields : fields = rows'[i].fields
        OBVIOUS
      <3>4. UniqueKey(fields) = UniqueKey(inserted)
        <4>1. CASE i = id
          <5>1. UniqueKey(Over(sent, old)) = UniqueKey(Inserted(p))
            BY <1>7, <1>10, <1>11, <2>1, <2>2, <2>6, <4>1
          <5> QED
            BY <1>7, <3>1, <3>3, <4>1, <5>1
        <4>2. CASE i # id
          BY <2>6, <3>1, <3>3, <4>2
        <4> QED
          BY <4>1, <4>2
      <3>5. rows'[i] # None
        BY <2>6
      <3>6. UniqueKey(fields)' = UniqueKey(inserted)'
        BY <1>2, <3>4
      <3> QED
        BY <3>2, <3>3, <3>5, <3>6
    <2> QED
      BY <2>3, <2>4, <2>5, <2>6
  <1>14. OneRowPerPayload'
    <2> SUFFICES ASSUME NEW c1 \in Calls, NEW c2 \in Calls, Created(c1)', Created(c2)',
                        call'[c1].payload = call'[c2].payload, c1 # c2
                 PROVE  (\E x \in Calls : Frees(x, call[c1].payload))'
      BY DEF OneRowPerPayload
    <2>1. PICK p : p = call[c1].payload
      OBVIOUS
    <2>2. call'[c1].payload = p /\ call[c2].payload = p /\ Created(c1) /\ Created(c2)
      BY <1>4, <2>1
    <2>3. \E x \in Calls : Frees(x, p)
      BY <2>1, <2>2 DEF KeysOk, OneRowPerPayload
    <2> QED
      BY <1>5, <2>2, <2>3
  <1> QED
    BY <1>13, <1>14 DEF KeysOk

\* The request that is sent next was not sent before.
LEMMA NextCallIsNew ==
    ASSUME Stored, NEW c \in Calls, c = NextCall
    PROVE  call[c] = NoCall
  <1> DEFINE unsent == {e \in scene.calls : call[e] = NoCall}
  <1>1. NextCall = IF unsent = {} THEN None ELSE CHOOSE e \in unsent : TRUE
    BY DEF NextCall
  <1>2. unsent # {}
    BY <1>1, SceneFacts
  <1>3. c \in unsent
    BY <1>1, <1>2
  <1> QED
    BY <1>3

\* A request that is sent.
LEMMA SentOk ==
    ASSUME FormsInv, NEW c \in Calls, call[c] = NoCall, NEW q, CallOk(q), q.state = "sent",
           call' = [call EXCEPT ![c] = q], TabsOk', UNCHANGED <<scene, rows>>
    PROVE  FormsInv'
  <1>1. Stored /\ TabsOk /\ CallsOk /\ KeysOk
    BY DEF FormsInv
  <1>2. RowsStay /\ SameFields
    BY DEF RowsStay, SameFields
  <1>3. CallsOk'
    BY <1>1, <1>2, CallStep
  <1>4. SameSuccess
    <2>1. call'[c] = q /\ \A e \in Calls \ {c} : call'[e] = call[e]
      BY <1>1 DEF CallsOk
    <2>2. call[c].state # "ok"
      BY DEF NoCall
    <2> QED
      BY <2>1, <2>2 DEF SameSuccess
  <1>5. KeysOk'
    BY <1>1, <1>2, <1>4, KeysStay
  <1> QED
    BY <1>1, <1>3, <1>5 DEF FormsInv, Stored

\* The request of a form.
LEMMA SubmittedOk ==
    ASSUME FormsInv, NEW t \in Tabs, NEW c \in Calls, NEW payload, NEW required,
           SubmitForm(t, c, payload, required),
           LET v == tab[t]
           IN  PayloadFits(IF v.editing = None THEN "POST" ELSE "PATCH", payload, v.from, v.typed)
    PROVE  FormsInv'
  <1>1. Stored /\ TabsOk
    BY DEF FormsInv
  <1>2. PICK v : v = tab[t]
    OBVIOUS
  <1>3. TabOk(v)
    BY <1>1, <1>2 DEF TabsOk
  <1> DEFINE q == [state |-> "sent", verb |-> IF v.editing = None THEN "POST" ELSE "PATCH",
                   tab |-> t, id |-> v.editing, payload |-> payload, waiting |-> TRUE,
                   typed |-> v.typed, from |-> v.from, opened |-> v.opened,
                   existing |-> None, logged |-> {}]
  <1>4. call' = [call EXCEPT ![c] = q] /\ c = NextCall /\ v.open /\ UNCHANGED <<scene, rows>>
    BY <1>2, Zenon DEF SubmitForm
  <1>5. TabsOk'
    BY <1>1, SubmitFormTabOk
  <1>6. call[c] = NoCall
    BY <1>1, <1>4, NextCallIsNew
  <1>7. v.editing # None => v.editing \in Ids /\ rows[v.editing] # None
    BY <1>3, <1>4 DEF TabOk, FormFits
  <1>8. CallOk(q) /\ q.state = "sent"
    BY <1>2, <1>7 DEF CallOk, CallFields
  <1> HIDE DEF q
  <1> QED
    BY <1>4, <1>5, <1>6, <1>8, SentOk

\* The request of a row's button.
LEMMA SetActiveOk ==
    ASSUME FormsInv, NEW t \in Tabs, NEW c \in Calls, NEW id \in Shown(t), NEW verb \in {"DELETE", "RESTORE"},
           SendActive(t, id, c, verb)
    PROVE  FormsInv'
  <1>1. Stored /\ TabsOk
    BY DEF FormsInv
  <1>2. id \in Ids /\ rows[id] # None
    BY <1>1 DEF Shown, TabsOk, TabOk
  <1>3. PICK opened : opened = tab[t].opened
    OBVIOUS
  <1> DEFINE q == [state |-> "sent", verb |-> verb, tab |-> t, id |-> id, payload |-> <<>>,
                   waiting |-> TRUE, typed |-> {}, from |-> None, opened |-> opened,
                   existing |-> None, logged |-> {}]
  <1>4. call' = [call EXCEPT ![c] = q] /\ c = NextCall /\ UNCHANGED <<scene, rows>>
    BY <1>3, Zenon DEF SendActive
  <1>5. TabsOk'
    BY <1>1, <1>2, SendActiveTabOk
  <1>6. call[c] = NoCall
    BY <1>1, <1>4, NextCallIsNew
  <1>7. CallOk(q) /\ q.state = "sent"
    BY <1>2 DEF CallOk, CallFields
  <1> HIDE DEF q
  <1> QED
    BY <1>4, <1>5, <1>6, <1>7, SentOk

\* Every step that sends a request.
LEMMA SendingOk ==
    ASSUME FormsInv, NEW t \in Tabs, NEW c \in Calls,
           \/ SaveShift(t, c) \/ SetShiftActive(t, c)
           \/ SaveSchedule(t, c) \/ SetScheduleActive(t, c)
           \/ SaveHoliday(t, c) \/ SetHolidayActive(t, c)
           \/ SaveEmployee(t, c)
    PROVE  FormsInv'
  <1>1. PICK v : v = tab[t]
    OBVIOUS
  <1>2. Stored /\ TabOk(v)
    BY <1>1 DEF FormsInv, TabsOk
  <1>3. ASSUME v.open PROVE FormFits(v.editing, v.form, v.from, v.typed)
    BY <1>2, <1>3 DEF TabOk
  <1>4. ASSUME NEW payload, NEW required, SubmitForm(t, c, payload, required)
        PROVE  v.open /\ \A f \in required : v.form[f] # Blank
    BY <1>1, <1>4, Zenon DEF SubmitForm
  <1>5. ASSUME NEW payload, NEW required, SubmitForm(t, c, payload, required),
               PayloadFits(IF v.editing = None THEN "POST" ELSE "PATCH", payload, v.from, v.typed)
        PROVE  FormsInv'
    BY <1>1, <1>5, SubmittedOk
  <1>6. ASSUME SaveShift(t, c) PROVE FormsInv'
    <2>1. PICK payload, required : payload = ShiftPayload(v.form, v.editing = None) /\ required = ShiftInputs(v.editing).required
      OBVIOUS
    <2>2. SubmitForm(t, c, payload, required) /\ scene.panel = "shifts"
      BY <1>1, <1>6, <2>1, Zenon DEF SaveShift, InTab
    <2> QED
      BY <1>2, <1>3, <1>4, <1>5, <2>1, <2>2, PayloadsFit
  <1>7. ASSUME SaveSchedule(t, c) PROVE FormsInv'
    <2>1. PICK payload, required : payload = SchedulePayload(v.form) /\ required = ScheduleInputs.required
      OBVIOUS
    <2>2. SubmitForm(t, c, payload, required) /\ scene.panel = "schedules"
      BY <1>1, <1>7, <2>1, Zenon DEF SaveSchedule, InTab
    <2> QED
      BY <1>2, <1>3, <1>4, <1>5, <2>1, <2>2, PayloadsFit
  <1>8. ASSUME SaveHoliday(t, c) PROVE FormsInv'
    <2>1. PICK payload, required : payload = HolidayPayload(v.form, v.editing) /\ required = HolidayInputs(v.editing).required
      OBVIOUS
    <2>2. SubmitForm(t, c, payload, required) /\ scene.panel = "holidays"
      BY <1>1, <1>8, <2>1, Zenon DEF SaveHoliday, InTab
    <2> QED
      BY <1>2, <1>3, <1>4, <1>5, <2>1, <2>2, PayloadsFit
  <1>9. ASSUME SaveEmployee(t, c) PROVE FormsInv'
    <2>1. PICK payload, required : payload = EmployeePayload(v.form, v.editing) /\ required = EmployeeInputs.required
      OBVIOUS
    <2>2. SubmitForm(t, c, payload, required) /\ scene.panel = "employee"
      BY <1>1, <1>9, <2>1, Zenon DEF SaveEmployee, InTab
    <2>3. required = EmployeeRequired
      BY <2>1 DEF EmployeeInputs
    <2> QED
      BY <1>2, <1>3, <1>4, <1>5, <2>1, <2>2, <2>3, PayloadsFit
  <1>10. ASSUME NEW id \in Shown(t), NEW verb \in ({"edit"} \cup ActiveButton(t, id)) \ {"edit"},
                SendActive(t, id, c, verb)
         PROVE  FormsInv'
    <2>1. verb \in {"DELETE", "RESTORE"}
      BY <1>10 DEF ActiveButton
    <2> QED
      BY <1>10, <2>1, SetActiveOk
  <1>11. ASSUME SetShiftActive(t, c) PROVE FormsInv'
    <2>1. PICK id \in Shown(t) : \E verb \in ShiftRowActions(t, id) \ {"edit"} : SendActive(t, id, c, verb)
      BY <1>11, Zenon DEF SetShiftActive
    <2> QED
      BY <1>10, <2>1, Zenon DEF ShiftRowActions
  <1>12. ASSUME SetScheduleActive(t, c) PROVE FormsInv'
    <2>1. PICK id \in Shown(t) : \E verb \in ScheduleRowActions(t, id) \ {"edit"} : SendActive(t, id, c, verb)
      BY <1>12, Zenon DEF SetScheduleActive
    <2> QED
      BY <1>10, <2>1, Zenon DEF ScheduleRowActions
  <1>13. ASSUME SetHolidayActive(t, c) PROVE FormsInv'
    <2>1. PICK id \in Shown(t) : \E verb \in HolidayRowActions(t, id) \ {"edit"} : SendActive(t, id, c, verb)
      BY <1>13, Zenon DEF SetHolidayActive
    <2> QED
      BY <1>10, <2>1, Zenon DEF HolidayRowActions
  <1> QED
    BY <1>6, <1>7, <1>8, <1>9, <1>11, <1>12, <1>13

\* A request is answered, and no row changes but for whether it is active.
LEMMA RespondedOk ==
    ASSUME FormsInv, NEW c \in Calls, call[c].state # "new", NEW state \in {"refused", "ok"},
           call' = [call EXCEPT ![c].state = state],
           state = "ok" => call[c].verb # "POST", call[c].state # "ok",
           SameFields, Stored', UNCHANGED tab
    PROVE  FormsInv'
  <1>1. Stored /\ TabsOk /\ CallsOk /\ KeysOk
    BY DEF FormsInv
  <1>2. RowsStay
    BY DEF RowsStay, SameFields
  <1>3. TabsOk'
    BY <1>1, <1>2, TabsStay
  <1>4. PICK q : q = call[c]
    OBVIOUS
  <1>5. CallOk(q) /\ q # NoCall
    BY <1>1, <1>4 DEF CallsOk, NoCall
  <1>6. PICK r : r = [q EXCEPT !.state = state]
    OBVIOUS
  <1>7. CallOk(r) /\ r.state = state /\ r.verb = q.verb
    BY <1>5, <1>6 DEF CallOk, CallFields
  <1>8. call' = [call EXCEPT ![c] = r]
    BY <1>4, <1>6
  <1>9. CallsOk'
    BY <1>1, <1>2, <1>7, <1>8, CallStep
  <1>10. SameSuccess
    <2>1. call'[c] = r /\ \A e \in Calls \ {c} : call'[e] = call[e]
      BY <1>1, <1>8 DEF CallsOk
    <2> QED
      BY <1>4, <1>7, <2>1 DEF SameSuccess
  <1>11. KeysOk'
    BY <1>1, <1>10, KeysStay
  <1> QED
    BY <1>3, <1>9, <1>11 DEF FormsInv

\* A refusal.
LEMMA RefuseOk ==
    ASSUME FormsInv, NEW c \in Calls, call[c].state \notin {"new", "ok"}, Refuse(c)
    PROVE  FormsInv'
  <1>1. call' = [call EXCEPT ![c].state = "refused"] /\ UNCHANGED <<scene, rows, tab>>
    BY Zenon DEF Refuse, Respond
  <1>2. SameFields /\ Stored'
    BY <1>1 DEF SameFields, FormsInv, Stored
  <1> QED
    BY <1>1, <1>2, RespondedOk

\* A row is written.
LEMMA RowWritten ==
    ASSUME Stored, NEW i \in Ids, NEW row \in RowsOf(scene.panel), rows' = [rows EXCEPT ![i] = row],
           scene' = scene
    PROVE  /\ Stored' /\ RowsStay
           /\ rows'[i] = row /\ rows'[i] # None /\ \A j \in Ids \ {i} : rows'[j] = rows[j]
  <1>1. row # None
    BY SceneFacts
  <1>2. rows'[i] = row /\ \A j \in Ids \ {i} : rows'[j] = rows[j]
    BY DEF Stored
  <1>3. rows' \in [Ids -> {None} \cup RowsOf(scene.panel)]
    BY DEF Stored
  <1> QED
    BY <1>1, <1>2, <1>3 DEF Stored, RowsStay

\* A row that is active or archived.
LEMMA ServeActiveOk ==
    ASSUME FormsInv, NEW c \in Calls, call[c].state \notin {"new", "ok"}, call[c].verb \in {"DELETE", "RESTORE"},
           SetActive(c)
    PROVE  FormsInv'
  <1>1. Stored /\ CallsOk
    BY DEF FormsInv
  <1>2. PICK q : q = call[c]
    OBVIOUS
  <1>3. CallOk(q) /\ q # NoCall
    BY <1>1, <1>2 DEF CallsOk, NoCall
  <1>4. PICK i : i = q.id
    OBVIOUS
  <1>5. i \in Ids /\ rows[i] # None
    BY <1>2, <1>3, <1>4 DEF CallOk
  <1>6. PICK active : active = (call[c].verb = "RESTORE")
    OBVIOUS
  <1>7. active \in BOOLEAN
    BY <1>6
  <1>8. /\ rows' = [rows EXCEPT ![i].isActive = active]
        /\ call' = [call EXCEPT ![c].state = "ok"] /\ UNCHANGED <<scene, tab>>
    BY <1>2, <1>4, <1>6, Zenon DEF SetActive, Respond
  <1>9. PICK old, row : old = rows[i] /\ row = [old EXCEPT !.isActive = active]
    OBVIOUS
  <1>10. old \in RowsOf(scene.panel)
    BY <1>1, <1>5, <1>9 DEF Stored
  <1>11. row \in RowsOf(scene.panel) /\ row.fields = old.fields
    BY <1>7, <1>9, <1>10 DEF RowsOf
  <1>12. rows' = [rows EXCEPT ![i] = row]
    BY <1>8, <1>9
  <1>13. Stored' /\ rows'[i] = row /\ rows'[i] # None /\ \A j \in Ids \ {i} : rows'[j] = rows[j]
    BY <1>1, <1>5, <1>8, <1>11, <1>12, RowWritten
  <1>14. SameFields
    BY <1>8, <1>9, <1>11, <1>13 DEF SameFields
  <1> QED
    BY <1>2, <1>8, <1>13, <1>14, RespondedOk

\* A row that is created.
LEMMA InsertOk ==
    ASSUME FormsInv, NEW c \in Calls, call[c].state \notin {"new", "ok"}, call[c].verb = "POST",
           Insert(c, Inserted(call[c].payload))
    PROVE  FormsInv'
  <1>1. Stored /\ TabsOk /\ CallsOk /\ KeysOk
    BY DEF FormsInv
  <1>2. PICK q : q = call[c]
    OBVIOUS
  <1>3. CallOk(q) /\ q # NoCall
    BY <1>1, <1>2 DEF CallsOk, NoCall
  <1>4. PICK p, fields : p = q.payload /\ fields = Inserted(p)
    OBVIOUS
  <1>5. Insert(c, fields)
    BY <1>2, <1>4
  <1>6. p \in [DOMAIN p -> Nat] /\ (DOMAIN p) \subseteq Columns(scene.panel)
    BY <1>2, <1>3, <1>4 DEF CallOk, PayloadFits
  <1>7. fields \in [Columns(scene.panel) -> Nat]
    BY <1>1, <1>4, <1>6, InsertedFits
  <1>8. CASE Taken(fields, None)
    <2>1. Refuse(c)
      BY <1>5, <1>8, Zenon DEF Insert
    <2> QED
      BY <2>1, RefuseOk
  <1>9. CASE ~Taken(fields, None)
    <2> DEFINE free == {i \in Ids : rows[i] = None}
    <2>1. /\ free # {} /\ rows' = [rows EXCEPT ![CHOOSE i \in free : TRUE] = Row(fields)]
          /\ Respond(c, "ok")
      BY <1>5, <1>9 DEF Insert
    <2>2. PICK i : i = CHOOSE j \in free : TRUE
      OBVIOUS
    <2>3. i \in Ids /\ rows[i] = None
      BY <2>1, <2>2
    <2>4. PICK row : row = Row(fields)
      OBVIOUS
    <2>5. rows' = [rows EXCEPT ![i] = row]
      BY <2>1, <2>2, <2>4
    <2>6. call' = [call EXCEPT ![c].state = "ok"] /\ UNCHANGED <<scene, tab>>
      BY <2>1, Zenon DEF Respond
    <2> HIDE DEF free
    <2>7. row \in RowsOf(scene.panel) /\ row.fields = fields
      BY <1>7, <2>4 DEF Row, RowsOf
    <2>8. Stored' /\ RowsStay /\ rows'[i] = row /\ rows'[i] # None /\ \A j \in Ids \ {i} : rows'[j] = rows[j]
      BY <1>1, <2>3, <2>5, <2>6, <2>7, RowWritten
    <2>9. TabsOk'
      BY <1>1, <2>6, <2>8, TabsStay
    <2>10. PICK r : r = [q EXCEPT !.state = "ok"]
      OBVIOUS
    <2>11. CallOk(r) /\ r.state = "ok" /\ r.verb = "POST" /\ r.payload = p
      BY <1>2, <1>3, <1>4, <2>10 DEF CallOk, CallFields
    <2>12. call' = [call EXCEPT ![c] = r]
      BY <1>2, <2>6, <2>10
    <2>13. CallsOk'
      BY <1>1, <2>8, <2>11, <2>12, CallStep
    <2>14. call'[c] = r /\ \A e \in Calls \ {c} : call'[e] = call[e]
      BY <1>1, <2>12 DEF CallsOk
    <2>15. SameFields
      BY <2>3, <2>6, <2>8 DEF SameFields
    <2>16. ~ \E j \in Ids : rows[j] # None /\ UniqueKey(rows[j].fields) = UniqueKey(fields)
      BY <1>1, <1>9, SceneFacts DEF Taken
    <2>17. /\ ~ \E j \in Ids : rows[j] # None /\ UniqueKey(rows[j].fields) = UniqueKey(Inserted(p))
           /\ \E j \in Ids : rows'[j] # None /\ rows'[j].fields = Inserted(p)
      BY <1>4, <2>3, <2>7, <2>8, <2>16
    <2>18. call[c].state # "ok" /\ call'[c].payload = p /\ call'[c].verb = "POST"
      BY <2>11, <2>14
    <2>19. KeysOk'
      BY <1>1, <2>14, <2>15, <2>17, <2>18, KeysAfterInsert
    <2> QED
      BY <2>8, <2>9, <2>13, <2>19 DEF FormsInv
  <1> QED
    BY <1>8, <1>9

\* What an update stores is a row again.
LEMMA UpdatedFits ==
    ASSUME Stored, CallsOk, NEW c \in Calls, call[c].state # "new", call[c].verb = "PATCH"
    PROVE  /\ call[c].id \in Ids /\ rows[call[c].id] \in RowsOf(scene.panel)
           /\ Updated(c) \in [Columns(scene.panel) -> Nat]
           /\ \A k \in Columns(scene.panel) :
                 Updated(c)[k] = IF k \in DOMAIN call[c].payload THEN call[c].payload[k]
                                 ELSE rows[call[c].id].fields[k]
  <1>1. PICK q : q = call[c]
    OBVIOUS
  <1>2. CallOk(q) /\ q # NoCall
    BY <1>1 DEF CallsOk, NoCall
  <1>3. PICK i, sent : i = q.id /\ sent = q.payload
    OBVIOUS
  <1>4. i \in Ids /\ rows[i] # None
    BY <1>1, <1>2, <1>3 DEF CallOk
  <1>5. sent \in [DOMAIN sent -> Nat] /\ (DOMAIN sent) \subseteq Columns(scene.panel)
    BY <1>1, <1>2, <1>3 DEF CallOk, PayloadFits
  <1>6. rows[i] \in RowsOf(scene.panel)
    BY <1>4 DEF Stored
  <1>7. PICK old : old = rows[i].fields
    OBVIOUS
  <1>8. old \in [Columns(scene.panel) -> Nat]
    BY <1>6, <1>7 DEF RowsOf
  <1>9. Updated(c) = Over(sent, old)
    BY <1>1, <1>3, <1>7 DEF Updated
  <1>10. /\ Over(sent, old) \in [Columns(scene.panel) -> Nat]
         /\ \A k \in Columns(scene.panel) : Over(sent, old)[k] = IF k \in DOMAIN sent THEN sent[k] ELSE old[k]
    BY <1>5, <1>8, OverFits
  <1> QED
    BY <1>1, <1>3, <1>4, <1>6, <1>7, <1>9, <1>10

\* A row that is updated.
LEMMA UpdateOk ==
    ASSUME FormsInv, NEW c \in Calls, call[c].state \notin {"new", "ok"}, call[c].verb = "PATCH",
           NEW r, CallOk(r), r.state = "ok", r.verb = "PATCH", r.payload = call[c].payload,
           call' = [call EXCEPT ![c] = r], UNCHANGED <<scene, tab>>,
           rows' = [rows EXCEPT ![call[c].id].fields = Updated(c)]
    PROVE  FormsInv'
  <1>1. Stored /\ TabsOk /\ CallsOk /\ KeysOk
    BY DEF FormsInv
  <1>2. PICK i, sent, old : i = call[c].id /\ sent = call[c].payload /\ old = rows[i]
    OBVIOUS
  <1>3. PICK fields : fields = Updated(c)
    OBVIOUS
  <1>4. i \in Ids /\ old \in RowsOf(scene.panel) /\ fields \in [Columns(scene.panel) -> Nat]
    BY <1>1, <1>2, <1>3, UpdatedFits
  <1>5. fields = Over(sent, old.fields)
    BY <1>2, <1>3 DEF Updated
  <1>6. PICK row : row = [old EXCEPT !.fields = fields]
    OBVIOUS
  <1>7. row \in RowsOf(scene.panel) /\ row.fields = fields
    BY <1>4, <1>6 DEF RowsOf
  <1>8. rows' = [rows EXCEPT ![i] = row]
    BY <1>2, <1>3, <1>6
  <1>9. Stored' /\ RowsStay /\ rows'[i] = row /\ rows'[i] # None /\ \A j \in Ids \ {i} : rows'[j] = rows[j]
    BY <1>1, <1>4, <1>7, <1>8, RowWritten
  <1>10. TabsOk'
    BY <1>1, <1>9, TabsStay
  <1>11. CallsOk'
    BY <1>1, <1>9, CallStep
  <1>12. call'[c] = r /\ \A e \in Calls \ {c} : call'[e] = call[e]
    BY <1>1 DEF CallsOk
  <1>13. rows[i] # None
    BY <1>1, <1>2, <1>4, SceneFacts
  <1>14. rows'[i].fields = Over(sent, rows[i].fields)
    BY <1>2, <1>5, <1>7, <1>9
  <1>15. call'[c].state = "ok" /\ call'[c].verb = "PATCH" /\ call'[c].payload = sent /\ call[c].payload = sent
    BY <1>2, <1>12
  <1>16. KeysOk'
    BY <1>1, <1>4, <1>9, <1>12, <1>13, <1>14, <1>15, KeysAfterUpdate
  <1> QED
    BY <1>9, <1>10, <1>11, <1>16 DEF FormsInv

\* PATCH, which the employee's own service splits in two.
LEMMA UpdatingOk ==
    ASSUME FormsInv, NEW c \in Calls, call[c].state \notin {"new", "ok"}, call[c].verb = "PATCH",
           Update(c)
    PROVE  FormsInv'
  <1>1. CASE Taken(Updated(c), call[c].id)
    <2>1. Refuse(c)
      BY <1>1, Zenon DEF Update
    <2> QED
      BY <2>1, RefuseOk
  <1>2. CASE ~Taken(Updated(c), call[c].id)
    <2>1. /\ rows' = [rows EXCEPT ![call[c].id].fields = Updated(c)]
          /\ call' = [call EXCEPT ![c].state = "ok"] /\ UNCHANGED <<scene, tab>>
      BY <1>2, Zenon DEF Update, Respond
    <2>2. PICK q : q = call[c]
      OBVIOUS
    <2>3. CallOk(q) /\ q # NoCall
      BY <2>2 DEF FormsInv, CallsOk, NoCall
    <2>4. PICK r : r = [q EXCEPT !.state = "ok"]
      OBVIOUS
    <2>5. CallOk(r) /\ r.state = "ok" /\ r.verb = q.verb /\ r.payload = q.payload
      BY <2>3, <2>4 DEF CallOk, CallFields
    <2>6. call' = [call EXCEPT ![c] = r]
      BY <2>1, <2>2, <2>4
    <2> QED
      BY <2>1, <2>2, <2>5, <2>6, UpdateOk
  <1> QED
    BY <1>1, <1>2

\* The employee is found.
LEMMA FindingOk ==
    ASSUME FormsInv, NEW c \in Calls, FindEmployee(c)
    PROVE  FormsInv'
  <1>1. Stored /\ TabsOk /\ CallsOk /\ KeysOk
    BY DEF FormsInv
  <1>2. /\ call[c].state = "sent" /\ call[c].verb = "PATCH"
        /\ call' = [call EXCEPT ![c].state = "found", ![c].existing = rows[call[c].id]]
        /\ UNCHANGED <<scene, rows, tab>>
    BY DEF FindEmployee, Received
  <1>3. PICK q : q = call[c]
    OBVIOUS
  <1>4. CallOk(q) /\ q # NoCall
    BY <1>1, <1>2, <1>3 DEF CallsOk, NoCall
  <1>5. PICK row : row = rows[q.id]
    OBVIOUS
  <1>6. row \in RowsOf(scene.panel)
    BY <1>1, <1>2, <1>3, <1>5, UpdatedFits
  <1>7. PICK r : r = [q EXCEPT !.state = "found", !.existing = row]
    OBVIOUS
  <1>8. CallOk(r) /\ r.state = "found"
    BY <1>2, <1>3, <1>4, <1>6, <1>7 DEF CallOk, CallFields
  <1>9. call' = [call EXCEPT ![c] = r]
    BY <1>2, <1>3, <1>5, <1>7
  <1>10. RowsStay /\ SameFields
    BY <1>2 DEF RowsStay, SameFields
  <1>11. TabsOk' /\ CallsOk'
    BY <1>1, <1>2, <1>8, <1>9, <1>10, TabsStay, CallStep
  <1>12. SameSuccess
    <2>1. call'[c] = r /\ \A e \in Calls \ {c} : call'[e] = call[e]
      BY <1>1, <1>9 DEF CallsOk
    <2> QED
      BY <1>2, <1>8, <2>1 DEF SameSuccess
  <1>13. KeysOk'
    BY <1>1, <1>10, <1>12, KeysStay
  <1> QED
    BY <1>1, <1>2, <1>11, <1>13 DEF FormsInv, Stored

\* The employee is updated.
LEMMA UpdatingEmployeeOk ==
    ASSUME FormsInv, NEW c \in Calls, UpdateEmployee(c)
    PROVE  FormsInv'
  <1>1. call[c].state = "found" /\ call[c].verb = "PATCH"
    BY DEF UpdateEmployee, Received
  <1>2. CASE Taken(Updated(c), call[c].id)
    <2>1. Refuse(c)
      BY <1>2, Zenon DEF UpdateEmployee
    <2> QED
      BY <1>1, <2>1, RefuseOk
  <1>3. CASE ~Taken(Updated(c), call[c].id)
    <2>1. PICK logged : logged = Changes(c)
      OBVIOUS
    <2>2. /\ rows' = [rows EXCEPT ![call[c].id].fields = Updated(c)]
          /\ call' = [call EXCEPT ![c].state = "ok", ![c].logged = logged] /\ UNCHANGED <<scene, tab>>
      BY <1>3, <2>1, Zenon DEF UpdateEmployee
    <2>3. PICK q : q = call[c]
      OBVIOUS
    <2>4. CallOk(q) /\ q # NoCall
      BY <1>1, <2>3 DEF FormsInv, CallsOk, NoCall
    <2>5. PICK r : r = [q EXCEPT !.state = "ok", !.logged = logged]
      OBVIOUS
    <2>6. CallOk(r) /\ r.state = "ok" /\ r.verb = q.verb /\ r.payload = q.payload
      BY <2>4, <2>5 DEF CallOk, CallFields
    <2>7. call' = [call EXCEPT ![c] = r]
      BY <2>2, <2>3, <2>5
    <2> QED
      BY <1>1, <2>2, <2>3, <2>6, <2>7, UpdateOk
  <1> QED
    BY <1>2, <1>3

\* What the server does with a request.
LEMMA ServingOk ==
    ASSUME FormsInv, NEW c \in Calls, ServerStep(c)
    PROVE  FormsInv'
  <1>1. ASSUME NEW p, NEW verbs, Received(c, p, verbs, "sent")
        PROVE  call[c].state \notin {"new", "ok"} /\ scene.panel = p /\ call[c].verb \in verbs
    BY <1>1 DEF Received
  <1>2. ASSUME Reject(c) PROVE FormsInv'
    <2>1. call[c].state \notin {"new", "ok"} /\ Refuse(c)
      BY <1>2 DEF Reject
    <2> QED
      BY <2>1, RefuseOk
  <1>3. ASSUME call[c].state \notin {"new", "ok"}, call[c].verb = "POST", NEW fields,
               fields = Inserted(call[c].payload), Insert(c, fields)
        PROVE  FormsInv'
    BY <1>3, InsertOk
  <1>4. ASSUME CreateShift(c) PROVE FormsInv'
    <2>1. PICK fields : fields = Over(call[c].payload, EmptyShift)
      OBVIOUS
    <2>2. Received(c, "shifts", {"POST"}, "sent") /\ Insert(c, fields)
      BY <1>4, <2>1 DEF CreateShift
    <2>3. call[c].state \notin {"new", "ok"} /\ scene.panel = "shifts" /\ call[c].verb = "POST"
      BY <1>1, <2>2
    <2>4. fields = Inserted(call[c].payload)
      BY <2>1, <2>3 DEF Inserted
    <2> QED
      BY <1>3, <2>2, <2>3, <2>4
  <1>5. ASSUME CreateSchedule(c) PROVE FormsInv'
    <2>1. PICK fields : fields = Over(call[c].payload, EmptySchedule)
      OBVIOUS
    <2>2. Received(c, "schedules", {"POST"}, "sent") /\ (Insert(c, fields) \/ Refuse(c))
      BY <1>5, <2>1, Zenon DEF CreateSchedule
    <2>3. call[c].state \notin {"new", "ok"} /\ scene.panel = "schedules" /\ call[c].verb = "POST"
      BY <1>1, <2>2
    <2>4. fields = Inserted(call[c].payload)
      BY <2>1, <2>3 DEF Inserted
    <2> QED
      BY <1>3, <2>2, <2>3, <2>4, RefuseOk
  <1>6. ASSUME CreateHoliday(c) PROVE FormsInv'
    <2>1. PICK fields : fields = Over(call[c].payload, NoHoliday)
      OBVIOUS
    <2>2. Received(c, "holidays", {"POST"}, "sent") /\ Insert(c, fields)
      BY <1>6, <2>1 DEF CreateHoliday
    <2>3. call[c].state \notin {"new", "ok"} /\ scene.panel = "holidays" /\ call[c].verb = "POST"
      BY <1>1, <2>2
    <2>4. fields = Inserted(call[c].payload)
      BY <2>1, <2>3 DEF Inserted
    <2> QED
      BY <1>3, <2>2, <2>3, <2>4
  <1>7. ASSUME CreateEmployee(c) PROVE FormsInv'
    <2>1. PICK fields : fields = Over(call[c].payload, EmptyEmployee)
      OBVIOUS
    <2>2. Received(c, "employee", {"POST"}, "sent") /\ Insert(c, fields)
      BY <1>7, <2>1 DEF CreateEmployee
    <2>3. call[c].state \notin {"new", "ok"} /\ scene.panel = "employee" /\ call[c].verb = "POST"
      BY <1>1, <2>2
    <2>4. fields = Inserted(call[c].payload)
      BY <2>1, <2>3 DEF Inserted
    <2> QED
      BY <1>3, <2>2, <2>3, <2>4
  <1>8. ASSUME UpdateShift(c) \/ UpdateSchedule(c) \/ UpdateHoliday(c) PROVE FormsInv'
    <2>1. PICK p : Received(c, p, {"PATCH"}, "sent")
      BY <1>8, Zenon DEF UpdateShift, UpdateSchedule, UpdateHoliday
    <2>2. Update(c) \/ Refuse(c)
      BY <1>8, Zenon DEF UpdateShift, UpdateSchedule, UpdateHoliday
    <2>3. call[c].state \notin {"new", "ok"} /\ call[c].verb = "PATCH"
      BY <1>1, <2>1
    <2> QED
      BY <2>2, <2>3, UpdatingOk, RefuseOk
  <1>9. ASSUME ServeShiftActive(c) \/ ServeScheduleActive(c) \/ ServeHolidayActive(c) PROVE FormsInv'
    <2>1. PICK p : Received(c, p, {"DELETE", "RESTORE"}, "sent")
      BY <1>9, Zenon DEF ServeShiftActive, ServeScheduleActive, ServeHolidayActive
    <2>2. SetActive(c) \/ Refuse(c)
      BY <1>9, Zenon DEF ServeShiftActive, ServeScheduleActive, ServeHolidayActive
    <2>3. call[c].state \notin {"new", "ok"} /\ call[c].verb \in {"DELETE", "RESTORE"}
      BY <1>1, <2>1
    <2> QED
      BY <2>2, <2>3, ServeActiveOk, RefuseOk
  <1> QED
    BY <1>2, <1>4, <1>5, <1>6, <1>7, <1>8, <1>9, FindingOk, UpdatingEmployeeOk, Zenon DEF ServerStep

\* An answer that arrives, or does not.
LEMMA SettlingOk ==
    ASSUME FormsInv, NEW c \in Calls, BrowserStep(c)
    PROVE  FormsInv'
  <1>1. Stored /\ TabsOk /\ CallsOk /\ KeysOk
    BY DEF FormsInv
  <1>2. Answer(c) \/ Lose(c)
    BY DEF BrowserStep
  <1>3. /\ call[c].state # "new" /\ call' = [call EXCEPT ![c].waiting = FALSE]
        /\ UNCHANGED <<scene, rows>>
    BY <1>2, Zenon DEF Answer, Lose, Waiting, Settle
  <1>4. PICK q : q = call[c]
    OBVIOUS
  <1>5. CallOk(q) /\ q # NoCall
    BY <1>1, <1>3, <1>4 DEF CallsOk, NoCall
  <1>6. call[c].tab \in Tabs
    BY <1>4, <1>5 DEF CallOk
  <1>7. TabsOk'
    BY <1>1, <1>2, <1>6, SettleTabOk
  <1>8. PICK r : r = [q EXCEPT !.waiting = FALSE]
    OBVIOUS
  <1>9. CallOk(r) /\ r.state = q.state /\ r.verb = q.verb /\ r.payload = q.payload
    BY <1>5, <1>8 DEF CallOk, CallFields
  <1>10. call' = [call EXCEPT ![c] = r]
    BY <1>3, <1>4, <1>8
  <1>11. RowsStay /\ SameFields
    BY <1>3 DEF RowsStay, SameFields
  <1>12. CallsOk'
    BY <1>1, <1>9, <1>10, <1>11, CallStep
  <1>13. SameSuccess
    <2>1. call'[c] = r /\ \A e \in Calls \ {c} : call'[e] = call[e]
      BY <1>1, <1>10 DEF CallsOk
    <2> QED
      BY <1>4, <1>9, <2>1 DEF SameSuccess
  <1>14. KeysOk'
    BY <1>1, <1>11, <1>13, KeysStay
  <1> QED
    BY <1>1, <1>3, <1>7, <1>12, <1>14 DEF FormsInv, Stored

\* Nothing is open or sent when the browser starts.
LEMMA FormsBegin ==
    ASSUME FormsInit
    PROVE  FormsInv
  <1>1. scene \in Scenes /\ rows = scene.rows /\ tab = [t \in Tabs |-> NotLoaded] /\ call = [c \in Calls |-> NoCall]
    BY DEF FormsInit
  <1>2. Stored /\ None \notin RowsOf(scene.panel)
    BY <1>1, ScenesAssumption DEF Stored
  <1>3. TabOk(NotLoaded)
    <2>1. PICK n : n = Tab(NoRows)
      OBVIOUS
    <2>2. /\ DOMAIN n = TabFields /\ n.loaded = TRUE /\ n.open = FALSE /\ n.editing = None
          /\ n.formError = FALSE /\ n.listError = FALSE /\ n.submitting = FALSE /\ n.archiving = None
          /\ n.shown = NoRows /\ n.refreshing = FALSE /\ n.typed = {}
      BY <2>1, NewTab
    <2>3. PICK w : w = [n EXCEPT !.loaded = FALSE]
      OBVIOUS
    <2>4. w = NotLoaded
      BY <2>1, <2>3 DEF NotLoaded
    <2>5. /\ DOMAIN w = TabFields /\ w.loaded = FALSE /\ w.open = FALSE /\ w.editing = None
          /\ w.formError = FALSE /\ w.listError = FALSE /\ w.submitting = FALSE /\ w.archiving = None
          /\ w.shown = NoRows /\ w.refreshing = FALSE
      BY ONLY <2>2, <2>3, SMTT(30) DEF TabFields
    <2>6. NoRows \in [Ids -> {None}]
      BY DEF NoRows
    <2>7. TabOk(w)
      BY <2>5, <2>6 DEF TabOk, Flags
    <2> QED
      BY <2>4, <2>7
  <1>4. TabsOk
    BY <1>1, <1>3 DEF TabsOk
  <1>5. CallsOk
    BY <1>1 DEF CallsOk, CallOk
  <1>6. \A c \in Calls : ~Created(c)
    BY <1>1 DEF Created, NoCall
  <1> QED
    BY <1>2, <1>4, <1>5, <1>6 DEF FormsInv, KeysOk, KeptOrFreed, OneRowPerPayload

\* Every step keeps the forms right.
LEMMA FormsGoOn ==
    ASSUME FormsInv, [FormsNext]_formVars
    PROVE  FormsInv'
  <1>1. Stored /\ TabsOk /\ CallsOk /\ KeysOk
    BY DEF FormsInv
  <1>2. ASSUME UNCHANGED <<scene, rows, call>>, TabsOk' PROVE FormsInv'
    <2>1. RowsStay /\ SameFields /\ SameSuccess
      BY <1>2 DEF RowsStay, SameFields, SameSuccess
    <2>2. CallsOk' /\ KeysOk'
      BY <1>1, <1>2, <2>1, CallsStay, KeysStay
    <2> QED
      BY <1>1, <1>2, <2>2 DEF FormsInv, Stored
  <1>3. ASSUME UNCHANGED formVars PROVE FormsInv'
    <2>1. UNCHANGED <<scene, rows, call>> /\ tab' = tab
      BY <1>3 DEF formVars
    <2>2. RowsStay
      BY <2>1 DEF RowsStay
    <2> QED
      BY <1>1, <1>2, <2>1, <2>2, TabsStay
  <1>4. ASSUME NEW t \in Tabs, UserStep(t) \/ Refresh(t) PROVE FormsInv'
    <2>1. \/ \/ OpenCreateShift(t) \/ OpenEditShift(t) \/ TypeShift(t)
             \/ OpenCreateSchedule(t) \/ OpenEditSchedule(t) \/ TypeSchedule(t)
             \/ OpenCreateHoliday(t) \/ OpenEditHoliday(t) \/ TypeHoliday(t)
             \/ OpenEmployee(t) \/ TypeEmployee(t)
             \/ Load(t) \/ CloseForm(t) \/ Refresh(t)
          \/ \E c \in Calls :
                \/ SaveShift(t, c) \/ SetShiftActive(t, c)
                \/ SaveSchedule(t, c) \/ SetScheduleActive(t, c)
                \/ SaveHoliday(t, c) \/ SetHolidayActive(t, c)
                \/ SaveEmployee(t, c)
      BY <1>4, Zenon DEF UserStep
    <2> QED
      BY <1>1, <1>2, <2>1, QuietStepsOk, SendingOk
  <1> QED
    BY <1>3, <1>4, ServingOk, SettlingOk, Zenon DEF FormsNext

\* The invariant of the forms holds whatever is done in the browser.
LEMMA FormsAreRight == BrowserSpec => []FormsInv
  <1>1. BrowserInit => FormsInv
    BY FormsBegin DEF BrowserInit
  <1>2. FormsInv /\ [BrowserNext]_browserVars => FormsInv'
    <2>1. [BrowserNext]_browserVars => [FormsNext]_formVars
      BY Zenon DEF BrowserNext, browserVars
    <2> QED
      BY <2>1, FormsGoOn
  <1> QED
    BY <1>1, <1>2, PTL DEF BrowserSpec

\* What is sent is sent by a form or a button, and is not yet answered.
LEMMA SendingSends ==
    ASSUME NEW t \in Tabs, NEW x \in Calls,
           \/ SaveShift(t, x) \/ SetShiftActive(t, x)
           \/ SaveSchedule(t, x) \/ SetScheduleActive(t, x)
           \/ SaveHoliday(t, x) \/ SetHolidayActive(t, x)
           \/ SaveEmployee(t, x)
    PROVE  x = NextCall /\ \E q : call' = [call EXCEPT ![x] = q]
  <1>1. ASSUME NEW payload, NEW required, SubmitForm(t, x, payload, required)
        PROVE  x = NextCall /\ \E q : call' = [call EXCEPT ![x] = q]
    BY <1>1, Zenon DEF SubmitForm
  <1>2. ASSUME NEW id, NEW verb, SendActive(t, id, x, verb)
        PROVE  x = NextCall /\ \E q : call' = [call EXCEPT ![x] = q]
    BY <1>2, Zenon DEF SendActive
  <1>3. ASSUME SaveShift(t, x) \/ SaveSchedule(t, x) \/ SaveHoliday(t, x) \/ SaveEmployee(t, x)
        PROVE  \E payload, required : SubmitForm(t, x, payload, required)
    BY <1>3, Zenon DEF SaveShift, SaveSchedule, SaveHoliday, SaveEmployee
  <1>4. ASSUME SetShiftActive(t, x) \/ SetScheduleActive(t, x) \/ SetHolidayActive(t, x)
        PROVE  \E id, verb : SendActive(t, id, x, verb)
    BY <1>4, Zenon DEF SetShiftActive, SetScheduleActive, SetHolidayActive
  <1> QED
    BY <1>1, <1>2, <1>3, <1>4

\* Only the server changes the state of a request that was sent, and of that request only.
LEMMA OnlyTheServerAnswers ==
    ASSUME FormsInv, FormsNext, NEW c \in Calls, call[c] # NoCall, call'[c].state # call[c].state
    PROVE  ServerStep(c)
  <1>1. Stored /\ TabsOk /\ DOMAIN call = Calls /\ DOMAIN call[c] = CallFields
    BY DEF FormsInv, CallsOk, CallOk
  <1>2. ASSUME NEW t \in Tabs, UserStep(t) \/ Refresh(t) PROVE FALSE
    <2>1. \/ \/ OpenCreateShift(t) \/ OpenEditShift(t) \/ TypeShift(t)
             \/ OpenCreateSchedule(t) \/ OpenEditSchedule(t) \/ TypeSchedule(t)
             \/ OpenCreateHoliday(t) \/ OpenEditHoliday(t) \/ TypeHoliday(t)
             \/ OpenEmployee(t) \/ TypeEmployee(t)
             \/ Load(t) \/ CloseForm(t) \/ Refresh(t)
          \/ \E x \in Calls :
                \/ SaveShift(t, x) \/ SetShiftActive(t, x)
                \/ SaveSchedule(t, x) \/ SetScheduleActive(t, x)
                \/ SaveHoliday(t, x) \/ SetHolidayActive(t, x)
                \/ SaveEmployee(t, x)
      BY <1>2, Zenon DEF UserStep
    <2>2. UNCHANGED call \/ \E x \in Calls : x = NextCall /\ \E q : call' = [call EXCEPT ![x] = q]
      BY <1>1, <2>1, QuietStepsOk, SendingSends
    <2>3. ASSUME NEW x \in Calls, x = NextCall, NEW q, call' = [call EXCEPT ![x] = q] PROVE FALSE
      <3>1. x # c
        BY <1>1, <2>3, NextCallIsNew
      <3> QED
        BY <1>1, <2>3, <3>1
    <2> QED
      BY <2>2, <2>3
  <1>3. ASSUME NEW x \in Calls, BrowserStep(x) PROVE FALSE
    <2>1. call' = [call EXCEPT ![x].waiting = FALSE]
      BY <1>3, Zenon DEF BrowserStep, Answer, Lose, Settle
    <2>2. CASE x = c
      BY <1>1, <2>1, <2>2 DEF CallFields
    <2>3. CASE x # c
      BY <1>1, <2>1, <2>3
    <2> QED
      BY <2>2, <2>3
  <1>4. ASSUME NEW x \in Calls, ServerStep(x), x # c PROVE FALSE
    <2>1. \/ \E state : call' = [call EXCEPT ![x].state = state]
          \/ \E row : call' = [call EXCEPT ![x].state = "found", ![x].existing = row]
          \/ \E logged : call' = [call EXCEPT ![x].state = "ok", ![x].logged = logged]
      <3>1. ASSUME \E state : Respond(x, state)
            PROVE  \E state : call' = [call EXCEPT ![x].state = state]
        BY <3>1, Zenon DEF Respond
      <3>2. ASSUME NEW fields, Insert(x, fields) PROVE \E state : Respond(x, state)
        BY <3>2, Zenon DEF Insert, Refuse
      <3>3. ASSUME Update(x) \/ SetActive(x) \/ Refuse(x) PROVE \E state : Respond(x, state)
        BY <3>3, Zenon DEF Update, SetActive, Refuse
      <3>4. ASSUME CreateShift(x) \/ CreateSchedule(x) \/ CreateHoliday(x) \/ CreateEmployee(x)
            PROVE  (\E fields : Insert(x, fields)) \/ Refuse(x)
        BY <3>4, Zenon DEF CreateShift, CreateSchedule, CreateHoliday, CreateEmployee
      <3>5. ASSUME \/ UpdateShift(x) \/ UpdateSchedule(x) \/ UpdateHoliday(x)
                   \/ ServeShiftActive(x) \/ ServeScheduleActive(x) \/ ServeHolidayActive(x) \/ Reject(x)
            PROVE  Update(x) \/ SetActive(x) \/ Refuse(x)
        BY <3>5, Zenon DEF UpdateShift, UpdateSchedule, UpdateHoliday, ServeShiftActive, ServeScheduleActive,
             ServeHolidayActive, Reject
      <3>6. ASSUME FindEmployee(x)
            PROVE  \E row : call' = [call EXCEPT ![x].state = "found", ![x].existing = row]
        BY <3>6, Zenon DEF FindEmployee
      <3>7. ASSUME UpdateEmployee(x)
            PROVE  Refuse(x) \/ \E logged : call' = [call EXCEPT ![x].state = "ok", ![x].logged = logged]
        BY <3>7, Zenon DEF UpdateEmployee
      <3> QED
        BY <1>4, <3>1, <3>2, <3>3, <3>4, <3>5, <3>6, <3>7, Zenon DEF ServerStep
    <2> QED
      BY <1>1, <1>4, <2>1
  <1> QED
    BY <1>2, <1>3, <1>4, Zenon DEF FormsNext

\* An edit that succeeds stores what it sends over the row, and an employee's history.
LEMMA EditsUpdate ==
    ASSUME FormsInv, FormsNext, NEW c \in Calls, call'[c].state = "ok",
           \/ call[c].state = "found"
           \/ call[c].state = "sent" /\ call[c].verb = "PATCH"
    PROVE  /\ call[c].verb = "PATCH"
           /\ rows' = [rows EXCEPT ![call[c].id].fields = Updated(c)]
           /\ call[c].state = "found" => scene.panel = "employee" /\ call'[c].logged = Changes(c)
  <1>1. /\ Stored /\ CallsOk /\ DOMAIN call = Calls /\ DOMAIN call[c] = CallFields /\ call[c] # NoCall
        /\ call[c].state \in {"sent", "found"}
    <2>1. call[c] # NoCall
      BY DEF NoCall
    <2> QED
      BY <2>1 DEF FormsInv, CallsOk, CallOk
  <1>2. ServerStep(c)
    BY <1>1, OnlyTheServerAnswers
  <1>3. ASSUME Refuse(c) PROVE FALSE
    <2>1. call' = [call EXCEPT ![c].state = "refused"]
      BY <1>3, Zenon DEF Refuse, Respond
    <2> QED
      BY <1>1, <2>1 DEF CallFields
  <1>4. CASE UpdateEmployee(c)
    <2>1. /\ call[c].state = "found" /\ scene.panel = "employee" /\ call[c].verb = "PATCH"
      BY <1>4 DEF UpdateEmployee, Received
    <2>2. PICK logged : logged = Changes(c)
      OBVIOUS
    <2>3. /\ rows' = [rows EXCEPT ![call[c].id].fields = Updated(c)]
          /\ call' = [call EXCEPT ![c].state = "ok", ![c].logged = logged]
      BY <1>3, <1>4, <2>2, Zenon DEF UpdateEmployee
    <2>4. call'[c].logged = logged
      BY <1>1, <2>3 DEF CallFields
    <2> QED
      BY <2>1, <2>2, <2>3, <2>4
  <1>5. CASE FindEmployee(c)
    <2>1. PICK row : call' = [call EXCEPT ![c].state = "found", ![c].existing = row]
      BY <1>5, Zenon DEF FindEmployee
    <2>2. call'[c].state = "found"
      BY <1>1, <2>1 DEF CallFields
    <2> QED
      BY <2>2
  <1>6. CASE ~UpdateEmployee(c) /\ ~FindEmployee(c)
    <2>1. call[c].state = "sent" /\ call[c].verb = "PATCH"
      BY <1>2, <1>6, Zenon DEF ServerStep, CreateShift, UpdateShift, ServeShiftActive, CreateSchedule, UpdateSchedule,
           ServeScheduleActive, CreateHoliday, UpdateHoliday, ServeHolidayActive, CreateEmployee, Reject, Received
    <2>2. Update(c) \/ Refuse(c)
      <3>1. ASSUME \/ CreateShift(c) \/ CreateSchedule(c) \/ CreateHoliday(c) \/ CreateEmployee(c)
                   \/ ServeShiftActive(c) \/ ServeScheduleActive(c) \/ ServeHolidayActive(c)
            PROVE  FALSE
        <4>1. PICK p, verbs : Received(c, p, verbs, "sent") /\ verbs \in {{"POST"}, {"DELETE", "RESTORE"}}
          BY <3>1, Zenon DEF CreateShift, ServeShiftActive, CreateSchedule, ServeScheduleActive, CreateHoliday,
               ServeHolidayActive, CreateEmployee
        <4> QED
          BY <2>1, <4>1 DEF Received
      <3>2. ASSUME UpdateShift(c) \/ UpdateSchedule(c) \/ UpdateHoliday(c) \/ Reject(c)
            PROVE  Update(c) \/ Refuse(c)
        BY <3>2, Zenon DEF UpdateShift, UpdateSchedule, UpdateHoliday, Reject
      <3> QED
        BY <1>2, <1>6, <3>1, <3>2, Zenon DEF ServerStep
    <2>3. rows' = [rows EXCEPT ![call[c].id].fields = Updated(c)]
      BY <1>3, <2>2, Zenon DEF Update
    <2> QED
      BY <2>1, <2>3
  <1> QED
    BY <1>4, <1>5, <1>6

\* An edit that succeeds leaves the columns that were not typed into as they are, but
\* for those somebody else changed since the row was shown: nothing is lost between the
\* row, the form and the payload, in whichever order forms were opened and left.
THEOREM EditsChangeOnlyWhatWasTyped == BrowserSpec => EditChangesOnlyWhatWasTyped
  <1> DEFINE A == \A c \in Calls :
          call[c].state \in {"sent", "found"} /\ call'[c].state = "ok" /\ call[c].verb = "PATCH" =>
             \A f \in DOMAIN rows[call[c].id].fields :
                rows'[call[c].id].fields[f] # rows[call[c].id].fields[f] =>
                   \/ f \in call[c].typed
                   \/ rows[call[c].id].fields[f] # call[c].from.fields[f]
  <1>1. FormsInv /\ [BrowserNext]_browserVars => [A]_formVars
    <2>1. [BrowserNext]_browserVars => [FormsNext]_formVars
      BY Zenon DEF BrowserNext, browserVars
    <2> SUFFICES ASSUME FormsInv, FormsNext,
                        NEW c \in Calls, call[c].state \in {"sent", "found"}, call'[c].state = "ok",
                        call[c].verb = "PATCH", NEW f \in DOMAIN rows[call[c].id].fields,
                        rows'[call[c].id].fields[f] # rows[call[c].id].fields[f]
                 PROVE  \/ f \in call[c].typed
                        \/ rows[call[c].id].fields[f] # call[c].from.fields[f]
      BY <2>1
    <2>2. Stored /\ CallsOk
      BY DEF FormsInv
    <2>3. PICK q : q = call[c]
      OBVIOUS
    <2>4. CallOk(q) /\ q # NoCall
      BY <2>2, <2>3 DEF CallsOk, NoCall
    <2>5. PayloadFits("PATCH", q.payload, q.from, q.typed)
      BY <2>3, <2>4 DEF CallOk
    <2>6. rows' = [rows EXCEPT ![q.id].fields = Updated(c)]
      BY <2>3, EditsUpdate
    <2>7. /\ q.id \in Ids /\ rows[q.id] \in RowsOf(scene.panel)
          /\ \A k \in Columns(scene.panel) :
                Updated(c)[k] = IF k \in DOMAIN q.payload THEN q.payload[k] ELSE rows[q.id].fields[k]
      BY <2>2, <2>3, UpdatedFits
    <2>8. PICK u : u = Updated(c)
      OBVIOUS
    <2>9. rows'[q.id].fields = u
      BY <2>2, <2>6, <2>7, <2>8 DEF Stored, RowsOf
    <2>10. f \in Columns(scene.panel)
      BY <2>3, <2>7 DEF RowsOf
    <2>11. f \in DOMAIN q.payload /\ q.payload[f] # rows[q.id].fields[f]
      BY <2>3, <2>7, <2>8, <2>9, <2>10
    <2>12. f \in q.typed \/ q.payload[f] = q.from.fields[f]
      BY <2>5, <2>11 DEF PayloadFits
    <2> QED
      BY <2>3, <2>11, <2>12
  <1>2. BrowserSpec => [][A]_formVars
    <2> HIDE DEF A
    <2> QED
      BY <1>1, FormsAreRight, PTL DEF BrowserSpec
  <1> QED
    BY <1>2 DEF EditChangesOnlyWhatWasTyped

\* The history written with an employee's update tells which of the tracked columns it
\* changed, unless somebody else's edit came in between.
THEOREM HistoryIsComplete == BrowserSpec => HistoryTellsEveryChange
  <1> DEFINE A == \A c \in Calls :
          call[c].state = "found" /\ call'[c].state = "ok"
          /\ rows[call[c].id] = call[c].existing =>
             call'[c].logged = {f \in TrackedFields :
                rows'[call[c].id].fields[f] # rows[call[c].id].fields[f]}
  <1>1. FormsInv /\ [BrowserNext]_browserVars => [A]_formVars
    <2>1. [BrowserNext]_browserVars => [FormsNext]_formVars
      BY Zenon DEF BrowserNext, browserVars
    <2> SUFFICES ASSUME FormsInv, FormsNext,
                        NEW c \in Calls, call[c].state = "found", call'[c].state = "ok",
                        rows[call[c].id] = call[c].existing
                 PROVE  call'[c].logged = {f \in TrackedFields :
                           rows'[call[c].id].fields[f] # rows[call[c].id].fields[f]}
      BY <2>1
    <2>2. Stored /\ CallsOk
      BY DEF FormsInv
    <2>3. PICK q : q = call[c]
      OBVIOUS
    <2>4. /\ q.verb = "PATCH" /\ rows' = [rows EXCEPT ![q.id].fields = Updated(c)]
          /\ scene.panel = "employee" /\ call'[c].logged = Changes(c)
      BY <2>3, EditsUpdate
    <2>5. /\ q.id \in Ids /\ rows[q.id] \in RowsOf(scene.panel)
          /\ \A k \in Columns(scene.panel) :
                Updated(c)[k] = IF k \in DOMAIN q.payload THEN q.payload[k] ELSE rows[q.id].fields[k]
      BY <2>2, <2>3, <2>4, UpdatedFits
    <2>6. PICK u : u = Updated(c)
      OBVIOUS
    <2>7. rows'[q.id].fields = u
      BY <2>2, <2>4, <2>5, <2>6 DEF Stored, RowsOf
    <2>8. TrackedFields \subseteq Columns(scene.panel)
      BY <2>4 DEF TrackedFields, Columns, EmployeeFields
    <2>9. Changes(c) = {f \in TrackedFields \cap DOMAIN q.payload : q.payload[f] # rows[q.id].fields[f]}
      BY <2>3 DEF Changes
    <2> QED
      BY <2>3, <2>4, <2>5, <2>6, <2>7, <2>8, <2>9
  <1>2. BrowserSpec => [][A]_formVars
    <2> HIDE DEF A
    <2> QED
      BY <1>1, FormsAreRight, PTL DEF BrowserSpec
  <1> QED
    BY <1>2, PTL DEF HistoryTellsEveryChange

\* A lost answer and what the user does then double nothing: of two requests with one
\* payload one is stored, unless an edit freed the key of the first, and a command that
\* is pressed again changes nothing more.
THEOREM LostAnswers == BrowserSpec => LostAnswersDoubleNothing
  <1>1. FormsInv => OneRowPerPayload
    BY DEF FormsInv, KeysOk
  <1>2. BrowserSpec => []OneRowPerPayload
    BY <1>1, FormsAreRight, PTL
  <1> QED
    BY <1>2, SecondPressChangesNothing DEF LostAnswersDoubleNothing

-----------------------------------------------------------------------------
(* The listings: what an address stands for, and what a page builds from it. *)

\* The dates of an address or of filters, where it has them.
DatesReal(f) == \A k \in {"when", "from", "to"} \cap DOMAIN f : f[k] \in Nat \ {0}

\* The filters of each page.
ShownFields(t) ==
    CASE listing.kind \in {"dashboard", "calendar"} -> {"when", "select", "search", "page"}
      [] listing.kind = "report"    -> {"from", "to", "select", "search", "page"}
      [] listing.kind = "issues"    ->
            IF t = "exceptions"
            THEN {"tab", "from", "to", "types", "dismissed", "select", "search", "page"}
            ELSE IF t = "corrections" THEN {"tab", "status"} ELSE {"tab"}
      [] listing.kind = "directory" -> {"select", "search", "page"}
      [] listing.kind = "workforce" -> {"when", "select"}

\* The filters that the address names, or the page's own where it does not.
UrlShows(url, f) ==
    /\ \A k \in {"select", "search"} \cap DOMAIN f : f[k] = Param(url, k, Blank)
    /\ "page" \in DOMAIN f => f.page = Param(url, "page", 1)
    /\ "types" \in DOMAIN f =>
          f.types = UNION Param(url, "types", {}) /\ f.dismissed = ("dismissed" \in DOMAIN url)
    /\ "tab" \in DOMAIN f => f.tab = ResolvedTab(url)
    /\ "status" \in DOMAIN f =>
          f.status = LET status == Param(url, "status", "PENDING")
                     IN  IF status \in Statuses THEN status ELSE "PENDING"

\* And its dates, as of today.
DatesShow(url, f) ==
    /\ "when" \in DOMAIN f =>
          f.when = LET day == Param(url, "when", now)
                   IN  IF listing.kind = "dashboard" /\ ~(day <= now) THEN now ELSE day
    /\ "from" \in DOMAIN f => f.from = Param(url, "from", FirstDate) /\ f.to = Param(url, "to", now)

\* f are the filters that an address stands for.
StandsFor(url, f) ==
    /\ f = [k \in ShownFields(ResolvedTab(url)) |-> f[k]]
    /\ UrlShows(url, f) /\ DatesShow(url, f)

\* What a page offers beside its rows: the bar, the links and the dates they lead to.
Offering(url, p) ==
    LET f == p.shown
        quiet == p.refused = FALSE /\ p.dates = {}
    IN  CASE listing.kind = "dashboard" ->
               /\ p.refused = FALSE /\ p.bar = DashboardBar(f)
               /\ p.pages = Given(f, {"when", "select", "search"}) /\ p.others = Given(f, {"select", "search"})
               /\ \A d \in p.dates : d \in Int /\ d <= now
          [] listing.kind = "calendar" ->
               /\ p.refused = FALSE /\ p.bar = CalendarBar(f)
               /\ p.pages = Given(f, {"when", "select", "search"}) /\ p.others = Given(f, {"select", "search"})
          [] listing.kind = "report" ->
               /\ p.refused = RangeRefused(f) /\ p.dates = {} /\ p.bar = ReportBar(f)
               /\ p.pages = Given(f, {"from", "to", "select", "search"})
          [] listing.kind = "issues" ->
               IF f.tab = "exceptions"
               THEN /\ p.refused = (Unreadable(Param(url, "types", {})) \/ RangeRefused(f)) /\ p.dates = {}
                    /\ p.bar = ExceptionBar(f, p.refused)
                    /\ p.pages = Over(Over([tab |-> f.tab], Given(f, {"from", "to", "select", "search"})),
                                      Over(Joined(f.types), Dismissed(f)))
               ELSE quiet /\ p.bar = NoBar
          [] listing.kind = "directory" ->
               quiet /\ p.bar = DirectoryBar(f) /\ p.pages = Given(f, {"select", "search"})
          [] listing.kind = "workforce" ->
               p.refused = FALSE /\ p.bar = EmployeeSelect(f) /\ p.others = Given(f, {"select"})

SheetFields == {"url", "page", "by", "form", "typed", "total", "listed", "exported"}

\* What is in a form.
FormOk(form) ==
    /\ \A k \in {"from", "to"} \cap DOMAIN form : form[k] \in Nat
    /\ "dismissed" \in DOMAIN form => form.dismissed \in BOOLEAN

\* The rows on a page of some.
OnPage(total, page) == {n \in 1 .. total : n > (page - 1) * PageSize /\ n <= page * PageSize}

\* A page shows the filters that its address stands for, but for the dates, which may be
\* of a day before, and they are those that the control used last promises.
SheetOk ==
    LET f == sheet.page.shown
    IN  /\ listing.kind # "none" /\ DOMAIN sheet = SheetFields
        /\ f = [k \in ShownFields(ResolvedTab(sheet.url)) |-> f[k]]
        /\ DatesReal(sheet.url) /\ DatesReal(f) /\ UrlShows(sheet.url, f)
        /\ listing.kind = "dashboard" => f.when <= now
        /\ Offering(sheet.url, sheet.page)
        /\ Effective(f) = asked /\ sheet.by # "link"
        /\ DOMAIN sheet.form = DOMAIN sheet.page.bar.form /\ FormOk(sheet.form)
        /\ Paged(f) => sheet.listed = Cardinality(OnPage(sheet.total, f.page))
        /\ sheet.exported # None => sheet.exported = [f EXCEPT !.page = 1]

Listening == (\E i \in DOMAIN Listings : listing = Listings[i]) /\ now \in {listing.day, listing.day + 1}

ListingInv == Listening /\ (Loaded => SheetOk)

\* A parameter of an address that is put together of two.
LEMMA ParamOver ==
    ASSUME NEW a, NEW b, NEW k, NEW otherwise
    PROVE  Param(Over(a, b), k, otherwise) = IF k \in DOMAIN a THEN a[k] ELSE Param(b, k, otherwise)
  BY DEF Param, Over

\* And of one that is made of a form's fields that are not blank.
LEMMA ParamGiven ==
    ASSUME NEW form, NEW keys, NEW k, NEW otherwise
    PROVE  Param(Given(form, keys), k, otherwise) = IF k \in keys /\ form[k] # Blank THEN form[k] ELSE otherwise
  BY DEF Param, Given

\* An address without parameters names none.
LEMMA ParamNone ==
    ASSUME NEW k, NEW otherwise
    PROVE  Param(<<>>, k, otherwise) = otherwise
  <1>1. DOMAIN <<>> = {}
    OBVIOUS
  <1> QED
    BY <1>1 DEF Param

\* Types as they are put in an address are those types again, and it can be read.
LEMMA TypesAgain ==
    ASSUME NEW types
    PROVE  /\ UNION Param(Joined(types), "types", {}) = types
           /\ ~Unreadable(Param(Joined(types), "types", {}))
           /\ UNION Param(Repeated(types), "types", {}) = types
  <1>1. CASE types = {}
    <2>1. Joined(types) = <<>> /\ Repeated(types) = <<>>
      BY <1>1 DEF Joined, Repeated
    <2>2. Param(<<>>, "types", {}) = {}
      BY ParamNone
    <2>3. ~Unreadable({})
      BY DEF Unreadable
    <2> QED
      BY <1>1, <2>1, <2>2, <2>3
  <1>2. CASE types # {}
    <2>1. Joined(types) = [types |-> {types}] /\ Repeated(types) = [types |-> {{t} : t \in types}]
      BY <1>2 DEF Joined, Repeated
    <2>2. Param([types |-> {types}], "types", {}) = {types}
      BY DEF Param
    <2>3. Param([types |-> {{t} : t \in types}], "types", {}) = {{t} : t \in types}
      BY DEF Param
    <2>4. Cardinality({types}) = 1
      BY FS_Singleton
    <2>5. ~Unreadable({types})
      BY <2>4 DEF Unreadable
    <2>6. UNION {types} = types /\ UNION {{t} : t \in types} = types
      OBVIOUS
    <2> QED
      BY <2>1, <2>2, <2>3, <2>5, <2>6
  <1> QED
    BY <1>1, <1>2

\* A function is what it has at its arguments.
LEMMA SameFunction ==
    ASSUME NEW S, NEW f, f = [k \in S |-> f[k]], NEW g, g = [k \in S |-> g[k]], \A k \in S : f[k] = g[k]
    PROVE  f = g
  <1>1. [k \in S |-> f[k]] = [k \in S |-> g[k]]
    OBVIOUS
  <1> QED
    BY <1>1

\* Today is a day of the second week or later; the month began before or today.
LEMMA Days ==
    ASSUME Listening
    PROVE  /\ now \in Nat /\ now > 6 /\ listing.day \in Nat
           /\ FirstDayOfMonth(now) \in Nat \ {0} /\ FirstDate \in Nat \ {0}
           /\ FirstDayOfMonth(now) <= now
  <1>1. now \in Nat /\ now > 6 /\ listing.day \in Nat
    BY ListingsAssumption DEF Listening
  <1>2. MonthDays \in Nat \ {0}
    BY ListingsAssumption
  <1>3. ASSUME NEW n \in Nat, NEW m \in Nat \ {0} PROVE n % m \in Nat /\ n % m <= n
    BY Z3
  <1>4. (now - 1) % MonthDays \in Nat /\ (now - 1) % MonthDays <= now - 1
    BY <1>1, <1>2, <1>3
  <1>5. FirstDayOfMonth(now) \in Nat \ {0} /\ FirstDayOfMonth(now) <= now
    BY <1>1, <1>4 DEF FirstDayOfMonth
  <1> QED
    BY <1>1, <1>5 DEF FirstDate

\* The tab that is shown is one that the role has; a tab that is named is shown if so.
LEMMA TabIsAvailable ==
    ASSUME Listening, listing.kind = "issues"
    PROVE  /\ \A url : ResolvedTab(url) \in {"all", "exceptions", "corrections"}
           /\ \A i \in DOMAIN AvailableTabs(listing.access) : \A url :
                 Param(url, "tab", "none") = AvailableTabs(listing.access)[i]
                    => ResolvedTab(url) = AvailableTabs(listing.access)[i]
           /\ \A i \in DOMAIN AvailableTabs(listing.access) :
                 AvailableTabs(listing.access)[i] \in {"all", "exceptions", "corrections"}
           /\ \A url : \E i \in DOMAIN AvailableTabs(listing.access) :
                 AvailableTabs(listing.access)[i] = ResolvedTab(url)
  <1> DEFINE tabs == AvailableTabs(listing.access)
  <1>1. listing.access \subseteq {"exceptions", "corrections"} /\ listing.access # {}
    BY ListingsAssumption DEF Listening
  <1>2. listing.access = {"exceptions", "corrections"} \/ listing.access = {"exceptions"}
        \/ listing.access = {"corrections"}
    BY <1>1
  <1>3. /\ DOMAIN tabs # {} /\ 1 \in DOMAIN tabs
        /\ \A i \in DOMAIN tabs : tabs[i] \in {"all", "exceptions", "corrections"}
    <2>1. CASE listing.access = {"exceptions", "corrections"}
      <3>1. tabs = <<"all", "exceptions", "corrections">>
        BY <2>1 DEF AvailableTabs
      <3> QED
        BY <3>1
    <2>2. CASE listing.access = {"exceptions"}
      <3>1. tabs = <<"exceptions">>
        BY <2>2 DEF AvailableTabs
      <3> QED
        BY <3>1
    <2>3. CASE listing.access = {"corrections"}
      <3>1. tabs = <<"corrections">>
        BY <2>3 DEF AvailableTabs
      <3> QED
        BY <3>1
    <2> QED
      BY <1>2, <2>1, <2>2, <2>3
  <1> HIDE DEF tabs
  <1>4. ASSUME NEW url
        PROVE  /\ \E i \in DOMAIN tabs : tabs[i] = ResolvedTab(url)
               /\ \A i \in DOMAIN tabs : Param(url, "tab", "none") = tabs[i] => ResolvedTab(url) = tabs[i]
    <2>1. ResolvedTab(url) = IF \E i \in DOMAIN tabs : tabs[i] = Param(url, "tab", "none")
                             THEN Param(url, "tab", "none") ELSE tabs[1]
      BY Zenon DEF ResolvedTab, tabs
    <2> QED
      BY <1>3, <2>1
  <1>5. \A url : ResolvedTab(url) \in {"all", "exceptions", "corrections"}
    BY <1>3, <1>4
  <1> QED
    BY <1>3, <1>4, <1>5 DEF tabs

\* What a filter bar narrows a page to.
LEMMA NarrowedIs ==
    ASSUME NEW url
    PROVE  /\ Narrowed(url) = [k \in {"select", "search", "page"} |-> Narrowed(url)[k]]
           /\ Narrowed(url).select = Param(url, "select", Blank)
           /\ Narrowed(url).search = Param(url, "search", Blank)
           /\ Narrowed(url).page = Param(url, "page", 1)
  BY DEF Narrowed

\* A page with filters that narrow it: what each of them is.
LEMMA WithNarrowed ==
    ASSUME NEW url, NEW own, NEW S, DOMAIN own = S, S \cap {"select", "search", "page"} = {}
    PROVE  /\ Over(own, Narrowed(url)) = [k \in S \cup {"select", "search", "page"} |-> Over(own, Narrowed(url))[k]]
           /\ \A k \in S : Over(own, Narrowed(url))[k] = own[k]
           /\ Over(own, Narrowed(url)).select = Param(url, "select", Blank)
           /\ Over(own, Narrowed(url)).search = Param(url, "search", Blank)
           /\ Over(own, Narrowed(url)).page = Param(url, "page", 1)
  <1>1. DOMAIN Narrowed(url) = {"select", "search", "page"}
    BY NarrowedIs
  <1>2. \A k \in {"select", "search", "page"} : k \notin S
    OBVIOUS
  <1>3. /\ Over(own, Narrowed(url)) = [k \in S \cup {"select", "search", "page"} |-> Over(own, Narrowed(url))[k]]
        /\ \A k \in S : Over(own, Narrowed(url))[k] = own[k]
        /\ \A k \in {"select", "search", "page"} : Over(own, Narrowed(url))[k] = Narrowed(url)[k]
    BY <1>1, <1>2 DEF Over
  <1> QED
    BY <1>3, NarrowedIs

\* What it means that a page shows what its address stands for.
Showable(url, p) ==
    /\ StandsFor(url, p.shown) /\ DatesReal(p.shown) /\ Offering(url, p)
    /\ listing.kind = "dashboard" => p.shown.when <= now

\* The dashboard: a day that is to come gives way to today.
LEMMA DashboardShows ==
    ASSUME Listening, listing.kind = "dashboard", NEW url, DatesReal(url)
    PROVE  Showable(url, PageOf(url))
  <1> DEFINE day == Param(url, "when", now)
             f == Over([when |-> IF day <= now THEN day ELSE now], Narrowed(url))
             p == DashboardPage(url)
  <1>1. now \in Nat /\ now > 6
    BY Days
  <1>2. PageOf(url) = p
    BY DEF PageOf
  <1>3. day \in Nat \ {0}
    BY <1>1 DEF DatesReal, Param
  <1>4. DOMAIN [when |-> IF day <= now THEN day ELSE now] = {"when"}
    OBVIOUS
  <1>5. /\ f = [k \in {"when"} \cup {"select", "search", "page"} |-> f[k]]
        /\ \A k \in {"when"} : f[k] = [when |-> IF day <= now THEN day ELSE now][k]
        /\ f.select = Param(url, "select", Blank) /\ f.search = Param(url, "search", Blank)
        /\ f.page = Param(url, "page", 1)
    <2> HIDE DEF day
    <2> QED
      BY <1>4, WithNarrowed
  <1>6. f.when = IF day <= now THEN day ELSE now
    BY <1>5
  <1>7. f.when \in Nat \ {0} /\ f.when <= now
    BY <1>1, <1>3, <1>6
  <1>8. /\ p.shown = f /\ p.refused = FALSE /\ p.bar = DashboardBar(f)
        /\ p.pages = Given(f, {"when", "select", "search"})
        /\ p.others = Given(f, {"select", "search"}) /\ p.dates = DayLinks(f.when)
    <2>1. p = [PageWith(f, DashboardBar(f), Given(f, {"when", "select", "search"}))
                  EXCEPT !.others = Given(f, {"select", "search"}), !.dates = DayLinks(f.when)]
      BY DEF DashboardPage
    <2> HIDE DEF p, f
    <2> QED
      BY ONLY <2>1 DEF PageWith
  <1> HIDE DEF p, f
  <1>9. \A d \in DayLinks(f.when) : d \in Int /\ d <= now
    BY <1>1, <1>7 DEF DayLinks, Only
  <1>10. Offering(url, p)
    BY <1>8, <1>9 DEF Offering
  <1>11. DOMAIN f = {"when", "select", "search", "page"}
    BY <1>5
  <1>12. UrlShows(url, f)
    BY <1>5, <1>11 DEF UrlShows
  <1>13. DatesShow(url, f)
    BY <1>6, <1>11 DEF DatesShow, day
  <1>14. f = [k \in ShownFields(ResolvedTab(url)) |-> f[k]]
    <2>1. ShownFields(ResolvedTab(url)) = {"when"} \cup {"select", "search", "page"}
      BY DEF ShownFields
    <2> QED
      BY <1>5, <2>1
  <1>15. DatesReal(f)
    BY <1>7, <1>11 DEF DatesReal
  <1> QED
    BY <1>2, <1>7, <1>8, <1>10, <1>12, <1>13, <1>14, <1>15 DEF Showable, StandsFor

\* The calendar of a month.
LEMMA CalendarShows ==
    ASSUME Listening, listing.kind = "calendar", NEW url, DatesReal(url)
    PROVE  Showable(url, PageOf(url))
  <1> DEFINE f == Over([when |-> Param(url, "when", now)], Narrowed(url))
             p == CalendarPage(url)
  <1>1. now \in Nat /\ now > 6
    BY Days
  <1>2. PageOf(url) = p
    BY DEF PageOf
  <1>3. Param(url, "when", now) \in Nat \ {0}
    BY <1>1 DEF DatesReal, Param
  <1>4. DOMAIN [when |-> Param(url, "when", now)] = {"when"}
    OBVIOUS
  <1>5. /\ f = [k \in {"when"} \cup {"select", "search", "page"} |-> f[k]]
        /\ \A k \in {"when"} : f[k] = [when |-> Param(url, "when", now)][k]
        /\ f.select = Param(url, "select", Blank) /\ f.search = Param(url, "search", Blank)
        /\ f.page = Param(url, "page", 1)
    BY <1>4, WithNarrowed
  <1>6. f.when = Param(url, "when", now)
    BY <1>5
  <1>8. /\ p.shown = f /\ p.refused = FALSE /\ p.bar = CalendarBar(f)
        /\ p.pages = Given(f, {"when", "select", "search"})
        /\ p.others = Given(f, {"select", "search"})
    <2>1. p = [PageWith(f, CalendarBar(f), Given(f, {"when", "select", "search"}))
                  EXCEPT !.others = Given(f, {"select", "search"}), !.dates = MonthLinks(f.when)]
      BY DEF CalendarPage
    <2> HIDE DEF p, f
    <2> QED
      BY ONLY <2>1 DEF PageWith
  <1> HIDE DEF p, f
  <1>10. Offering(url, p)
    BY <1>8 DEF Offering
  <1>11. DOMAIN f = {"when", "select", "search", "page"}
    BY <1>5
  <1>12. UrlShows(url, f)
    BY <1>5, <1>11 DEF UrlShows
  <1>13. DatesShow(url, f)
    BY <1>6, <1>11 DEF DatesShow
  <1>14. f = [k \in ShownFields(ResolvedTab(url)) |-> f[k]]
    <2>1. ShownFields(ResolvedTab(url)) = {"when"} \cup {"select", "search", "page"}
      BY DEF ShownFields
    <2> QED
      BY <1>5, <2>1
  <1>15. DatesReal(f)
    BY <1>3, <1>6, <1>11 DEF DatesReal
  <1> QED
    BY <1>2, <1>8, <1>10, <1>12, <1>13, <1>14, <1>15 DEF Showable, StandsFor

\* The report of a span of days, which may be refused.
LEMMA ReportShows ==
    ASSUME Listening, listing.kind = "report", NEW url, DatesReal(url)
    PROVE  Showable(url, PageOf(url))
  <1> DEFINE own == [from |-> Param(url, "from", FirstDayOfMonth(now)), to |-> Param(url, "to", now)]
             f == Over(own, Narrowed(url))
             p == ReportPage(url)
  <1>1. now \in Nat /\ now > 6 /\ FirstDayOfMonth(now) \in Nat \ {0}
    BY Days
  <1>2. PageOf(url) = p
    BY DEF PageOf
  <1>3. own.from \in Nat \ {0} /\ own.to \in Nat \ {0}
    BY <1>1 DEF DatesReal, Param
  <1>4. DOMAIN own = {"from", "to"} /\ own.from = Param(url, "from", FirstDate) /\ own.to = Param(url, "to", now)
    BY DEF FirstDate
  <1>5. /\ f = [k \in {"from", "to"} \cup {"select", "search", "page"} |-> f[k]]
        /\ \A k \in {"from", "to"} : f[k] = own[k]
        /\ f.select = Param(url, "select", Blank) /\ f.search = Param(url, "search", Blank)
        /\ f.page = Param(url, "page", 1)
    <2> HIDE DEF own
    <2> QED
      BY <1>4, WithNarrowed
  <1>8. /\ p.shown = f /\ p.refused = RangeRefused(f) /\ p.bar = ReportBar(f) /\ p.dates = {}
        /\ p.pages = Given(f, {"from", "to", "select", "search"})
    <2>1. p = [PageWith(f, ReportBar(f), Given(f, {"from", "to", "select", "search"}))
                  EXCEPT !.refused = RangeRefused(f)]
      BY DEF ReportPage
    <2> HIDE DEF p, f
    <2> QED
      BY ONLY <2>1 DEF PageWith
  <1> HIDE DEF p, f, own
  <1>10. Offering(url, p)
    BY <1>8 DEF Offering
  <1>11. DOMAIN f = {"from", "to", "select", "search", "page"}
    BY <1>5
  <1>12. UrlShows(url, f)
    BY <1>5, <1>11 DEF UrlShows
  <1>13. DatesShow(url, f)
    BY <1>4, <1>5, <1>11 DEF DatesShow
  <1>14. f = [k \in ShownFields(ResolvedTab(url)) |-> f[k]]
    <2>1. ShownFields(ResolvedTab(url)) = {"from", "to"} \cup {"select", "search", "page"}
      BY DEF ShownFields
    <2> QED
      BY <1>5, <2>1
  <1>15. DatesReal(f)
    BY <1>3, <1>5, <1>11 DEF DatesReal
  <1> QED
    BY <1>2, <1>8, <1>10, <1>12, <1>13, <1>14, <1>15 DEF Showable, StandsFor

\* The directory has no dates.
LEMMA DirectoryShows ==
    ASSUME Listening, listing.kind = "directory", NEW url, DatesReal(url)
    PROVE  Showable(url, PageOf(url))
  <1> DEFINE f == Narrowed(url)
             p == DirectoryPage(url)
  <1>2. PageOf(url) = p
    BY DEF PageOf
  <1>5. /\ f = [k \in {"select", "search", "page"} |-> f[k]]
        /\ f.select = Param(url, "select", Blank) /\ f.search = Param(url, "search", Blank)
        /\ f.page = Param(url, "page", 1)
    BY NarrowedIs
  <1>8. /\ p.shown = f /\ p.refused = FALSE /\ p.bar = DirectoryBar(f) /\ p.dates = {}
        /\ p.pages = Given(f, {"select", "search"})
    <2>1. p = PageWith(f, DirectoryBar(f), Given(f, {"select", "search"}))
      BY DEF DirectoryPage
    <2> HIDE DEF p, f
    <2> QED
      BY ONLY <2>1 DEF PageWith
  <1> HIDE DEF p, f
  <1>10. Offering(url, p)
    BY <1>8 DEF Offering
  <1>11. DOMAIN f = {"select", "search", "page"}
    BY <1>5
  <1>12. UrlShows(url, f) /\ DatesShow(url, f) /\ DatesReal(f)
    BY <1>5, <1>11 DEF UrlShows, DatesShow, DatesReal
  <1>14. f = [k \in ShownFields(ResolvedTab(url)) |-> f[k]]
    <2>1. ShownFields(ResolvedTab(url)) = {"select", "search", "page"}
      BY DEF ShownFields
    <2> QED
      BY <1>5, <2>1
  <1> QED
    BY <1>2, <1>8, <1>10, <1>12, <1>14 DEF Showable, StandsFor

\* The workforce calendar: a month and an employee.
LEMMA WorkforceShows ==
    ASSUME Listening, listing.kind = "workforce", NEW url, DatesReal(url)
    PROVE  Showable(url, PageOf(url))
  <1> DEFINE f == [when |-> Param(url, "when", now), select |-> Param(url, "select", Blank)]
             p == WorkforcePage(url)
  <1>1. now \in Nat /\ now > 6
    BY Days
  <1>2. PageOf(url) = p
    BY DEF PageOf
  <1>3. Param(url, "when", now) \in Nat \ {0}
    BY <1>1 DEF DatesReal, Param
  <1>5. /\ f = [k \in {"when", "select"} |-> f[k]] /\ DOMAIN f = {"when", "select"}
        /\ f.when = Param(url, "when", now) /\ f.select = Param(url, "select", Blank)
    OBVIOUS
  <1>8. /\ p.shown = f /\ p.refused = FALSE /\ p.bar = EmployeeSelect(f)
        /\ p.others = Given(f, {"select"})
    <2>1. p = [PageWith(f, EmployeeSelect(f), <<>>)
                  EXCEPT !.others = Given(f, {"select"}), !.dates = WorkforceLinks(f.when)]
      BY DEF WorkforcePage
    <2> HIDE DEF p, f
    <2> QED
      BY ONLY <2>1 DEF PageWith
  <1> HIDE DEF p, f
  <1>10. Offering(url, p)
    BY <1>8 DEF Offering
  <1>12. UrlShows(url, f) /\ DatesShow(url, f) /\ DatesReal(f)
    BY <1>3, <1>5 DEF UrlShows, DatesShow, DatesReal
  <1>14. f = [k \in ShownFields(ResolvedTab(url)) |-> f[k]]
    <2>1. ShownFields(ResolvedTab(url)) = {"when", "select"}
      BY DEF ShownFields
    <2> QED
      BY <1>5, <2>1
  <1> QED
    BY <1>2, <1>8, <1>10, <1>12, <1>14 DEF Showable, StandsFor

\* The issues, by the tab that is resolved; only the exceptions may be refused.
LEMMA IssuesShow ==
    ASSUME Listening, listing.kind = "issues", NEW url, DatesReal(url)
    PROVE  Showable(url, PageOf(url))
  <1>1. now \in Nat /\ now > 6
    BY Days
  <1>2. PageOf(url) = IssuesPage(url)
    BY DEF PageOf
  <1>3. ResolvedTab(url) \in {"all", "exceptions", "corrections"}
    BY TabIsAvailable
  <1>4. CASE ResolvedTab(url) = "exceptions"
    <2> DEFINE strings == Param(url, "types", {})
               own == [tab |-> "exceptions", from |-> Param(url, "from", now - 6), to |-> Param(url, "to", now),
                       types |-> UNION strings, dismissed |-> "dismissed" \in DOMAIN url]
               f == Over(own, Narrowed(url))
               refused == Unreadable(strings) \/ RangeRefused(f)
               given == Given(f, {"from", "to", "select", "search"})
               kept == Over(Over([tab |-> f.tab], given), Over(Joined(f.types), Dismissed(f)))
               p == ExceptionsTab(url)
    <2>1. PageOf(url) = p
      BY <1>2, <1>4 DEF IssuesPage
    <2>2. own.from \in Nat \ {0} /\ own.to \in Nat \ {0}
      BY <1>1 DEF DatesReal, Param
    <2>3. /\ DOMAIN own = {"tab", "from", "to", "types", "dismissed"}
          /\ own.tab = "exceptions" /\ own.types = UNION Param(url, "types", {})
          /\ own.dismissed = ("dismissed" \in DOMAIN url)
          /\ own.from = Param(url, "from", FirstDate) /\ own.to = Param(url, "to", now)
      BY DEF FirstDate
    <2>4. /\ f = [k \in {"tab", "from", "to", "types", "dismissed"} \cup {"select", "search", "page"} |-> f[k]]
          /\ \A k \in {"tab", "from", "to", "types", "dismissed"} : f[k] = own[k]
          /\ f.select = Param(url, "select", Blank) /\ f.search = Param(url, "search", Blank)
          /\ f.page = Param(url, "page", 1)
      <3>1. DOMAIN own = {"tab", "from", "to", "types", "dismissed"}
        BY <2>3
      <3>2. {"tab", "from", "to", "types", "dismissed"} \cap {"select", "search", "page"} = {}
        OBVIOUS
      <3> HIDE DEF own
      <3> QED
        BY ONLY <3>1, <3>2, WithNarrowed
    <2>5. /\ p.shown = f /\ p.refused = refused /\ p.bar = ExceptionBar(f, refused) /\ p.dates = {}
          /\ p.pages = kept
      <3>1. p = [PageWith(f, ExceptionBar(f, refused), kept) EXCEPT !.refused = refused]
        BY Zenon DEF ExceptionsTab
      <3> HIDE DEF p, f, kept, refused
      <3> QED
        BY ONLY <3>1 DEF PageWith
    <2> HIDE DEF p, f, own
    <2>6. f.tab = "exceptions" /\ DOMAIN f = {"tab", "from", "to", "types", "dismissed", "select", "search", "page"}
      BY <2>3, <2>4
    <2>7. Offering(url, p)
      <3>1. p.bar = ExceptionBar(f, p.refused)
        BY <2>5
      <3>2. Offering(url, p) = (/\ p.refused = (Unreadable(strings) \/ RangeRefused(f)) /\ p.dates = {}
                                /\ p.bar = ExceptionBar(f, p.refused) /\ p.pages = kept)
        <4> HIDE DEF strings
        <4> QED
          BY <2>5, <2>6 DEF Offering, strings
      <3> QED
        BY <2>5, <3>1, <3>2
    <2>8. UrlShows(url, f)
      BY <1>4, <2>3, <2>4, <2>6 DEF UrlShows
    <2>9. DatesShow(url, f) /\ DatesReal(f)
      BY <2>2, <2>3, <2>4, <2>6 DEF DatesShow, DatesReal
    <2>10. f = [k \in ShownFields(ResolvedTab(url)) |-> f[k]]
      <3>1. ShownFields(ResolvedTab(url))
                = {"tab", "from", "to", "types", "dismissed"} \cup {"select", "search", "page"}
        BY <1>4 DEF ShownFields
      <3> QED
        BY <2>4, <3>1
    <2> QED
      BY <2>1, <2>5, <2>7, <2>8, <2>9, <2>10 DEF Showable, StandsFor
  <1>5. CASE ResolvedTab(url) = "corrections"
    <2> DEFINE status == Param(url, "status", "PENDING")
               f == [tab |-> "corrections", status |-> IF status \in Statuses THEN status ELSE "PENDING"]
               p == CorrectionsTab(url)
    <2>1. PageOf(url) = p
      BY <1>2, <1>5 DEF IssuesPage
    <2>2. p.shown = f /\ p.refused = FALSE /\ p.bar = NoBar /\ p.dates = {}
      <3>1. p = PageWith(f, NoBar, <<>>)
        BY Zenon DEF CorrectionsTab
      <3> HIDE DEF p, f
      <3> QED
        BY ONLY <3>1 DEF PageWith
    <2>3. /\ f.tab = "corrections" /\ DOMAIN f = {"tab", "status"} /\ f = [k \in {"tab", "status"} |-> f[k]]
          /\ f.status = IF status \in Statuses THEN status ELSE "PENDING"
      OBVIOUS
    <2> HIDE DEF p, f
    <2>4. Offering(url, p)
      BY <2>2, <2>3 DEF Offering
    <2>5. UrlShows(url, f) /\ DatesShow(url, f) /\ DatesReal(f)
      BY <1>5, <2>3 DEF UrlShows, DatesShow, DatesReal
    <2>6. f = [k \in ShownFields(ResolvedTab(url)) |-> f[k]]
      <3>1. ShownFields(ResolvedTab(url)) = {"tab", "status"}
        BY <1>5 DEF ShownFields
      <3> QED
        BY <2>3, <3>1
    <2> QED
      BY <2>1, <2>2, <2>4, <2>5, <2>6 DEF Showable, StandsFor
  <1>6. CASE ResolvedTab(url) = "all"
    <2> DEFINE f == [tab |-> "all"]
               p == PageWith(f, NoBar, <<>>)
    <2>1. PageOf(url) = p
      BY <1>2, <1>6 DEF IssuesPage
    <2>2. p.shown = f /\ p.refused = FALSE /\ p.bar = NoBar /\ p.dates = {}
      BY DEF PageWith
    <2>3. f.tab = "all" /\ DOMAIN f = {"tab"} /\ f = [k \in {"tab"} |-> f[k]]
      OBVIOUS
    <2> HIDE DEF p, f
    <2>4. Offering(url, p)
      BY <2>2, <2>3 DEF Offering
    <2>5. UrlShows(url, f) /\ DatesShow(url, f) /\ DatesReal(f)
      BY <1>6, <2>3 DEF UrlShows, DatesShow, DatesReal
    <2>6. f = [k \in ShownFields(ResolvedTab(url)) |-> f[k]]
      <3>1. ShownFields(ResolvedTab(url)) = {"tab"}
        BY <1>6 DEF ShownFields
      <3> QED
        BY <2>3, <3>1
    <2> QED
      BY <2>1, <2>2, <2>4, <2>5, <2>6 DEF Showable, StandsFor
  <1> QED
    BY <1>3, <1>4, <1>5, <1>6

\* A page shows the filters that its address stands for, and offers what goes with them.
LEMMA PageShows ==
    ASSUME Listening, listing.kind # "none", NEW url, DatesReal(url)
    PROVE  Showable(url, PageOf(url))
  <1>1. listing.kind \in {"none", "dashboard", "calendar", "report", "issues", "directory", "workforce"}
    BY ListingsAssumption DEF Listening
  <1> QED
    BY <1>1, DashboardShows, CalendarShows, ReportShows, IssuesShow, DirectoryShows, WorkforceShows

\* An address stands for one set of filters.
LEMMA OneMeaning ==
    ASSUME Listening, listing.kind # "none", NEW url, NEW f, NEW g, StandsFor(url, f), StandsFor(url, g)
    PROVE  f = g
  <1> DEFINE S == ShownFields(ResolvedTab(url))
  <1>1. f = [k \in S |-> f[k]] /\ g = [k \in S |-> g[k]]
    BY DEF StandsFor
  <1>2. DOMAIN f = S /\ DOMAIN g = S
    BY <1>1
  <1>3. S \subseteq {"tab", "when", "from", "to", "types", "dismissed", "status", "select", "search", "page"}
    BY ListingsAssumption DEF Listening, ShownFields
  <1>4. ("from" \in S <=> "to" \in S) /\ ("types" \in S <=> "dismissed" \in S)
    BY ListingsAssumption DEF Listening, ShownFields
  <1> HIDE DEF S
  <1>5. \A k \in {"select", "search", "page", "types", "dismissed", "tab", "status"} \cap S : f[k] = g[k]
    BY <1>2, <1>4 DEF StandsFor, UrlShows
  <1>6. \A k \in {"when", "from", "to"} \cap S : f[k] = g[k]
    BY <1>2, <1>4 DEF StandsFor, DatesShow
  <1>7. \A k \in S : f[k] = g[k]
    BY <1>3, <1>5, <1>6
  <1> QED
    BY <1>1, <1>7, SameFunction

\* What the bar of a page has in its form.
LEMMA BarIsOk ==
    ASSUME Listening, listing.kind # "none", NEW url, NEW p, Showable(url, p)
    PROVE  FormOk(p.bar.form)
  <1> DEFINE f == p.shown
             S == ShownFields(ResolvedTab(url))
  <1>1. /\ DOMAIN f = S /\ UrlShows(url, f) /\ DatesReal(f) /\ Offering(url, p)
    BY DEF Showable, StandsFor
  <1>2. CASE listing.kind \in {"dashboard", "calendar"}
    <2>1. p.bar = DashboardBar(f)
      <3>1. CASE listing.kind = "dashboard"
        BY <1>1, <3>1 DEF Offering
      <3>2. CASE listing.kind = "calendar"
        BY <1>1, <3>2 DEF Offering, CalendarBar
      <3> QED
        BY <1>2, <3>1, <3>2
    <2>2. p.bar.form = [select |-> f.select, search |-> f.search]
      BY <2>1 DEF DashboardBar
    <2> QED
      BY <2>2 DEF FormOk
  <1>3. CASE listing.kind = "report"
    <2>1. p.bar.form = [from |-> f.from, to |-> f.to, select |-> f.select, search |-> f.search]
      BY <1>1, <1>3 DEF Offering, ReportBar
    <2>2. f.from \in Nat /\ f.to \in Nat
      BY <1>1, <1>3 DEF DatesReal, ShownFields
    <2> QED
      BY <2>1, <2>2 DEF FormOk
  <1>4. CASE listing.kind = "issues" /\ f.tab = "exceptions"
    <2>1. f.tab = ResolvedTab(url)
      <3>1. "tab" \in S
        BY <1>4 DEF ShownFields
      <3> QED
        BY <1>1, <3>1 DEF UrlShows
    <2>2. S = {"tab", "from", "to", "types", "dismissed", "select", "search", "page"}
      BY <1>4, <2>1 DEF ShownFields
    <2>3. p.bar = ExceptionBar(f, p.refused)
      BY <1>1, <1>4 DEF Offering
    <2>4. f.from \in Nat /\ f.to \in Nat
      BY <1>1, <2>2 DEF DatesReal
    <2>5. /\ DOMAIN p.bar.form = {"from", "to", "select", "search", "types", "dismissed"}
          /\ p.bar.form.from = f.from /\ p.bar.form.to = f.to
      BY <2>3 DEF ExceptionBar
    <2>6. p.bar.form.dismissed = (f.dismissed /\ ~p.refused)
      <3>1. ExceptionBar(f, p.refused).form.dismissed = (f.dismissed /\ ~p.refused)
        BY DEF ExceptionBar
      <3> QED
        BY ONLY <2>3, <3>1, Zenon
    <2>7. p.bar.form.dismissed \in BOOLEAN
      BY ONLY <2>6, Zenon
    <2> QED
      BY <2>4, <2>5, <2>7 DEF FormOk
  <1>5. CASE listing.kind = "issues" /\ f.tab # "exceptions"
    <2>1. DOMAIN p.bar.form = {}
      BY <1>1, <1>5 DEF Offering, NoBar
    <2> QED
      BY <2>1 DEF FormOk
  <1>6. CASE listing.kind = "directory"
    <2>1. p.bar.form = [select |-> f.select, search |-> f.search]
      BY <1>1, <1>6 DEF Offering, DirectoryBar
    <2> QED
      BY <2>1 DEF FormOk
  <1>7. CASE listing.kind = "workforce"
    <2>1. p.bar.form = [select |-> f.select]
      BY <1>1, <1>7 DEF Offering, EmployeeSelect
    <2> QED
      BY <2>1 DEF FormOk
  <1> QED
    BY <1>2, <1>3, <1>4, <1>5, <1>6, <1>7, ListingsAssumption DEF Listening

\* What a page shows and offers is of the listing that is played, and of today.
LEMMA OfTheSameDay ==
    ASSUME NEW url, NEW p, UNCHANGED <<listing, now>>
    PROVE  /\ ShownFields(ResolvedTab(url))' = ShownFields(ResolvedTab(url))
           /\ UrlShows(url, p.shown) => UrlShows(url, p.shown)'
           /\ Offering(url, p) => Offering(url, p)'
  <1>1. listing' = listing /\ now' = now
    OBVIOUS
  <1>2. ResolvedTab(url)' = ResolvedTab(url)
    BY ONLY <1>1, Zenon DEF ResolvedTab
  <1>3. ShownFields(ResolvedTab(url))' = ShownFields(ResolvedTab(url))
    BY ONLY <1>1, <1>2, Zenon DEF ShownFields
  <1>4. UrlShows(url, p.shown)' = UrlShows(url, p.shown)
    BY ONLY <1>1, <1>2, Zenon DEF UrlShows
  <1>5. Offering(url, p)' = Offering(url, p)
    BY ONLY <1>1, Zenon DEF Offering
  <1> QED
    BY <1>3, <1>4, <1>5

\* A page that is rendered shows what its address stands for, if that is asked.
LEMMA RenderedKeeps ==
    ASSUME ListingInv, listing.kind # "none", NEW url, DatesReal(url), NEW by, by = "link" => Loaded,
           NEW via, via # "link", sheet' = [Rendered(url, by) EXCEPT !.by = via],
           UNCHANGED <<listing, now>>, Effective(PageOf(url).shown) = asked'
    PROVE  ListingInv'
  <1>0. PICK p : p = PageOf(url)
    OBVIOUS
  <1> DEFINE f == p.shown
             stays == IF by = "link" THEN (sheet.typed \cup {"select"}) \cap DOMAIN sheet.form ELSE {}
  <1>1. UNCHANGED <<listing, now>> /\ asked' = Effective(f)
    BY <1>0
  <1>2. Listening /\ (Loaded => SheetOk)
    BY DEF ListingInv
  <1>3. Showable(url, p)
    BY <1>0, <1>2, PageShows
  <1>4. FormOk(p.bar.form)
    BY <1>2, <1>3, BarIsOk
  <1>5. StandsFor(url, f) /\ DatesReal(f) /\ Offering(url, p) /\ (listing.kind = "dashboard" => f.when <= now)
    BY <1>3 DEF Showable
  <1>6. Rendered(url, by) =
                 [url |-> url, page |-> p, by |-> IF p.refused THEN by ELSE None,
                  form |-> [k \in DOMAIN p.bar.form |-> IF k \in stays THEN sheet.form[k] ELSE p.bar.form[k]],
                  typed |-> stays \cap DOMAIN p.bar.form,
                  total |-> IF Paged(f) THEN Total(f) ELSE 0,
                  listed |-> IF Paged(f) THEN Listed(f) ELSE 0, exported |-> None]
    BY <1>0, Zenon DEF Rendered
  <1>7. sheet' = [Rendered(url, by) EXCEPT !.by = via]
    OBVIOUS
  <1>8. /\ DOMAIN sheet' = SheetFields /\ sheet'.url = url /\ sheet'.page = p
        /\ sheet'.by = via
        /\ sheet'.total = (IF Paged(f) THEN Total(f) ELSE 0)
        /\ sheet'.listed = (IF Paged(f) THEN Listed(f) ELSE 0) /\ sheet'.exported = None
        /\ sheet'.form = [k \in DOMAIN p.bar.form |-> IF k \in stays THEN sheet.form[k] ELSE p.bar.form[k]]
    <2> HIDE DEF f, stays
    <2> QED
      BY ONLY <1>6, <1>7 DEF SheetFields
  <1>9. sheet'.by # "link"
    BY <1>8
  <1>10. stays \subseteq DOMAIN sheet.form /\ (stays # {} => FormOk(sheet.form))
    <2>1. by = "link" => FormOk(sheet.form)
      BY <1>2 DEF SheetOk
    <2> QED
      BY <2>1
  <1> HIDE DEF stays
  <1>11. DOMAIN sheet'.form = DOMAIN p.bar.form /\ FormOk(sheet'.form)
    <2>1. DOMAIN sheet'.form = DOMAIN p.bar.form
      BY ONLY <1>8
    <2>2. \A k \in DOMAIN p.bar.form : sheet'.form[k] = IF k \in stays THEN sheet.form[k] ELSE p.bar.form[k]
      BY ONLY <1>8
    <2>3. ASSUME NEW k \in {"from", "to"} \cap DOMAIN sheet'.form PROVE sheet'.form[k] \in Nat
      BY <1>4, <1>10, <2>1, <2>2 DEF FormOk
    <2>4. ASSUME "dismissed" \in DOMAIN sheet'.form PROVE sheet'.form.dismissed \in BOOLEAN
      <3>1. sheet'.form["dismissed"] = IF "dismissed" \in stays THEN sheet.form["dismissed"] ELSE p.bar.form["dismissed"]
        BY <2>1, <2>2, <2>4
      <3>2. "dismissed" \in stays => sheet.form["dismissed"] \in BOOLEAN
        BY <1>10 DEF FormOk
      <3>3. p.bar.form["dismissed"] \in BOOLEAN
        BY <1>4, <2>1, <2>4 DEF FormOk
      <3> QED
        BY ONLY <3>1, <3>2, <3>3, Zenon
    <2> QED
      BY <2>1, <2>3, <2>4 DEF FormOk
  <1>12. /\ f = [k \in ShownFields(ResolvedTab(url))' |-> f[k]] /\ UrlShows(url, f)' /\ Offering(url, p)'
    <2>1. f = [k \in ShownFields(ResolvedTab(url)) |-> f[k]] /\ UrlShows(url, f)
      BY <1>5 DEF StandsFor
    <2>2. ShownFields(ResolvedTab(url))' = ShownFields(ResolvedTab(url)) /\ UrlShows(url, f)' /\ Offering(url, p)'
      BY <1>1, <1>5, <2>1, OfTheSameDay
    <2>3. f = [k \in ShownFields(ResolvedTab(url))' |-> f[k]]
      <3> DEFINE S == ShownFields(ResolvedTab(url))
      <3>1. S' = S /\ f = [k \in S |-> f[k]]
        BY <2>1, <2>2
      <3> HIDE DEF S, f
      <3>2. f = [k \in S' |-> f[k]]
        BY ONLY <3>1
      <3> QED
        BY <3>2 DEF S
    <2> QED
      BY <2>2, <2>3
  <1>13. Paged(f) => sheet'.listed = Cardinality(OnPage(sheet'.total, f.page))
    BY <1>8 DEF Listed, OnPage
  <1>14. SheetOk'
    <2>1. listing'.kind # "none" /\ (listing'.kind = "dashboard" => f.when <= now')
      BY <1>1, <1>5
    <2>2. Effective(f) = asked'
      BY <1>1
    <2>3. f = [k \in ShownFields(ResolvedTab(sheet.url))' |-> f[k]] /\ UrlShows(sheet.url, f)' /\ Offering(sheet.url, p)'
      BY <1>8, <1>12
    <2> QED
      BY <1>5, <1>8, <1>9, <1>11, <1>13, <2>1, <2>2, <2>3 DEF SheetOk
  <1>15. Listening'
    BY <1>1, <1>2 DEF Listening
  <1> QED
    BY <1>14, <1>15 DEF ListingInv

\* A page that is gone to shows what was asked for.
LEMMA GoKeeps ==
    ASSUME ListingInv, listing.kind # "none", NEW url, NEW by \in {"link", "form", "address"}, NEW wanted, NEW raw,
           Go(url, by, wanted), DatesReal(url), StandsFor(url, raw), Effective(raw) = wanted,
           by = "link" => Loaded /\ ~PageOf(url).refused
    PROVE  ListingInv'
  <1>1. UNCHANGED <<listing, now>> /\ asked' = wanted /\ sheet' = Rendered(url, by)
    BY DEF Go
  <1>2. Listening
    BY DEF ListingInv
  <1>3. PICK p, via, r : p = PageOf(url) /\ via = (IF p.refused THEN by ELSE None) /\ r = Rendered(url, by)
    OBVIOUS
  <1>4. p.shown = raw
    <2>1. StandsFor(url, p.shown)
      BY <1>2, <1>3, PageShows DEF Showable
    <2> QED
      BY <1>2, <2>1, OneMeaning
  <1>5. via # "link"
    BY <1>3, ListingsAssumption
  <1>6. PICK form, typed, total, listed :
            r = [url |-> url, page |-> p, by |-> via, form |-> form, typed |-> typed,
                 total |-> total, listed |-> listed, exported |-> None]
    BY <1>3, Zenon DEF Rendered
  <1>7. [r EXCEPT !.by = via] = r
    BY ONLY <1>6
  <1>8. sheet' = [Rendered(url, by) EXCEPT !.by = via]
    BY ONLY <1>1, <1>3, <1>7
  <1>9. Effective(PageOf(url).shown) = asked'
    BY <1>1, <1>3, <1>4
  <1> QED
    BY <1>1, <1>5, <1>8, <1>9, RenderedKeeps

\* An address that is typed, or a bookmark, is shown as it stands.
LEMMA OpenAddressKeeps ==
    ASSUME ListingInv, OpenAddress
    PROVE  ListingInv'
  <1>1. Listening
    BY DEF ListingInv
  <1>2. PICK i \in DOMAIN listing.addresses :
            LET url == Address(listing.addresses[i].url, listing.addresses[i].legacy)
            IN  Go(url, "address", Effective(PageOf(url).shown))
    BY DEF OpenAddress
  <1>3. PICK u, legacy, url, raw : /\ u = listing.addresses[i].url /\ legacy = listing.addresses[i].legacy
                                   /\ url = Address(u, legacy) /\ raw = PageOf(url).shown
    OBVIOUS
  <1>4. Go(url, "address", Effective(raw))
    BY <1>2, <1>3
  <1>5. listing.kind # "none" /\ DatesReal(u)
    BY <1>1, <1>3, ListingsAssumption DEF Listening, DatesReal
  <1>6. DatesReal(url)
    <2>1. CASE url = u
      BY <1>5, <2>1
    <2>2. CASE url = Over([tab |-> legacy], u)
      <3>1. \A k \in {"when", "from", "to"} \cap DOMAIN url : k \in DOMAIN u /\ url[k] = u[k]
        BY <2>2 DEF Over
      <3> QED
        BY <1>5, <3>1 DEF DatesReal
    <2> QED
      BY <1>3, <2>1, <2>2 DEF Address
  <1>7. StandsFor(url, raw)
    BY <1>1, <1>3, <1>5, <1>6, PageShows DEF Showable
  <1> QED
    BY <1>4, <1>5, <1>6, <1>7, GoKeeps

\* A link to a tab, which is offered to a role that has it.
LEMMA FollowTabKeeps ==
    ASSUME ListingInv, FollowTab
    PROVE  ListingInv'
  <1>1. Listening /\ Loaded /\ listing.kind = "issues"
    BY DEF ListingInv, FollowTab
  <1>2. PICK i \in DOMAIN AvailableTabs(listing.access) :
            Go([tab |-> AvailableTabs(listing.access)[i]], "link",
               Effective(PageOf([tab |-> AvailableTabs(listing.access)[i]]).shown))
    BY Zenon DEF FollowTab
  <1>3. PICK t, url, raw, p : /\ t = AvailableTabs(listing.access)[i] /\ url = [tab |-> t]
                              /\ p = PageOf(url) /\ raw = p.shown
    OBVIOUS
  <1>4. Go(url, "link", Effective(raw))
    BY <1>2, <1>3
  <1>5. DOMAIN url = {"tab"} /\ DatesReal(url)
    BY <1>3 DEF DatesReal
  <1>6. Showable(url, p)
    BY <1>1, <1>3, <1>5, PageShows
  <1>7. StandsFor(url, raw) /\ Offering(url, p)
    BY <1>3, <1>6 DEF Showable
  <1>8. ~p.refused
    <2>1. CASE raw.tab = "exceptions"
      <3>1. p.refused = (Unreadable(Param(url, "types", {})) \/ RangeRefused(raw))
        BY <1>1, <1>3, <1>7, <2>1 DEF Offering
      <3>2. Param(url, "types", {}) = {} /\ Param(url, "from", FirstDate) = FirstDate /\ Param(url, "to", now) = now
        BY <1>5 DEF Param
      <3>3. ~Unreadable({})
        BY DEF Unreadable
      <3>4. "from" \in DOMAIN raw
        <4>1. DOMAIN raw = ShownFields(ResolvedTab(url)) /\ UrlShows(url, raw)
          BY <1>7 DEF StandsFor
        <4>2. "tab" \in DOMAIN raw
          BY <1>1, <4>1 DEF ShownFields
        <4>3. ResolvedTab(url) = "exceptions"
          BY <2>1, <4>1, <4>2 DEF UrlShows
        <4> QED
          BY <1>1, <4>1, <4>3 DEF ShownFields
      <3>5. raw.from = now - 6 /\ raw.to = now
        BY <1>1, <1>7, <3>2, <3>4 DEF StandsFor, DatesShow, FirstDate
      <3>6. now \in Nat
        BY <1>1, Days
      <3>7. ~RangeRefused(raw)
        BY <3>5, <3>6, ListingsAssumption DEF RangeRefused
      <3> QED
        BY <3>1, <3>2, <3>3, <3>7
    <2>2. CASE raw.tab # "exceptions"
      BY <1>1, <1>3, <1>7, <2>2 DEF Offering
    <2> QED
      BY <2>1, <2>2
  <1> QED
    BY <1>1, <1>3, <1>4, <1>5, <1>7, <1>8, GoKeeps

\* The tab of the issues that a page shows, and that it is shown again if it is named.
LEMMA TabOfSheet ==
    ASSUME Listening, SheetOk, listing.kind = "issues"
    PROVE  /\ "tab" \in DOMAIN sheet.page.shown /\ sheet.page.shown.tab = ResolvedTab(sheet.url)
           /\ sheet.page.shown.tab \in {"all", "exceptions", "corrections"}
           /\ DOMAIN sheet.page.shown = ShownFields(sheet.page.shown.tab)
           /\ \A url : Param(url, "tab", "none") = sheet.page.shown.tab
                          => ResolvedTab(url) = sheet.page.shown.tab
  <1> DEFINE f == sheet.page.shown
  <1>1. DOMAIN f = ShownFields(ResolvedTab(sheet.url)) /\ UrlShows(sheet.url, f)
    BY DEF SheetOk
  <1>2. "tab" \in DOMAIN f
    BY <1>1 DEF ShownFields
  <1>3. f.tab = ResolvedTab(sheet.url)
    BY <1>1, <1>2 DEF UrlShows
  <1>4. PICK i \in DOMAIN AvailableTabs(listing.access) : AvailableTabs(listing.access)[i] = ResolvedTab(sheet.url)
    BY TabIsAvailable
  <1>5. \A url : Param(url, "tab", "none") = f.tab => ResolvedTab(url) = f.tab
    BY <1>3, <1>4, TabIsAvailable
  <1>6. f.tab \in {"all", "exceptions", "corrections"}
    BY <1>3, TabIsAvailable
  <1> QED
    BY <1>1, <1>2, <1>3, <1>5, <1>6

\* A link to the corrections of one status.
LEMMA FollowStatusKeeps ==
    ASSUME ListingInv, FollowStatus
    PROVE  ListingInv'
  <1>1. Listening /\ Loaded /\ SheetOk /\ "status" \in DOMAIN sheet.page.shown
    BY DEF ListingInv, FollowStatus
  <1>2. PICK status \in Statuses : Go(StatusHref(status), "link", [asked EXCEPT !.status = status])
    BY DEF FollowStatus
  <1>3. PICK f, url, raw, p : /\ f = sheet.page.shown /\ url = [tab |-> "corrections", status |-> status]
                              /\ raw = [f EXCEPT !.status = status] /\ p = PageOf(url)
    OBVIOUS
  <1>4. listing.kind = "issues"
    <2>1. DOMAIN f = ShownFields(ResolvedTab(sheet.url)) /\ listing.kind # "none"
      BY <1>1, <1>3 DEF SheetOk
    <2>2. listing.kind \in {"none", "dashboard", "calendar", "report", "issues", "directory", "workforce"}
      BY <1>1, ListingsAssumption DEF Listening
    <2> QED
      BY <1>1, <1>3, <2>1, <2>2 DEF ShownFields
  <1>5. /\ f.tab \in {"all", "exceptions", "corrections"} /\ DOMAIN f = ShownFields(f.tab)
        /\ \A u : Param(u, "tab", "none") = f.tab => ResolvedTab(u) = f.tab
    BY <1>1, <1>3, <1>4, TabOfSheet
  <1>6. f.tab = "corrections" /\ DOMAIN f = {"tab", "status"} /\ f = [k \in DOMAIN f |-> f[k]]
    <2>1. f = [k \in ShownFields(ResolvedTab(sheet.url)) |-> f[k]]
      BY <1>1, <1>3 DEF SheetOk
    <2>2. f.tab = "corrections" /\ DOMAIN f = {"tab", "status"}
      BY <1>1, <1>3, <1>4, <1>5 DEF ShownFields
    <2> QED
      BY <2>1, <2>2
  <1>7. /\ DOMAIN raw = {"tab", "status"} /\ raw.tab = "corrections" /\ raw.status = status
        /\ raw = [k \in {"tab", "status"} |-> raw[k]]
    BY <1>3, <1>6
  <1>8. ResolvedTab(url) = "corrections"
    <2>1. Param(url, "tab", "none") = "corrections"
      BY <1>3 DEF Param
    <2> QED
      BY <1>5, <1>6, <2>1
  <1>9. StandsFor(url, raw)
    <2>1. ShownFields(ResolvedTab(url)) = {"tab", "status"}
      BY <1>4, <1>8 DEF ShownFields
    <2>2. Param(url, "status", "PENDING") = status
      BY <1>3 DEF Param
    <2>3. UrlShows(url, raw) /\ DatesShow(url, raw)
      BY <1>7, <1>8, <2>2 DEF UrlShows, DatesShow
    <2> QED
      BY <1>7, <2>1, <2>3 DEF StandsFor
  <1>10. DatesReal(url)
    BY <1>3 DEF DatesReal
  <1>11. ~p.refused
    <2>1. Showable(url, p)
      BY <1>1, <1>3, <1>4, <1>10, PageShows
    <2>2. StandsFor(url, p.shown) /\ Offering(url, p)
      BY <2>1 DEF Showable
    <2>3. p.shown = raw
      BY <1>1, <1>4, <1>9, <2>2, OneMeaning
    <2> QED
      BY <1>4, <1>7, <2>2, <2>3 DEF Offering
  <1>12. Effective(raw) = [asked EXCEPT !.status = status]
    <2>1. asked = f
      BY <1>1, <1>3, <1>6 DEF SheetOk, Effective
    <2>2. Effective(raw) = raw
      BY <1>7 DEF Effective
    <2> QED
      BY <1>3, <2>1, <2>2
  <1>13. Go(url, "link", [asked EXCEPT !.status = status])
    BY <1>2, <1>3 DEF StatusHref
  <1> QED
    BY <1>1, <1>3, <1>4, <1>9, <1>10, <1>11, <1>12, <1>13, GoKeeps

\* Another day or month is shown with the filters kept, on its first page; a day that is
\* still to come is today.
LEMMA AnotherDate ==
    ASSUME ListingInv, Loaded, listing.kind \in {"dashboard", "calendar", "workforce"}, NEW d \in Nat \ {0},
           NEW e, e = IF listing.kind = "dashboard" /\ d > now THEN now ELSE d,
           NEW by \in {"link", "form"}, Go(DateHref(d), by, AtDate(e))
    PROVE  ListingInv'
  <1>1. Listening /\ SheetOk
    BY DEF ListingInv
  <1>2. now \in Nat /\ now > 6
    BY <1>1, Days
  <1>3. PICK f, others, url, p, S :
            /\ f = sheet.page.shown /\ others = sheet.page.others /\ url = Over([when |-> d], others)
            /\ p = PageOf(url) /\ S = ShownFields(ResolvedTab(url))
    OBVIOUS
  <1>4. /\ S = ShownFields(ResolvedTab(sheet.url))
        /\ S = IF listing.kind = "workforce" THEN {"when", "select"} ELSE {"when", "select", "search", "page"}
    BY <1>3 DEF ShownFields
  <1>5. f = [k \in S |-> f[k]] /\ DOMAIN f = S
    BY <1>1, <1>3, <1>4 DEF SheetOk
  <1>6. others = Given(f, IF listing.kind = "workforce" THEN {"select"} ELSE {"select", "search"})
    BY <1>1, <1>3 DEF SheetOk, Offering
  <1>7. PICK raw : raw = [k \in S |-> CASE k = "when" -> e [] k = "page" -> 1 [] OTHER -> f[k]]
    OBVIOUS
  <1>8. /\ DOMAIN raw = S /\ raw = [k \in S |-> raw[k]] /\ raw.when = e
        /\ \A k \in S : (k = "page" => raw[k] = 1) /\ (k \in {"select", "search"} => raw[k] = f[k])
    BY <1>4, <1>7
  <1>9. Effective(raw) = AtDate(e)
    <2>1. asked = f
      BY <1>1, <1>3, <1>4, <1>5 DEF SheetOk, Effective
    <2>2. AtDate(e) = raw
      BY <1>5, <1>7, <2>1 DEF AtDate
    <2> QED
      BY <1>4, <1>8, <2>2 DEF Effective
  <1>10. DatesReal(url)
    <2>1. \A k \in {"when", "from", "to"} \cap DOMAIN url : k = "when" /\ url[k] = d
      BY <1>3, <1>6 DEF Over, Given
    <2> QED
      BY <2>1 DEF DatesReal
  <1>11. \A k, o : Param(url, k, o) = IF k = "when" THEN d ELSE Param(others, k, o)
    BY <1>3, ParamOver
  <1>12. /\ Param(url, "when", now) = d /\ Param(url, "page", 1) = 1
         /\ \A k \in {"select", "search"} \cap S : Param(url, k, Blank) = f[k]
    BY <1>4, <1>6, <1>11, ParamGiven
  <1>13. StandsFor(url, raw)
    <2>1. UrlShows(url, raw)
      BY <1>4, <1>8, <1>12 DEF UrlShows
    <2>2. DatesShow(url, raw)
      BY <1>2, <1>4, <1>8, <1>12 DEF DatesShow
    <2> QED
      BY <1>3, <1>8, <2>1, <2>2 DEF StandsFor
  <1>14. ~p.refused
    <2>1. Showable(url, p)
      BY <1>1, <1>3, <1>10, PageShows
    <2> QED
      BY <2>1 DEF Showable, Offering
  <1>15. Go(url, by, AtDate(e))
    BY <1>3 DEF DateHref
  <1> QED
    BY <1>3, <1>9, <1>10, <1>13, <1>14, <1>15, GoKeeps

\* Where a page has dates to lead to, its address has one.
LEMMA DatesAreOffered ==
    ASSUME ListingInv, Loaded, sheet.page.dates # {}
    PROVE  /\ listing.kind \in {"dashboard", "calendar", "workforce"}
           /\ listing.kind = "dashboard" => \A d \in sheet.page.dates : d <= now
  <1>1. Listening /\ SheetOk
    BY DEF ListingInv
  <1>2. Offering(sheet.url, sheet.page) /\ listing.kind # "none"
    BY <1>1 DEF SheetOk
  <1>3. listing.kind \in {"none", "dashboard", "calendar", "report", "issues", "directory", "workforce"}
    BY <1>1, ListingsAssumption DEF Listening
  <1>4. listing.kind \notin {"report", "issues", "directory"}
    BY <1>2 DEF Offering
  <1> QED
    BY <1>2, <1>3, <1>4 DEF Offering

\* A link to another date.
LEMMA FollowDateKeeps ==
    ASSUME ListingInv, FollowDate
    PROVE  ListingInv'
  <1>1. PICK d \in sheet.page.dates \cap listing.days : Go(DateHref(d), "link", AtDate(d))
    BY DEF FollowDate
  <1>2. Loaded /\ Listening
    BY DEF FollowDate, ListingInv
  <1>3. d \in Nat \ {0}
    BY <1>1, <1>2, ListingsAssumption DEF Listening
  <1>4. now \in Nat
    BY <1>2, Days
  <1>5. listing.kind \in {"dashboard", "calendar", "workforce"} /\ (listing.kind = "dashboard" => d <= now)
    BY <1>1, <1>2, DatesAreOffered
  <1>6. d = IF listing.kind = "dashboard" /\ d > now THEN now ELSE d
    BY <1>3, <1>4, <1>5
  <1> QED
    BY <1>1, <1>2, <1>3, <1>5, <1>6, AnotherDate

\* A date that is picked.
LEMMA PickDateKeeps ==
    ASSUME ListingInv, PickDate
    PROVE  ListingInv'
  <1>1. PICK d \in listing.days :
            Go(DateHref(d), "form", AtDate(IF listing.kind = "dashboard" /\ d > now THEN now ELSE d))
    BY Zenon DEF PickDate
  <1>2. Loaded /\ Listening /\ sheet.page.dates # {}
    BY DEF PickDate, ListingInv
  <1>3. d \in Nat \ {0}
    BY <1>1, <1>2, ListingsAssumption DEF Listening
  <1>4. listing.kind \in {"dashboard", "calendar", "workforce"}
    BY <1>2, DatesAreOffered
  <1> QED
    BY <1>1, <1>2, <1>3, <1>4, AnotherDate

\* The parameters of a page link, which are the filters of the page and another number.
LEMMA PageLinkKeepsFilters ==
    ASSUME Listening, SheetOk, "page" \in DOMAIN sheet.page.shown, NEW n, NEW url, url = PageHref(n),
           NEW f, f = sheet.page.shown
    PROVE  /\ listing.kind \in {"dashboard", "calendar", "report", "issues", "directory"}
           /\ listing.kind = "issues" =>
                 /\ f.tab = "exceptions" /\ ResolvedTab(url) = "exceptions"
                 /\ UNION Param(url, "types", {}) = f.types /\ ~Unreadable(Param(url, "types", {}))
                 /\ f.dismissed = ("dismissed" \in DOMAIN url)
           /\ DOMAIN f = ShownFields(ResolvedTab(url)) /\ f = [k \in DOMAIN f |-> f[k]]
           /\ Param(url, "page", 1) = n /\ DatesReal(url)
           /\ \A k \in {"when", "from", "to"} \cap DOMAIN f : \A o : Param(url, k, o) = f[k]
           /\ \A k \in {"select", "search"} : Param(url, k, Blank) = f[k]
  <1> DEFINE pages == sheet.page.pages
             T == ShownFields(ResolvedTab(sheet.url))
  <1>1. /\ DOMAIN f = T /\ f = [k \in DOMAIN f |-> f[k]] /\ DatesReal(f) /\ UrlShows(sheet.url, f)
        /\ listing.kind # "none" /\ Offering(sheet.url, sheet.page)
    <2>1. f = [k \in T |-> f[k]]
      BY DEF SheetOk
    <2>2. DOMAIN f = T
      BY <2>1
    <2> QED
      BY <2>1, <2>2 DEF SheetOk
  <1>2. listing.kind \in {"dashboard", "calendar", "report", "issues", "directory"}
    BY <1>1, ListingsAssumption DEF Listening, ShownFields
  <1>3. url = Over([page |-> n], pages)
    BY DEF PageHref
  <1>4. \A k, o : Param(url, k, o) = IF k = "page" THEN n ELSE Param(pages, k, o)
    BY <1>3, ParamOver
  <1>5. ASSUME NEW keys, \A k, o : k # "page" /\ k \in {"when", "from", "to", "select", "search"}
                                      => Param(pages, k, o) = Param(Given(f, keys), k, o),
               {"select", "search"} \subseteq keys, {"when", "from", "to"} \cap DOMAIN f \subseteq keys
        PROVE  /\ \A k \in {"when", "from", "to"} \cap DOMAIN f : \A o : Param(url, k, o) = f[k]
               /\ \A k \in {"select", "search"} : Param(url, k, Blank) = f[k]
    <2>1. \A k \in {"when", "from", "to"} \cap DOMAIN f : f[k] # Blank
      BY <1>1 DEF DatesReal, Blank
    <2> QED
      BY <1>4, <1>5, <2>1, ParamGiven
  <1>6. CASE listing.kind # "issues"
    <2>1. PICK keys : pages = Given(f, keys) /\ {"select", "search"} \subseteq keys
                      /\ ({"when", "from", "to"} \cap DOMAIN f \subseteq keys)
                      /\ keys \subseteq {"when", "from", "to", "select", "search"} /\ keys \subseteq DOMAIN f
      <3>1. CASE listing.kind \in {"dashboard", "calendar"}
        <4>1. pages = Given(f, {"when", "select", "search"})
          <5>1. CASE listing.kind = "dashboard"
            BY <1>1, <5>1 DEF Offering
          <5>2. CASE listing.kind = "calendar"
            BY <1>1, <5>2 DEF Offering
          <5> QED
            BY <3>1, <5>1, <5>2
        <4>2. DOMAIN f = {"when", "select", "search", "page"}
          BY <1>1, <3>1 DEF ShownFields
        <4> QED
          BY <4>1, <4>2
      <3>2. CASE listing.kind = "report"
        <4>1. pages = Given(f, {"from", "to", "select", "search"})
          BY <1>1, <3>2 DEF Offering
        <4>2. DOMAIN f = {"from", "to", "select", "search", "page"}
          BY <1>1, <3>2 DEF ShownFields
        <4> QED
          BY <4>1, <4>2
      <3>3. CASE listing.kind = "directory"
        <4>1. pages = Given(f, {"select", "search"})
          BY <1>1, <3>3 DEF Offering
        <4>2. DOMAIN f = {"select", "search", "page"}
          BY <1>1, <3>3 DEF ShownFields
        <4> QED
          BY <4>1, <4>2
      <3> QED
        BY <1>2, <1>6, <3>1, <3>2, <3>3
    <2>2. DatesReal(url)
      <3>1. \A k \in {"when", "from", "to"} \cap DOMAIN url : k \in DOMAIN f /\ url[k] = f[k]
        BY <1>3, <2>1 DEF Over, Given
      <3> QED
        BY <1>1, <3>1 DEF DatesReal
    <2>3. ShownFields(ResolvedTab(url)) = T
      BY <1>2, <1>6 DEF ShownFields
    <2> QED
      BY <1>1, <1>2, <1>4, <1>5, <1>6, <2>1, <2>2, <2>3
  <1>7. CASE listing.kind = "issues"
    <2> DEFINE own == [tab |-> f.tab]
               given == Given(f, {"from", "to", "select", "search"})
               boxes == Over(Joined(f.types), Dismissed(f))
    <2>1. /\ f.tab \in {"all", "exceptions", "corrections"} /\ DOMAIN f = ShownFields(f.tab)
          /\ \A u : Param(u, "tab", "none") = f.tab => ResolvedTab(u) = f.tab
      BY <1>7, TabOfSheet
    <2>2. f.tab = "exceptions"
      BY <1>7, <2>1 DEF ShownFields
    <2>3. DOMAIN f = {"tab", "from", "to", "types", "dismissed", "select", "search", "page"}
      BY <1>7, <2>1, <2>2 DEF ShownFields
    <2>4. pages = Over(Over(own, given), boxes)
      BY <1>1, <1>7, <2>2 DEF Offering
    <2>5. /\ DOMAIN own = {"tab"} /\ own.tab = "exceptions"
          /\ DOMAIN given \subseteq {"from", "to", "select", "search"}
      BY <2>2 DEF Given
    <2>6. /\ DOMAIN Dismissed(f) \subseteq {"dismissed"} /\ DOMAIN Joined(f.types) \subseteq {"types"}
          /\ "dismissed" \in DOMAIN Dismissed(f) <=> f.dismissed
      <3>1. DOMAIN <<>> = {}
        OBVIOUS
      <3>2. f.dismissed \/ ~f.dismissed
        OBVIOUS
      <3> QED
        BY <3>1, <3>2 DEF Dismissed, Joined
    <2> HIDE DEF own, given
    <2>7. DOMAIN boxes \subseteq {"types", "dismissed"} /\ ("dismissed" \in DOMAIN boxes <=> f.dismissed)
      BY <2>6 DEF Over
    <2>8. \A k, o : Param(boxes, k, o) =
                      IF k \in DOMAIN Joined(f.types) THEN Joined(f.types)[k] ELSE Param(Dismissed(f), k, o)
      BY ParamOver
    <2>9. Param(boxes, "types", {}) = Param(Joined(f.types), "types", {})
      BY <2>6, <2>8 DEF Param
    <2> HIDE DEF boxes
    <2>10. \A k, o : Param(pages, k, o) =
                      IF k \in DOMAIN Over(own, given) THEN Over(own, given)[k] ELSE Param(boxes, k, o)
      BY <2>4, ParamOver
    <2>11. DOMAIN Over(own, given) = {"tab"} \cup DOMAIN given
      BY <2>5 DEF Over
    <2>12. \A k, o : Param(Over(own, given), k, o) = IF k \in DOMAIN own THEN own[k] ELSE Param(given, k, o)
      BY ParamOver
    <2>13. \A k, o : k \notin {"types", "dismissed"} => Param(boxes, k, o) = o
      BY <2>7 DEF Param
    <2>14. \A k, o : k \notin {"types", "dismissed"} => Param(pages, k, o) = Param(Over(own, given), k, o)
      BY <2>10, <2>13 DEF Param
    <2>15. \A k, o : k \in {"when", "from", "to", "select", "search"} => Param(pages, k, o) = Param(given, k, o)
      BY <2>5, <2>12, <2>14
    <2>16. ResolvedTab(url) = "exceptions"
      <3>1. Param(pages, "tab", "none") = "exceptions"
        BY <2>5, <2>12, <2>14
      <3> QED
        BY <1>4, <2>1, <2>2, <3>1
    <2>17. Param(url, "types", {}) = Param(Joined(f.types), "types", {})
      BY <1>4, <2>5, <2>9, <2>10, <2>11
    <2>18. UNION Param(url, "types", {}) = f.types /\ ~Unreadable(Param(url, "types", {}))
      BY <2>17, TypesAgain
    <2>19. "dismissed" \in DOMAIN url <=> f.dismissed
      BY <1>3, <2>4, <2>5, <2>7 DEF Over
    <2>20. f.dismissed = ("dismissed" \in DOMAIN url)
      <3>1. f.dismissed = ("dismissed" \in DOMAIN sheet.url)
        BY <1>1, <2>3 DEF UrlShows
      <3>2. ("dismissed" \in DOMAIN url) = ("dismissed" \in DOMAIN sheet.url)
        <4>1. f.dismissed <=> "dismissed" \in DOMAIN sheet.url
          BY ONLY <3>1
        <4> QED
          BY ONLY <4>1, <2>19
      <3> QED
        BY ONLY <3>1, <3>2, Zenon
    <2>21. DatesReal(url)
      <3>1. \A k \in {"when", "from", "to"} \cap DOMAIN url : k \in DOMAIN given /\ url[k] = given[k]
        BY <1>3, <2>4, <2>5, <2>7 DEF Over
      <3>2. \A k \in DOMAIN given : given[k] = f[k]
        BY DEF given, Given
      <3> QED
        BY <1>1, <2>3, <2>5, <3>1, <3>2 DEF DatesReal
    <2>22. /\ \A k \in {"when", "from", "to"} \cap DOMAIN f : \A o : Param(url, k, o) = f[k]
           /\ \A k \in {"select", "search"} : Param(url, k, Blank) = f[k]
      BY <1>5, <2>3, <2>15 DEF given
    <2>23. DOMAIN f = ShownFields(ResolvedTab(url))
      BY <2>1, <2>2, <2>16
    <2> QED
      BY <1>1, <1>4, <1>7, <2>2, <2>16, <2>18, <2>20, <2>21, <2>22, <2>23
  <1> QED
    BY <1>6, <1>7

\* A link to another page of the same rows.
LEMMA TurnPageLinkKeeps ==
    ASSUME ListingInv, TurnPageLink
    PROVE  ListingInv'
  <1>1. Listening /\ Loaded /\ SheetOk /\ ~sheet.page.refused /\ "page" \in DOMAIN sheet.page.shown
    BY DEF ListingInv, TurnPageLink, Paged
  <1>2. PICK n \in PageLinks : Go(PageHref(n), "link", [asked EXCEPT !.page = n])
    BY DEF TurnPageLink
  <1>3. PICK f, url, p, S, raw : /\ f = sheet.page.shown /\ url = PageHref(n) /\ p = PageOf(url)
                                 /\ S = DOMAIN f /\ raw = [f EXCEPT !.page = n]
    OBVIOUS
  <1>4. /\ listing.kind \in {"dashboard", "calendar", "report", "issues", "directory"}
        /\ listing.kind = "issues" =>
              /\ f.tab = "exceptions" /\ ResolvedTab(url) = "exceptions"
              /\ UNION Param(url, "types", {}) = f.types /\ ~Unreadable(Param(url, "types", {}))
              /\ f.dismissed = ("dismissed" \in DOMAIN url)
        /\ DOMAIN f = ShownFields(ResolvedTab(url)) /\ f = [k \in DOMAIN f |-> f[k]]
        /\ Param(url, "page", 1) = n /\ DatesReal(url)
        /\ \A k \in {"when", "from", "to"} \cap DOMAIN f : \A o : Param(url, k, o) = f[k]
        /\ \A k \in {"select", "search"} : Param(url, k, Blank) = f[k]
    BY <1>1, <1>3, PageLinkKeepsFilters
  <1>5. S = ShownFields(ResolvedTab(url)) /\ "page" \in S
    BY <1>1, <1>3, <1>4
  <1>6. S = IF listing.kind = "issues" THEN {"tab", "from", "to", "types", "dismissed", "select", "search", "page"}
            ELSE IF listing.kind = "report" THEN {"from", "to", "select", "search", "page"}
            ELSE IF listing.kind = "directory" THEN {"select", "search", "page"}
            ELSE {"when", "select", "search", "page"}
    BY <1>4, <1>5 DEF ShownFields
  <1>7. raw = [k \in S |-> raw[k]] /\ raw.page = n /\ \A k \in S \ {"page"} : raw[k] = f[k]
    BY <1>3, <1>4, <1>5
  <1>8. DOMAIN raw = S
    BY <1>7
  <1>9. UrlShows(url, raw)
    <2>1. \A k \in {"select", "search"} \cap S : raw[k] = Param(url, k, Blank)
      BY <1>4, <1>7
    <2>2. "types" \in S => raw.types = UNION Param(url, "types", {}) /\ "types" # "page" /\ listing.kind = "issues"
      BY <1>4, <1>6, <1>7
    <2>3. "types" \in S => raw.dismissed = ("dismissed" \in DOMAIN url)
      <3>1. ASSUME "types" \in S PROVE raw.dismissed = f.dismissed /\ f.dismissed = ("dismissed" \in DOMAIN url)
        BY <1>4, <1>6, <1>7, <3>1
      <3> QED
        BY ONLY <3>1, Zenon
    <2>4. "tab" \in S => raw.tab = ResolvedTab(url)
      BY <1>4, <1>6, <1>7
    <2>5. "status" \notin S
      BY <1>6
    <2> QED
      BY <1>4, <1>7, <1>8, <2>1, <2>2, <2>3, <2>4, <2>5 DEF UrlShows
  <1>10. DatesShow(url, raw)
    <2>1. now \in Nat
      BY <1>1, Days
    <2>2. listing.kind = "dashboard" => f.when <= now
      BY <1>1, <1>3 DEF SheetOk
    <2>3. "when" \in S => raw.when = f.when /\ Param(url, "when", now) = f.when
      BY <1>3, <1>4, <1>7
    <2>4. "from" \in S => /\ "to" \in S /\ raw.from = f.from /\ Param(url, "from", FirstDate) = f.from
                          /\ raw.to = f.to /\ Param(url, "to", now) = f.to
      BY <1>3, <1>4, <1>6, <1>7
    <2> QED
      BY <1>8, <2>2, <2>3, <2>4 DEF DatesShow
  <1>11. StandsFor(url, raw)
    BY <1>5, <1>7, <1>9, <1>10 DEF StandsFor
  <1>12. ~p.refused
    <2>1. Showable(url, p)
      BY <1>1, <1>3, <1>4, PageShows
    <2>2. StandsFor(url, p.shown) /\ Offering(url, p)
      BY <2>1 DEF Showable
    <2>3. p.shown = raw
      BY <1>1, <1>4, <1>11, <2>2, OneMeaning
    <2>4. Offering(sheet.url, sheet.page)
      BY <1>1 DEF SheetOk
    <2>5. CASE listing.kind \in {"report", "issues"}
      <3>1. raw.from = f.from /\ raw.to = f.to
        BY <1>6, <1>7, <2>5
      <3>2. ~RangeRefused(f)
        <4>1. CASE listing.kind = "report"
          BY <1>1, <1>3, <2>4, <4>1 DEF Offering
        <4>2. CASE listing.kind = "issues"
          BY <1>1, <1>3, <1>4, <2>4, <4>2 DEF Offering
        <4> QED
          BY <2>5, <4>1, <4>2
      <3>3. ~RangeRefused(raw)
        BY <3>1, <3>2 DEF RangeRefused
      <3>4. CASE listing.kind = "report"
        BY <2>2, <2>3, <3>3, <3>4 DEF Offering
      <3>5. CASE listing.kind = "issues"
        <4>1. raw.tab = "exceptions"
          BY <1>4, <1>6, <1>7, <3>5
        <4> QED
          BY <1>4, <2>2, <2>3, <3>3, <3>5, <4>1 DEF Offering
      <3> QED
        BY <2>5, <3>4, <3>5
    <2>6. CASE listing.kind \notin {"report", "issues"}
      BY <1>4, <2>2, <2>6 DEF Offering
    <2> QED
      BY <2>5, <2>6
  <1>13. Effective(raw) = [asked EXCEPT !.page = n]
    <2>1. asked = Effective(f)
      BY <1>1, <1>3 DEF SheetOk
    <2>2. CASE "types" \in S /\ f.types = {}
      <3>1. Effective(f) = [f EXCEPT !.types = AllTypes] /\ Effective(raw) = [raw EXCEPT !.types = AllTypes]
        BY <1>3, <1>7, <1>8, <2>2 DEF Effective
      <3>2. [raw EXCEPT !.types = AllTypes] = [[f EXCEPT !.types = AllTypes] EXCEPT !.page = n]
        BY <1>3, <1>4
      <3> QED
        BY <2>1, <3>1, <3>2
    <2>3. CASE ~("types" \in S /\ f.types = {})
      <3>1. Effective(f) = f /\ Effective(raw) = raw
        BY <1>3, <1>7, <1>8, <2>3 DEF Effective
      <3> QED
        BY <1>3, <2>1, <3>1
    <2> QED
      BY <2>2, <2>3
  <1> QED
    BY <1>1, <1>2, <1>3, <1>4, <1>11, <1>12, <1>13, GoKeeps

\* The bar of a page with a select: its fields, and what it keeps hidden.
LEMMA BarOfSheet ==
    ASSUME Listening, SheetOk, "select" \in DOMAIN sheet.form, NEW f, f = sheet.page.shown
    PROVE  LET F == DOMAIN sheet.form
               hidden == sheet.page.bar.hidden
           IN  /\ f = [k \in DOMAIN f |-> f[k]]
               /\ \/ /\ listing.kind \in {"dashboard", "calendar", "workforce"}
                     /\ DOMAIN f = (IF listing.kind = "workforce" THEN {"when", "select"}
                                    ELSE {"when", "select", "search", "page"})
                     /\ F = (IF listing.kind = "workforce" THEN {"select"} ELSE {"select", "search"})
                     /\ hidden = [when |-> f.when] /\ sheet.page.bar.reset = [when |-> f.when]
                  \/ /\ listing.kind = "report" /\ DOMAIN f = {"from", "to", "select", "search", "page"}
                     /\ F = {"from", "to", "select", "search"}
                     /\ hidden = <<>> /\ sheet.page.bar.reset = <<>>
                  \/ /\ listing.kind = "issues" /\ f.tab = "exceptions"
                     /\ DOMAIN f = {"tab", "from", "to", "types", "dismissed", "select", "search", "page"}
                     /\ F = {"from", "to", "select", "search", "types", "dismissed"}
                     /\ hidden = [tab |-> "exceptions"] /\ sheet.page.bar.reset = [tab |-> "exceptions"]
                     /\ \A u : Param(u, "tab", "none") = "exceptions" => ResolvedTab(u) = "exceptions"
                  \/ /\ listing.kind = "directory" /\ DOMAIN f = {"select", "search", "page"}
                     /\ F = {"select", "search"}
                     /\ hidden = <<>> /\ sheet.page.bar.reset = <<>>
  <1> DEFINE T == ShownFields(ResolvedTab(sheet.url))
             bar == sheet.page.bar
  <1>1. f = [k \in T |-> f[k]] /\ listing.kind # "none" /\ Offering(sheet.url, sheet.page)
        /\ DOMAIN sheet.form = DOMAIN bar.form
    BY DEF SheetOk
  <1>2. DOMAIN f = T /\ f = [k \in DOMAIN f |-> f[k]]
    BY <1>1
  <1>3. listing.kind \in {"none", "dashboard", "calendar", "report", "issues", "directory", "workforce"}
    BY ListingsAssumption DEF Listening
  <1>4. CASE listing.kind \in {"dashboard", "calendar"}
    <2>1. bar = DashboardBar(f)
      <3>1. CASE listing.kind = "dashboard"
        BY <1>1, <3>1 DEF Offering
      <3>2. CASE listing.kind = "calendar"
        BY <1>1, <3>2 DEF Offering, CalendarBar
      <3> QED
        BY <1>4, <3>1, <3>2
    <2>2. DOMAIN bar.form = {"select", "search"} /\ bar.hidden = [when |-> f.when] /\ bar.reset = [when |-> f.when]
      BY <2>1 DEF DashboardBar
    <2>3. DOMAIN f = {"when", "select", "search", "page"}
      BY <1>2, <1>4 DEF ShownFields
    <2> QED
      BY <1>1, <1>2, <1>4, <2>2, <2>3
  <1>5. CASE listing.kind = "workforce"
    <2>1. bar = EmployeeSelect(f)
      BY <1>1, <1>5 DEF Offering
    <2>2. DOMAIN bar.form = {"select"} /\ bar.hidden = [when |-> f.when] /\ bar.reset = [when |-> f.when]
      BY <2>1 DEF EmployeeSelect
    <2>3. DOMAIN f = {"when", "select"}
      BY <1>2, <1>5 DEF ShownFields
    <2> QED
      BY <1>1, <1>2, <1>5, <2>2, <2>3
  <1>6. CASE listing.kind = "report"
    <2>1. bar = ReportBar(f)
      BY <1>1, <1>6 DEF Offering
    <2>2. DOMAIN bar.form = {"from", "to", "select", "search"} /\ bar.hidden = <<>> /\ bar.reset = <<>>
      BY <2>1 DEF ReportBar
    <2>3. DOMAIN f = {"from", "to", "select", "search", "page"}
      BY <1>2, <1>6 DEF ShownFields
    <2> QED
      BY <1>1, <1>2, <1>6, <2>2, <2>3
  <1>7. CASE listing.kind = "directory"
    <2>1. bar = DirectoryBar(f)
      BY <1>1, <1>7 DEF Offering
    <2>2. DOMAIN bar.form = {"select", "search"} /\ bar.hidden = <<>> /\ bar.reset = <<>>
      BY <2>1 DEF DirectoryBar
    <2>3. DOMAIN f = {"select", "search", "page"}
      BY <1>2, <1>7 DEF ShownFields
    <2> QED
      BY <1>1, <1>2, <1>7, <2>2, <2>3
  <1>8. CASE listing.kind = "issues"
    <2>1. /\ DOMAIN f = ShownFields(f.tab)
          /\ \A u : Param(u, "tab", "none") = f.tab => ResolvedTab(u) = f.tab
      BY <1>8, TabOfSheet
    <2>2. f.tab = "exceptions"
      <3>1. ASSUME f.tab # "exceptions" PROVE FALSE
        <4>1. bar = NoBar
          BY <1>1, <1>8, <3>1 DEF Offering
        <4>2. DOMAIN bar.form = {}
          BY <4>1 DEF NoBar
        <4> QED
          BY <1>1, <4>2
      <3> QED
        BY <3>1
    <2>3. bar = ExceptionBar(f, sheet.page.refused)
      BY <1>1, <1>8, <2>2 DEF Offering
    <2>4. /\ DOMAIN bar.form = {"from", "to", "select", "search", "types", "dismissed"}
          /\ bar.hidden = [tab |-> "exceptions"] /\ bar.reset = [tab |-> "exceptions"]
      BY <2>3 DEF ExceptionBar
    <2>5. DOMAIN f = {"tab", "from", "to", "types", "dismissed", "select", "search", "page"}
      BY <1>8, <2>1, <2>2 DEF ShownFields
    <2> QED
      BY <1>1, <1>2, <1>8, <2>1, <2>2, <2>4, <2>5
  <1> QED
    BY <1>1, <1>3, <1>4, <1>5, <1>6, <1>7, <1>8

\* The parameters of a form that is submitted.
LEMMA SubmittedHas ==
    ASSUME Listening, SheetOk, "select" \in DOMAIN sheet.form, NEW form, DOMAIN form = DOMAIN sheet.form,
           NEW f, f = sheet.page.shown, NEW url, url = Submitted(form)
    PROVE  /\ \A k \in {"from", "to", "select", "search"} \cap DOMAIN form : \A o :
                 Param(url, k, o) = IF form[k] # Blank THEN form[k] ELSE o
           /\ Param(url, "page", 1) = 1
           /\ listing.kind \in {"dashboard", "calendar", "workforce"} =>
                 "when" \in DOMAIN url /\ url.when = f.when
           /\ \A k \in {"when", "from", "to"} \cap DOMAIN url :
                 \/ k \in DOMAIN form /\ url[k] = form[k] /\ form[k] # Blank
                 \/ k = "when" /\ listing.kind \in {"dashboard", "calendar", "workforce"}
           /\ listing.kind = "issues" =>
                 /\ ResolvedTab(url) = "exceptions" /\ UNION Param(url, "types", {}) = form.types
                 /\ ("dismissed" \in DOMAIN url <=> form.dismissed)
  <1> DEFINE F == DOMAIN form
             hidden == sheet.page.bar.hidden
             G == Given(form, F \ {"types", "dismissed"})
  <1>1. PICK boxes : boxes = IF "types" \in F THEN Over(Repeated(form.types), Dismissed(form)) ELSE <<>>
    OBVIOUS
  <1>2. url = Over(G, Over(hidden, boxes))
    BY <1>1 DEF Submitted
  <1>3. \/ /\ listing.kind \in {"dashboard", "calendar", "workforce"}
           /\ F \subseteq {"select", "search"} /\ hidden = [when |-> f.when]
        \/ /\ listing.kind \in {"report", "directory"}
           /\ F \subseteq {"from", "to", "select", "search"} /\ hidden = <<>>
        \/ /\ listing.kind = "issues" /\ F = {"from", "to", "select", "search", "types", "dismissed"}
           /\ hidden = [tab |-> "exceptions"]
           /\ \A u : Param(u, "tab", "none") = "exceptions" => ResolvedTab(u) = "exceptions"
    BY BarOfSheet
  <1>4. DOMAIN <<>> = {}
    OBVIOUS
  <1>5. /\ DOMAIN hidden \subseteq {"when", "tab"}
        /\ "when" \in DOMAIN hidden <=> listing.kind \in {"dashboard", "calendar", "workforce"}
        /\ "when" \in DOMAIN hidden => hidden["when"] = f.when
    BY <1>3, <1>4
  <1>6. /\ DOMAIN boxes \subseteq {"types", "dismissed"}
        /\ "types" \in F => /\ Param(boxes, "types", {}) = Param(Repeated(form.types), "types", {})
                            /\ "dismissed" \in DOMAIN boxes <=> form.dismissed
    <2>1. CASE "types" \in F
      <3>1. /\ DOMAIN Dismissed(form) \subseteq {"dismissed"} /\ DOMAIN Repeated(form.types) \subseteq {"types"}
            /\ "dismissed" \in DOMAIN Dismissed(form) <=> form.dismissed
        <4>1. form.dismissed \/ ~form.dismissed
          OBVIOUS
        <4> QED
          BY <1>4, <4>1 DEF Dismissed, Repeated
      <3>2. boxes = Over(Repeated(form.types), Dismissed(form))
        BY <1>1, <2>1
      <3>3. DOMAIN boxes \subseteq {"types", "dismissed"} /\ ("dismissed" \in DOMAIN boxes <=> form.dismissed)
        BY <3>1, <3>2 DEF Over
      <3>4. Param(boxes, "types", {}) = IF "types" \in DOMAIN Repeated(form.types)
                THEN Repeated(form.types)["types"] ELSE Param(Dismissed(form), "types", {})
        BY <3>2, ParamOver
      <3>5. Param(boxes, "types", {}) = Param(Repeated(form.types), "types", {})
        BY <3>1, <3>4 DEF Param
      <3> QED
        BY <3>3, <3>5
    <2>2. CASE "types" \notin F
      BY <1>1, <1>4, <2>2
    <2> QED
      BY <2>1, <2>2
  <1>7. \A k, o : Param(url, k, o) = IF k \in DOMAIN G THEN G[k] ELSE Param(Over(hidden, boxes), k, o)
    BY <1>2, ParamOver
  <1>8. \A k, o : Param(Over(hidden, boxes), k, o) = IF k \in DOMAIN hidden THEN hidden[k] ELSE Param(boxes, k, o)
    BY ParamOver
  <1>9. /\ DOMAIN G = {k \in F \ {"types", "dismissed"} : form[k] # Blank}
        /\ \A k \in DOMAIN G : G[k] = form[k]
    BY DEF Given
  <1>10. DOMAIN G \subseteq {"from", "to", "select", "search"}
    <2>1. F \subseteq {"from", "to", "select", "search", "types", "dismissed"}
      BY <1>3
    <2> QED
      BY <1>9, <2>1
  <1>11. \A k, o : k \notin {"types", "dismissed"} => Param(boxes, k, o) = o
    BY <1>6 DEF Param
  <1>12. DOMAIN url = DOMAIN G \cup DOMAIN hidden \cup DOMAIN boxes
         /\ (\A k \in DOMAIN url : url[k] = IF k \in DOMAIN G THEN G[k] ELSE Over(hidden, boxes)[k])
    BY <1>2 DEF Over
  <1> HIDE DEF G, hidden
  <1>13. \A k \in {"from", "to", "select", "search"} \cap F : \A o :
             Param(url, k, o) = IF form[k] # Blank THEN form[k] ELSE o
    BY <1>5, <1>7, <1>8, <1>9, <1>11
  <1>14. Param(url, "page", 1) = 1
    BY <1>5, <1>7, <1>8, <1>10, <1>11
  <1>15. ASSUME listing.kind \in {"dashboard", "calendar", "workforce"}
         PROVE  "when" \in DOMAIN url /\ url.when = f.when
    <2>1. "when" \in DOMAIN hidden /\ "when" \notin DOMAIN G
      BY <1>5, <1>10, <1>15
    <2>2. Param(url, "when", 0) = f.when
      BY <1>5, <1>7, <1>8, <2>1
    <2>3. "when" \in DOMAIN url
      BY <1>12, <2>1
    <2> QED
      BY <2>2, <2>3 DEF Param
  <1>16. \A k \in {"when", "from", "to"} \cap DOMAIN url :
             \/ k \in F /\ url[k] = form[k] /\ form[k] # Blank
             \/ k = "when" /\ listing.kind \in {"dashboard", "calendar", "workforce"}
    BY <1>5, <1>6, <1>9, <1>12
  <1>17. ASSUME listing.kind = "issues"
         PROVE  /\ ResolvedTab(url) = "exceptions" /\ UNION Param(url, "types", {}) = form.types
                /\ ("dismissed" \in DOMAIN url <=> form.dismissed)
    <2>1. /\ F = {"from", "to", "select", "search", "types", "dismissed"} /\ hidden = [tab |-> "exceptions"]
          /\ \A u : Param(u, "tab", "none") = "exceptions" => ResolvedTab(u) = "exceptions"
      BY <1>3, <1>17 DEF hidden
    <2>2. DOMAIN hidden = {"tab"} /\ hidden["tab"] = "exceptions"
      BY <2>1
    <2>3. Param(url, "tab", "none") = "exceptions"
      BY <1>7, <1>8, <1>10, <2>2
    <2>4. Param(url, "types", {}) = Param(Repeated(form.types), "types", {})
      BY <1>6, <1>7, <1>8, <1>10, <2>1, <2>2
    <2>5. UNION Param(url, "types", {}) = form.types
      BY <2>4, TypesAgain
    <2>6. "dismissed" \in DOMAIN url <=> form.dismissed
      BY <1>6, <1>10, <1>12, <2>1, <2>2
    <2> QED
      BY <2>1, <2>3, <2>5, <2>6
  <1> QED
    BY <1>13, <1>14, <1>15, <1>16, <1>17

\* A form that is submitted leads to what it shows.
LEMMA SubmitKeeps ==
    ASSUME ListingInv, Loaded, "select" \in DOMAIN sheet.form, NEW form, DOMAIN form = DOMAIN sheet.form,
           FormOk(form), Go(Submitted(form), "form", AskedBy(form))
    PROVE  ListingInv'
  <1>1. Listening /\ SheetOk
    BY DEF ListingInv
  <1>2. PICK raw : raw = [k \in DOMAIN sheet.page.shown |->
                        CASE k = "page" -> 1
                          [] k = "from" /\ form.from = Blank -> FirstDate
                          [] k = "to" /\ form.to = Blank -> now
                          [] k \in DOMAIN form \ {"from", "to"} -> form[k]
                          [] k \in {"from", "to"} /\ form[k] # Blank -> form[k]
                          [] OTHER -> sheet.page.shown[k]]
    OBVIOUS
  <1>3. Effective(raw) = AskedBy(form)
    BY <1>2 DEF AskedBy
  <1>0. PICK f, url, S : f = sheet.page.shown /\ url = Submitted(form) /\ S = DOMAIN f
    OBVIOUS
  <1>4. LET F == DOMAIN form
        IN  /\ f = [k \in DOMAIN f |-> f[k]]
            /\ \/ /\ listing.kind \in {"dashboard", "calendar", "workforce"}
                  /\ S = (IF listing.kind = "workforce" THEN {"when", "select"}
                          ELSE {"when", "select", "search", "page"})
                  /\ F = (IF listing.kind = "workforce" THEN {"select"} ELSE {"select", "search"})
               \/ /\ listing.kind = "report" /\ S = {"from", "to", "select", "search", "page"}
                  /\ F = {"from", "to", "select", "search"}
               \/ /\ listing.kind = "issues" /\ f.tab = "exceptions"
                  /\ S = {"tab", "from", "to", "types", "dismissed", "select", "search", "page"}
                  /\ F = {"from", "to", "select", "search", "types", "dismissed"}
               \/ /\ listing.kind = "directory" /\ S = {"select", "search", "page"}
                  /\ F = {"select", "search"}
    BY <1>0, <1>1, BarOfSheet
  <1>5. /\ \A k \in {"from", "to", "select", "search"} \cap DOMAIN form : \A o :
              Param(url, k, o) = IF form[k] # Blank THEN form[k] ELSE o
        /\ Param(url, "page", 1) = 1
        /\ listing.kind \in {"dashboard", "calendar", "workforce"} =>
              "when" \in DOMAIN url /\ url.when = f.when
        /\ \A k \in {"when", "from", "to"} \cap DOMAIN url :
              \/ k \in DOMAIN form /\ url[k] = form[k] /\ form[k] # Blank
              \/ k = "when" /\ listing.kind \in {"dashboard", "calendar", "workforce"}
        /\ listing.kind = "issues" =>
              /\ ResolvedTab(url) = "exceptions" /\ UNION Param(url, "types", {}) = form.types
              /\ ("dismissed" \in DOMAIN url <=> form.dismissed)
    BY <1>0, <1>1, SubmittedHas
  <1>6. DatesReal(f) /\ (listing.kind = "dashboard" => f.when <= now) /\ listing.kind # "none"
    BY <1>0, <1>1 DEF SheetOk
  <1>7. /\ DOMAIN raw = S /\ raw = [k \in S |-> raw[k]]
        /\ "page" \in S => raw.page = 1
        /\ \A k \in {"select", "search", "types", "dismissed"} \cap DOMAIN form \cap S : raw[k] = form[k]
        /\ "from" \in S \cap DOMAIN form => raw.from = IF form.from = Blank THEN FirstDate ELSE form.from
        /\ "to" \in S \cap DOMAIN form => raw.to = IF form.to = Blank THEN now ELSE form.to
        /\ \A k \in {"when", "tab"} \cap S : k \notin DOMAIN form => raw[k] = f[k]
    <2>1. \A k \in S : raw[k] = CASE k = "page" -> 1
                          [] k = "from" /\ form.from = Blank -> FirstDate
                          [] k = "to" /\ form.to = Blank -> now
                          [] k \in DOMAIN form \ {"from", "to"} -> form[k]
                          [] k \in {"from", "to"} /\ form[k] # Blank -> form[k]
                          [] OTHER -> f[k]
      BY <1>0, <1>2
    <2>2. DOMAIN raw = S /\ raw = [k \in S |-> raw[k]]
      BY <1>0, <1>2
    <2>3. "page" \notin DOMAIN form
      BY <1>4
    <2>4. "page" \in S => raw.page = 1
      BY <2>1, <2>3
    <2>5. \A k \in {"select", "search", "types", "dismissed"} \cap DOMAIN form \cap S : raw[k] = form[k]
      BY <2>1
    <2>6. "from" \in S \cap DOMAIN form => raw.from = IF form.from = Blank THEN FirstDate ELSE form.from
      BY <2>1
    <2>7. "to" \in S \cap DOMAIN form => raw.to = IF form.to = Blank THEN now ELSE form.to
      BY <2>1
    <2>8. \A k \in {"when", "tab"} \cap S : k \notin DOMAIN form => raw[k] = f[k]
      BY <2>1
    <2> QED
      BY <2>2, <2>4, <2>5, <2>6, <2>7, <2>8
  <1>8. DatesReal(url)
    <2>1. ASSUME NEW k \in {"when", "from", "to"} \cap DOMAIN url PROVE url[k] \in Nat \ {0}
      <3>1. CASE k \in DOMAIN form /\ url[k] = form[k] /\ form[k] # Blank
        <4>1. k \in {"from", "to"}
          BY <1>4, <3>1
        <4> QED
          BY <3>1, <4>1 DEF FormOk, Blank
      <3>2. CASE k = "when" /\ listing.kind \in {"dashboard", "calendar", "workforce"}
        <4>1. "when" \in S
          BY <1>4, <3>2
        <4>2. f.when \in Nat \ {0}
          BY <1>0, <1>6, <4>1 DEF DatesReal
        <4> QED
          BY <1>5, <3>2, <4>2
      <3> QED
        BY <1>5, <3>1, <3>2
    <2> QED
      BY <2>1 DEF DatesReal
  <1>9. ShownFields(ResolvedTab(url)) = S
    BY <1>4, <1>5 DEF ShownFields
  <1>10. UrlShows(url, raw)
    <2>1. \A k \in {"select", "search"} \cap S : raw[k] = Param(url, k, Blank)
      BY <1>4, <1>5, <1>7
    <2>2. "page" \in S => raw.page = Param(url, "page", 1)
      BY <1>5, <1>7
    <2>3. "types" \in S => raw.types = UNION Param(url, "types", {})
      BY <1>4, <1>5, <1>7
    <2>4. "types" \in S => raw.dismissed = ("dismissed" \in DOMAIN url)
      <3>1. ASSUME "types" \in S
            PROVE  raw.dismissed = form.dismissed /\ form.dismissed \in BOOLEAN
                   /\ ("dismissed" \in DOMAIN url <=> form.dismissed)
        BY <1>4, <1>5, <1>7, <3>1 DEF FormOk
      <3>2. ASSUME "types" \in S, form.dismissed = TRUE PROVE ("dismissed" \in DOMAIN url) = TRUE
        BY <3>1, <3>2
      <3>3. ASSUME "types" \in S, form.dismissed = FALSE PROVE ("dismissed" \in DOMAIN url) = FALSE
        BY <3>1, <3>3
      <3>4. ASSUME "types" \in S PROVE form.dismissed = TRUE \/ form.dismissed = FALSE
        BY <3>1, <3>4, Zenon
      <3> QED
        BY ONLY <3>1, <3>2, <3>3, <3>4, Zenon
    <2>5. "tab" \in S => raw.tab = ResolvedTab(url)
      BY <1>4, <1>5, <1>7
    <2>6. "status" \notin S
      BY <1>4
    <2> QED
      BY <1>7, <2>1, <2>2, <2>3, <2>4, <2>5, <2>6 DEF UrlShows
  <1>11. DatesShow(url, raw)
    <2>1. "when" \in S => raw.when = f.when /\ Param(url, "when", now) = f.when
      BY <1>4, <1>5, <1>7 DEF Param
    <2>2. "from" \in S => /\ raw.from = Param(url, "from", FirstDate) /\ raw.to = Param(url, "to", now)
      BY <1>4, <1>5, <1>7
    <2> QED
      BY <1>6, <1>7, <2>1, <2>2 DEF DatesShow
  <1>12. StandsFor(url, raw)
    BY <1>7, <1>9, <1>10, <1>11 DEF StandsFor
  <1> QED
    BY <1>0, <1>3, <1>6, <1>8, <1>12, GoKeeps

\* A page with another form, or another file exported, is the page that it was.
LEMMA SheetStays ==
    ASSUME ListingInv, Loaded, UNCHANGED <<listing, now, asked>>,
           DOMAIN sheet' = SheetFields, sheet'.url = sheet.url, sheet'.page = sheet.page, sheet'.by = sheet.by,
           sheet'.total = sheet.total, sheet'.listed = sheet.listed,
           DOMAIN sheet'.form = DOMAIN sheet.form, FormOk(sheet'.form),
           sheet'.exported # None => sheet'.exported = [sheet.page.shown EXCEPT !.page = 1]
    PROVE  ListingInv'
  <1>1. Listening /\ SheetOk
    BY DEF ListingInv
  <1>2. PICK f, url, p : f = sheet.page.shown /\ url = sheet.url /\ p = sheet.page
    OBVIOUS
  <1>3. UrlShows(url, p.shown) /\ Offering(url, p) /\ f = p.shown
    BY <1>1, <1>2 DEF SheetOk
  <1>4. ShownFields(ResolvedTab(url))' = ShownFields(ResolvedTab(url)) /\ UrlShows(url, p.shown)' /\ Offering(url, p)'
    BY <1>3, OfTheSameDay
  <1>5. f = [k \in ShownFields(ResolvedTab(url))' |-> f[k]]
    <2> DEFINE S == ShownFields(ResolvedTab(url))
    <2>1. S' = S /\ f = [k \in S |-> f[k]]
      BY <1>1, <1>2, <1>4 DEF SheetOk
    <2> HIDE DEF S
    <2>2. f = [k \in S' |-> f[k]]
      BY ONLY <2>1
    <2> QED
      BY <2>2 DEF S
  <1>6. /\ f = [k \in ShownFields(ResolvedTab(sheet.url))' |-> f[k]] /\ UrlShows(sheet.url, f)'
        /\ Offering(sheet.url, p)'
    BY <1>2, <1>3, <1>4, <1>5
  <1>7. sheet'.page = p /\ sheet'.page.shown = f /\ sheet'.url = url
    BY <1>2
  <1>8. /\ listing.kind # "none" /\ DatesReal(url) /\ DatesReal(f) /\ (listing.kind = "dashboard" => f.when <= now)
        /\ Effective(f) = asked /\ sheet.by # "link" /\ DOMAIN sheet.form = DOMAIN p.bar.form
        /\ Paged(f) => sheet.listed = Cardinality(OnPage(sheet.total, f.page))
    BY <1>1, <1>2 DEF SheetOk
  <1>9. SheetOk'
    <2>1. /\ listing'.kind # "none" /\ DatesReal(sheet'.url) /\ DatesReal(f)
          /\ listing'.kind = "dashboard" => f.when <= now'
      BY <1>7, <1>8
    <2>2. Effective(f) = asked' /\ sheet'.by # "link" /\ DOMAIN sheet'.form = DOMAIN p.bar.form /\ FormOk(sheet'.form)
      BY <1>8
    <2>3. Paged(f) => sheet'.listed = Cardinality(OnPage(sheet'.total, f.page))
      BY <1>8
    <2>4. sheet'.exported # None => sheet'.exported = [f EXCEPT !.page = 1]
      BY <1>2
    <2>5. DOMAIN sheet' = SheetFields
      OBVIOUS
    <2> QED
      BY ONLY <1>6, <1>7, <2>1, <2>2, <2>3, <2>4, <2>5 DEF SheetOk
  <1>10. Listening'
    BY <1>1 DEF Listening
  <1> QED
    BY <1>9, <1>10 DEF ListingInv

\* A bar with a search has a select.
LEMMA SearchHasSelect ==
    ASSUME Listening, SheetOk, "search" \in DOMAIN sheet.form
    PROVE  "select" \in DOMAIN sheet.form
  <1> DEFINE f == sheet.page.shown
             bar == sheet.page.bar
  <1>1. listing.kind # "none" /\ Offering(sheet.url, sheet.page) /\ DOMAIN sheet.form = DOMAIN bar.form
    BY DEF SheetOk
  <1>2. listing.kind \in {"none", "dashboard", "calendar", "report", "issues", "directory", "workforce"}
    BY ListingsAssumption DEF Listening
  <1>3. \/ bar \in {DashboardBar(f), ReportBar(f), DirectoryBar(f), EmployeeSelect(f), NoBar}
        \/ bar = ExceptionBar(f, sheet.page.refused)
    <2>1. CASE listing.kind = "dashboard"
      BY <1>1, <2>1 DEF Offering
    <2>2. CASE listing.kind = "calendar"
      BY <1>1, <2>2 DEF Offering, CalendarBar
    <2>3. CASE listing.kind = "report"
      BY <1>1, <2>3 DEF Offering
    <2>4. CASE listing.kind = "issues"
      BY <1>1, <2>4 DEF Offering
    <2>5. CASE listing.kind = "directory"
      BY <1>1, <2>5 DEF Offering
    <2>6. CASE listing.kind = "workforce"
      BY <1>1, <2>6 DEF Offering
    <2> QED
      BY <1>1, <1>2, <2>1, <2>2, <2>3, <2>4, <2>5, <2>6
  <1>4. DOMAIN NoBar.form = {}
    BY DEF NoBar
  <1>5. \A r : "select" \in DOMAIN ExceptionBar(f, r).form
    BY DEF ExceptionBar
  <1>6. /\ "select" \in DOMAIN DashboardBar(f).form /\ "select" \in DOMAIN ReportBar(f).form
        /\ "select" \in DOMAIN DirectoryBar(f).form /\ "select" \in DOMAIN EmployeeSelect(f).form
    BY DEF DashboardBar, ReportBar, DirectoryBar, EmployeeSelect
  <1> QED
    BY <1>1, <1>3, <1>4, <1>5, <1>6

\* Apply submits the form as it is.
LEMMA ApplyKeeps ==
    ASSUME ListingInv, Apply
    PROVE  ListingInv'
  <1>1. Listening /\ SheetOk /\ Loaded /\ "search" \in DOMAIN sheet.form
    BY DEF ListingInv, Apply
  <1>2. PICK form : form = sheet.form
    OBVIOUS
  <1>3. FormOk(form) /\ Go(Submitted(form), "form", AskedBy(form)) /\ DOMAIN form = DOMAIN sheet.form
    BY <1>1, <1>2 DEF SheetOk, Apply
  <1>4. "select" \in DOMAIN sheet.form
    BY <1>1, SearchHasSelect
  <1> QED
    BY <1>1, <1>3, <1>4, SubmitKeeps

\* A select that is changed submits the form, or is only changed.
LEMMA ChangeSelectKeeps ==
    ASSUME ListingInv, ChangeSelect
    PROVE  ListingInv'
  <1>1. Listening /\ SheetOk /\ Loaded /\ "select" \in DOMAIN sheet.form
    BY DEF ListingInv, ChangeSelect
  <1>2. PICK option :
            LET form == [sheet.form EXCEPT !.select = option]
            IN  IF Valid(form) THEN Go(Submitted(form), "form", AskedBy(form))
                ELSE /\ sheet' = [sheet EXCEPT !.form = form]
                     /\ UNCHANGED <<listing, now, held, asked>>
    BY Zenon DEF ChangeSelect
  <1>3. PICK form : form = [sheet.form EXCEPT !.select = option]
    OBVIOUS
  <1>4. \/ Go(Submitted(form), "form", AskedBy(form))
        \/ sheet' = [sheet EXCEPT !.form = form] /\ UNCHANGED <<listing, now, held, asked>>
    BY <1>2, <1>3, Zenon
  <1>5. DOMAIN form = DOMAIN sheet.form /\ FormOk(form)
    <2>1. DOMAIN form = DOMAIN sheet.form /\ \A k \in DOMAIN form : k # "select" => form[k] = sheet.form[k]
      BY <1>3
    <2>2. FormOk(sheet.form)
      BY <1>1 DEF SheetOk
    <2> QED
      BY <2>1, <2>2 DEF FormOk
  <1>6. CASE Go(Submitted(form), "form", AskedBy(form))
    BY <1>1, <1>5, <1>6, SubmitKeeps
  <1>7. CASE sheet' = [sheet EXCEPT !.form = form] /\ UNCHANGED <<listing, now, held, asked>>
    <2>1. DOMAIN sheet = SheetFields /\ (sheet.exported # None => sheet.exported = [sheet.page.shown EXCEPT !.page = 1])
      BY <1>1 DEF SheetOk
    <2>2. /\ DOMAIN sheet' = SheetFields /\ sheet'.url = sheet.url /\ sheet'.page = sheet.page /\ sheet'.by = sheet.by
          /\ sheet'.total = sheet.total /\ sheet'.listed = sheet.listed /\ sheet'.form = form
          /\ sheet'.exported = sheet.exported
      BY ONLY <1>7, <2>1 DEF SheetFields
    <2> QED
      BY <1>1, <1>5, <1>7, <2>1, <2>2, SheetStays
  <1> QED
    BY <1>4, <1>6, <1>7

\* What is typed stays in the form.
LEMMA TypeKeeps ==
    ASSUME ListingInv, Type
    PROVE  ListingInv'
  <1>1. Listening /\ SheetOk /\ Loaded /\ UNCHANGED <<listing, now, asked>>
    BY DEF ListingInv, Type
  <1>2. PICK k \in (DOMAIN listing.entered \cap DOMAIN sheet.form) \ {"select"} :
            \E value \in listing.entered[k] :
               /\ value # sheet.form[k] /\ Cardinality(sheet.typed \cup {k}) <= listing.typed
               /\ sheet' = [sheet EXCEPT !.form[k] = value, !.typed = @ \cup {k}]
    BY Zenon DEF Type
  <1>3. PICK value \in listing.entered[k] : sheet' = [sheet EXCEPT !.form[k] = value, !.typed = @ \cup {k}]
    BY <1>2, Zenon
  <1>4. PICK form, typed : form = [sheet.form EXCEPT ![k] = value] /\ typed = sheet.typed \cup {k}
    OBVIOUS
  <1>5. DOMAIN form = DOMAIN sheet.form /\ FormOk(form)
    <2>1. DOMAIN form = DOMAIN sheet.form /\ \A j \in DOMAIN form : form[j] = IF j = k THEN value ELSE sheet.form[j]
      BY <1>4
    <2>2. FormOk(sheet.form)
      BY <1>1 DEF SheetOk
    <2>3. (k \in {"from", "to"} => value \in Nat) /\ (k = "dismissed" => value \in BOOLEAN)
      BY <1>1, <1>2, <1>3, ListingsAssumption DEF Listening
    <2>4. \A j \in {"from", "to"} \cap DOMAIN form : form[j] \in Nat
      BY <2>1, <2>2, <2>3 DEF FormOk
    <2>5. ASSUME "dismissed" \in DOMAIN form PROVE form.dismissed \in BOOLEAN
      <3>1. form["dismissed"] = IF "dismissed" = k THEN value ELSE sheet.form["dismissed"]
        BY <2>1, <2>5
      <3>2. sheet.form["dismissed"] \in BOOLEAN
        BY <2>1, <2>2, <2>5 DEF FormOk
      <3> QED
        BY ONLY <2>3, <3>1, <3>2, Zenon
    <2> QED
      BY <2>1, <2>4, <2>5 DEF FormOk
  <1>6. DOMAIN sheet = SheetFields /\ (sheet.exported # None => sheet.exported = [sheet.page.shown EXCEPT !.page = 1])
    BY <1>1 DEF SheetOk
  <1>7. sheet' = [sheet EXCEPT !.form = form, !.typed = typed]
    <2>1. "form" \in DOMAIN sheet
      BY <1>6 DEF SheetFields
    <2> QED
      BY ONLY <1>3, <1>4, <2>1
  <1>8. /\ DOMAIN sheet' = SheetFields /\ sheet'.url = sheet.url /\ sheet'.page = sheet.page /\ sheet'.by = sheet.by
        /\ sheet'.total = sheet.total /\ sheet'.listed = sheet.listed /\ sheet'.form = form
        /\ sheet'.exported = sheet.exported
    BY ONLY <1>6, <1>7 DEF SheetFields
  <1> QED
    BY <1>1, <1>5, <1>6, <1>8, SheetStays

\* The file has the filters that are shown.
LEMMA ExportKeeps ==
    ASSUME ListingInv, Export
    PROVE  ListingInv'
  <1>1. Listening /\ SheetOk /\ Loaded /\ UNCHANGED <<listing, now, asked>> /\ listing.kind = "report" /\ ~sheet.page.refused
    BY DEF ListingInv, Export
  <1>2. PICK f, params : f = sheet.page.shown /\ params = Given(f, {"from", "to", "select", "search"})
    OBVIOUS
  <1>3. PICK file : file = ExportServed(params)
    OBVIOUS
  <1>4. sheet' = [sheet EXCEPT !.exported = file]
    BY <1>2, <1>3 DEF Export
  <1>5. DOMAIN sheet = SheetFields /\ FormOk(sheet.form)
    BY <1>1 DEF SheetOk
  <1>6. /\ DOMAIN sheet' = SheetFields /\ sheet'.url = sheet.url /\ sheet'.page = sheet.page /\ sheet'.by = sheet.by
        /\ sheet'.total = sheet.total /\ sheet'.listed = sheet.listed /\ sheet'.form = sheet.form
        /\ sheet'.exported = file
    BY ONLY <1>4, <1>5 DEF SheetFields
  <1>7. /\ f = [k \in {"from", "to", "select", "search", "page"} |-> f[k]]
        /\ f.from # Blank /\ f.to # Blank /\ ~RangeRefused(f)
    <2>1. f = [k \in ShownFields(ResolvedTab(sheet.url)) |-> f[k]] /\ DatesReal(f) /\ Offering(sheet.url, sheet.page)
      BY <1>1, <1>2 DEF SheetOk
    <2>2. ShownFields(ResolvedTab(sheet.url)) = {"from", "to", "select", "search", "page"}
      BY <1>1 DEF ShownFields
    <2>3. ~RangeRefused(f)
      BY <1>1, <1>2, <2>1 DEF Offering
    <2>4. f = [k \in {"from", "to", "select", "search", "page"} |-> f[k]]
      BY <2>1, <2>2
    <2> QED
      BY <2>1, <2>3, <2>4 DEF DatesReal, Blank
  <1>8. /\ {"from", "to"} \subseteq DOMAIN params /\ params.from = f.from /\ params.to = f.to
        /\ \A k, o : Param(params, k, o) =
                        IF k \in {"from", "to", "select", "search"} /\ f[k] # Blank THEN f[k] ELSE o
    <2>1. DOMAIN params = {k \in {"from", "to", "select", "search"} : f[k] # Blank}
          /\ \A k \in DOMAIN params : params[k] = f[k]
      BY <1>2 DEF Given
    <2> QED
      BY <1>2, <1>7, <2>1, ParamGiven
  <1>9. file = [f EXCEPT !.page = 1]
    <2> DEFINE own == [from |-> params.from, to |-> params.to]
    <2>1. ~RangeRefused(params)
      BY <1>7, <1>8 DEF RangeRefused
    <2>2. file = Over(own, Narrowed(params))
      BY <1>3, <1>8, <2>1 DEF ExportServed
    <2>3. DOMAIN own = {"from", "to"} /\ own.from = f.from /\ own.to = f.to
      BY <1>8
    <2> HIDE DEF own
    <2>5. /\ file = [k \in {"from", "to"} \cup {"select", "search", "page"} |-> file[k]]
          /\ \A k \in {"from", "to"} : file[k] = own[k]
          /\ file.select = Param(params, "select", Blank) /\ file.search = Param(params, "search", Blank)
          /\ file.page = Param(params, "page", 1)
      <3>1. DOMAIN Narrowed(params) = {"select", "search", "page"}
        BY NarrowedIs
      <3>2. DOMAIN file = {"from", "to"} \cup {"select", "search", "page"} /\ file = [k \in DOMAIN file |-> file[k]]
            /\ (\A k \in DOMAIN file : file[k] = IF k \in DOMAIN own THEN own[k] ELSE Narrowed(params)[k])
        BY <2>2, <2>3, <3>1 DEF Over
      <3>3. /\ file.select = Narrowed(params).select /\ file.search = Narrowed(params).search
            /\ file.page = Narrowed(params).page /\ \A k \in {"from", "to"} : file[k] = own[k]
        BY <2>3, <3>2
      <3> QED
        BY <3>2, <3>3, NarrowedIs
    <2>6. PICK g : g = [f EXCEPT !.page = 1]
      OBVIOUS
    <2>7. g = [k \in {"from", "to", "select", "search", "page"} |-> g[k]] /\ g.page = 1
          /\ \A k \in {"from", "to", "select", "search"} : g[k] = f[k]
      BY <1>7, <2>6
    <2>8. file = [k \in {"from", "to", "select", "search", "page"} |-> file[k]]
      <3>1. {"from", "to"} \cup {"select", "search", "page"} = {"from", "to", "select", "search", "page"}
        OBVIOUS
      <3> QED
        BY <2>5, <3>1
    <2>9. \A k \in {"from", "to", "select", "search", "page"} : file[k] = g[k]
      <3>1. file.from = g.from /\ file.to = g.to
        BY <2>3, <2>5, <2>7
      <3>2. file.page = g.page
        <4>1. Param(params, "page", 1) = 1
          BY <1>8
        <4> QED
          BY <2>5, <2>7, <4>1
      <3>3. file.select = g.select /\ file.search = g.search
        <4>1. Param(params, "select", Blank) = f.select /\ Param(params, "search", Blank) = f.search
          BY <1>8
        <4> QED
          BY <2>5, <2>7, <4>1
      <3> QED
        BY <3>1, <3>2, <3>3
    <2> QED
      BY <2>6, <2>7, <2>8, <2>9, SameFunction
  <1> QED
    BY <1>1, <1>2, <1>5, <1>6, <1>9, SheetStays

\* Reset widens to everything of the day or month that is shown.
LEMMA ResetKeeps ==
    ASSUME ListingInv, Reset
    PROVE  ListingInv'
  <1>1. Listening /\ SheetOk /\ Loaded /\ "search" \in DOMAIN sheet.form
    BY DEF ListingInv, Reset
  <1>2. PICK wanted : wanted = [k \in DOMAIN sheet.page.shown |->
                         CASE k \in {"select", "search"} -> Blank
                           [] k = "page" -> 1
                           [] k = "from" -> FirstDate
                           [] k = "to" -> now
                           [] k = "types" -> AllTypes
                           [] k = "dismissed" -> FALSE
                           [] OTHER -> sheet.page.shown[k]]
    OBVIOUS
  <1>3. Go(sheet.page.bar.reset, "form", wanted)
    BY <1>2 DEF Reset
  <1>4. PICK f, url, S : f = sheet.page.shown /\ url = sheet.page.bar.reset /\ S = DOMAIN f
    OBVIOUS
  <1>5. \/ /\ listing.kind \in {"dashboard", "calendar", "workforce"}
           /\ S \subseteq {"when", "select", "search", "page"} /\ "when" \in S
           /\ url = [when |-> f.when]
        \/ /\ listing.kind = "report" /\ S = {"from", "to", "select", "search", "page"} /\ url = <<>>
        \/ /\ listing.kind = "issues" /\ f.tab = "exceptions"
           /\ S = {"tab", "from", "to", "types", "dismissed", "select", "search", "page"}
           /\ url = [tab |-> "exceptions"]
           /\ \A u : Param(u, "tab", "none") = "exceptions" => ResolvedTab(u) = "exceptions"
        \/ listing.kind = "directory" /\ S = {"select", "search", "page"} /\ url = <<>>
    <2>1. "select" \in DOMAIN sheet.form
      BY <1>1, SearchHasSelect
    <2> QED
      BY <1>1, <1>4, <2>1, BarOfSheet
  <1>6. PICK raw : raw = [k \in S |-> IF k = "types" THEN {} ELSE wanted[k]]
    OBVIOUS
  <1>7. DOMAIN wanted = S /\ wanted = [k \in S |-> wanted[k]] /\ DOMAIN raw = S /\ raw = [k \in S |-> raw[k]]
    BY <1>2, <1>4, <1>6
  <1>8. /\ \A k \in {"select", "search"} \cap S : raw[k] = Blank
        /\ "page" \in S => raw.page = 1
        /\ "from" \in S => raw.from = FirstDate
        /\ "to" \in S => raw.to = now
        /\ "types" \in S => raw.types = {} /\ wanted.types = AllTypes
        /\ \A k \in {"when", "tab"} \cap S : raw[k] = f[k]
        /\ \A k \in S \ {"types"} : raw[k] = wanted[k]
    <2>1. \A k \in S : wanted[k] =
                         CASE k \in {"select", "search"} -> Blank
                           [] k = "page" -> 1
                           [] k = "from" -> FirstDate
                           [] k = "to" -> now
                           [] k = "types" -> AllTypes
                           [] k = "dismissed" -> FALSE
                           [] OTHER -> f[k]
      BY <1>2, <1>4
    <2>2. \A k \in S \ {"types"} : raw[k] = wanted[k]
      BY <1>6
    <2>3. "types" \in S => raw.types = {}
      BY <1>6
    <2>4. \A k \in {"select", "search"} \cap S : wanted[k] = Blank
      BY <2>1
    <2>5. /\ "page" \in S => wanted.page = 1
          /\ "from" \in S => wanted.from = FirstDate
          /\ "to" \in S => wanted.to = now
          /\ "types" \in S => wanted.types = AllTypes
      BY <2>1
    <2>6. \A k \in {"when", "tab"} \cap S : wanted[k] = f[k]
      BY <2>1
    <2> QED
      BY <2>2, <2>3, <2>4, <2>5, <2>6
  <1>9. "dismissed" \in S => raw.dismissed = FALSE
    <2>1. ASSUME "dismissed" \in S PROVE raw.dismissed = FALSE
      <3>1. raw = [k \in S |-> IF k = "types" THEN {} ELSE wanted[k]] /\ wanted.dismissed = FALSE
        <4>1. wanted.dismissed = FALSE
          BY <1>2, <1>4, <2>1
        <4> QED
          BY <1>6, <4>1
      <3>2. raw.dismissed = wanted.dismissed
        BY <1>8, <2>1
      <3> QED
        BY ONLY <3>1, <3>2, Zenon
    <2> QED
      BY <2>1
  <1>10. Effective(raw) = wanted
    <2>1. CASE "types" \in S
      <3>1. Effective(raw) = [raw EXCEPT !.types = AllTypes]
        BY <1>7, <1>8, <2>1 DEF Effective
      <3>2. PICK g : g = [raw EXCEPT !.types = AllTypes]
        OBVIOUS
      <3>3. g = [k \in S |-> g[k]] /\ g.types = AllTypes /\ \A k \in S \ {"types"} : g[k] = raw[k]
        BY <1>7, <2>1, <3>2
      <3>4. \A k \in S : g[k] = wanted[k]
        BY <1>8, <3>3
      <3> QED
        BY <1>7, <3>1, <3>2, <3>3, <3>4, SameFunction
    <2>2. CASE "types" \notin S
      <3>1. Effective(raw) = raw
        BY <1>7, <2>2 DEF Effective
      <3>2. \A k \in S : raw[k] = wanted[k]
        BY <1>8, <2>2
      <3> QED
        BY <1>7, <3>1, <3>2, SameFunction
    <2> QED
      BY <2>1, <2>2
  <1>11. DOMAIN <<>> = {}
    OBVIOUS
  <1>12. /\ DOMAIN url \subseteq {"when", "tab"}
         /\ "when" \in DOMAIN url => url.when = f.when /\ "when" \in S
         /\ "when" \in S => "when" \in DOMAIN url
    BY <1>5, <1>11
  <1>13. DatesReal(f) /\ (listing.kind = "dashboard" => f.when <= now) /\ listing.kind # "none"
         /\ f = [k \in ShownFields(ResolvedTab(sheet.url)) |-> f[k]]
    BY <1>1, <1>4 DEF SheetOk
  <1>14. DatesReal(url)
    <2>1. \A k \in {"when", "from", "to"} \cap DOMAIN url : k = "when"
      BY <1>12
    <2> QED
      BY <1>4, <1>12, <1>13, <2>1 DEF DatesReal
  <1>15. \A k, o : k \notin {"when", "tab"} => Param(url, k, o) = o
    BY <1>12 DEF Param
  <1>16. listing.kind = "issues" => ResolvedTab(url) = "exceptions" /\ f.tab = "exceptions"
    <2>1. ASSUME listing.kind = "issues" PROVE Param(url, "tab", "none") = "exceptions"
      BY <1>5, <2>1 DEF Param
    <2> QED
      BY <1>5, <2>1
  <1>17. ShownFields(ResolvedTab(url)) = S
    <2>1. S = ShownFields(ResolvedTab(sheet.url))
      BY <1>4, <1>13
    <2>2. CASE listing.kind = "issues"
      BY <1>5, <1>16, <2>2 DEF ShownFields
    <2>3. CASE listing.kind # "issues"
      BY <1>5, <2>1, <2>3 DEF ShownFields
    <2> QED
      BY <2>2, <2>3
  <1>18. UrlShows(url, raw)
    <2>1. \A k \in {"select", "search"} \cap S : raw[k] = Param(url, k, Blank)
      BY <1>8, <1>15
    <2>2. "page" \in S => raw.page = Param(url, "page", 1)
      BY <1>8, <1>15
    <2>3. "types" \in S => raw.types = UNION Param(url, "types", {})
      BY <1>8, <1>15
    <2>4. "types" \in S => raw.dismissed = ("dismissed" \in DOMAIN url)
      <3>1. ("dismissed" \in DOMAIN url) = FALSE
        BY <1>12
      <3>2. "types" \in S => "dismissed" \in S
        BY <1>5
      <3> QED
        BY ONLY <1>9, <3>1, <3>2, Zenon
    <2>5. "tab" \in S => raw.tab = ResolvedTab(url)
      BY <1>5, <1>8, <1>16
    <2>6. "status" \notin S
      BY <1>5
    <2> QED
      BY <1>7, <2>1, <2>2, <2>3, <2>4, <2>5, <2>6 DEF UrlShows
  <1>19. DatesShow(url, raw)
    <2>1. "when" \in S => raw.when = f.when /\ Param(url, "when", now) = f.when
      BY <1>8, <1>12 DEF Param
    <2>2. "from" \in S => raw.from = Param(url, "from", FirstDate) /\ raw.to = Param(url, "to", now)
      BY <1>5, <1>8, <1>15
    <2> QED
      BY <1>7, <1>13, <2>1, <2>2 DEF DatesShow
  <1>20. StandsFor(url, raw)
    BY <1>7, <1>17, <1>18, <1>19 DEF StandsFor
  <1> QED
    BY <1>3, <1>4, <1>10, <1>13, <1>14, <1>20, GoKeeps

\* A refresh: the dates that the address leaves open are today's.
LEMMA RefreshListingKeeps ==
    ASSUME ListingInv, RefreshListing
    PROVE  ListingInv'
  <1>1. Listening /\ SheetOk /\ Loaded /\ UNCHANGED <<listing, now>>
    BY DEF ListingInv, RefreshListing
  <1>2. PICK f, url, p, g, via, S :
            /\ f = sheet.page.shown /\ url = sheet.url /\ p = PageOf(url) /\ g = p.shown /\ via = sheet.by
            /\ S = ShownFields(ResolvedTab(url))
    OBVIOUS
  <1>3. /\ f = [k \in S |-> f[k]] /\ UrlShows(url, f) /\ DatesReal(url) /\ DatesReal(f)
        /\ listing.kind # "none" /\ (listing.kind = "dashboard" => f.when <= now)
        /\ via # "link" /\ Effective(f) = asked
    BY <1>1, <1>2 DEF SheetOk
  <1>4. sheet' = [Rendered(url, "link") EXCEPT !.by = via]
    BY <1>2, Zenon DEF RefreshListing
  <1>5. sheet'.page.shown = g
    <2>1. PICK by, form, typed, total, listed :
              Rendered(url, "link") = [url |-> url, page |-> p, by |-> by, form |-> form, typed |-> typed,
                                       total |-> total, listed |-> listed, exported |-> None]
      BY <1>2, Zenon DEF Rendered
    <2>2. sheet'.page = p
      BY ONLY <1>4, <2>1
    <2> QED
      BY <1>2, <2>2
  <1>6. asked' = [k \in DOMAIN asked |-> IF Open(k) THEN g[k] ELSE asked[k]]
    <2>1. asked' = [k \in DOMAIN asked |-> IF Open(k) THEN sheet'.page.shown[k] ELSE asked[k]]
      BY Zenon DEF RefreshListing
    <2> QED
      BY ONLY <1>5, <2>1
  <1>7. StandsFor(url, g)
    BY <1>1, <1>2, <1>3, PageShows DEF Showable
  <1>8. DOMAIN f = S /\ DOMAIN g = S /\ g = [k \in S |-> g[k]] /\ UrlShows(url, g) /\ DatesShow(url, g)
    BY <1>2, <1>3, <1>7 DEF StandsFor
  <1>9. /\ S \subseteq {"tab", "when", "from", "to", "types", "dismissed", "status", "select", "search", "page"}
        /\ ("from" \in S <=> "to" \in S) /\ ("types" \in S <=> "dismissed" \in S)
    BY <1>1, <1>2, <1>3, ListingsAssumption DEF Listening, ShownFields
  <1>10. \A k \in {"select", "search", "page", "types", "dismissed", "tab", "status"} \cap S : f[k] = g[k]
    <2>1. \A k \in {"select", "search", "page", "tab", "status"} \cap S : f[k] = g[k]
      BY <1>3, <1>8 DEF UrlShows
    <2>2. "types" \in S => f.types = g.types
      BY <1>3, <1>8 DEF UrlShows
    <2>3. "types" \in S => f.dismissed = g.dismissed
      <3>1. "types" \in S => /\ f.dismissed = ("dismissed" \in DOMAIN url)
                              /\ g.dismissed = ("dismissed" \in DOMAIN url)
        BY ONLY <1>3, <1>8, Zenon DEF UrlShows
      <3> QED
        BY ONLY <3>1, Zenon
    <2> QED
      BY <1>9, <2>1, <2>2, <2>3
  <1>11. asked = [k \in S |-> asked[k]] /\ DOMAIN asked = S
         /\ (\A k \in S \ {"types"} : asked[k] = f[k])
         /\ ("types" \in S => asked.types = IF f.types = {} THEN AllTypes ELSE f.types)
    <2>1. CASE "types" \in S /\ f.types = {}
      <3>1. asked = [f EXCEPT !.types = AllTypes]
        BY <1>3, <1>8, <2>1 DEF Effective
      <3> QED
        BY <1>3, <1>8, <2>1, <3>1
    <2>2. CASE ~("types" \in S /\ f.types = {})
      <3>1. asked = f
        BY <1>3, <1>8, <2>2 DEF Effective
      <3> QED
        BY <1>3, <1>8, <2>2, <3>1
    <2> QED
      BY <2>1, <2>2
  <1>12. \A k \in {"when", "from", "to"} \cap S : ~Open(k) => g[k] = f[k]
    <2>1. ASSUME NEW k \in {"when", "from", "to"} \cap S, ~Open(k) PROVE k \in DOMAIN url /\ url[k] = f[k]
      <3>1. k \in DOMAIN url /\ url[k] = asked[k]
        BY <1>2, <2>1 DEF Open
      <3>2. k # "types"
        BY <2>1
      <3> QED
        BY <1>11, <2>1, <3>1, <3>2
    <2>2. ASSUME "when" \in S, ~Open("when") PROVE g.when = f.when
      <3>1. Param(url, "when", now) = f.when
        BY <2>1, <2>2 DEF Param
      <3> QED
        BY <1>3, <1>8, <2>2, <3>1 DEF DatesShow
    <2>3. ASSUME "from" \in S, ~Open("from") PROVE g.from = f.from
      <3>1. Param(url, "from", FirstDate) = f.from
        BY <2>1, <2>3 DEF Param
      <3> QED
        BY <1>8, <2>3, <3>1 DEF DatesShow
    <2>4. ASSUME "to" \in S, ~Open("to") PROVE g.to = f.to
      <3>1. Param(url, "to", now) = f.to
        BY <2>1, <2>4 DEF Param
      <3> QED
        BY <1>8, <1>9, <2>4, <3>1 DEF DatesShow
    <2> QED
      BY <2>2, <2>3, <2>4
  <1>13. asked' = [k \in S |-> asked'[k]] /\ \A k \in S : asked'[k] = IF Open(k) THEN g[k] ELSE asked[k]
    BY <1>6, <1>11
  <1>14. \A k \in S : k # "types" => asked'[k] = g[k]
    <2>1. \A k \in S : k \notin {"when", "from", "to"} => ~Open(k)
      BY DEF Open
    <2> QED
      BY <1>9, <1>10, <1>11, <1>12, <1>13, <2>1
  <1>15. "types" \in S => asked'.types = IF g.types = {} THEN AllTypes ELSE g.types
    <2>1. ~Open("types")
      BY DEF Open
    <2> QED
      BY <1>10, <1>11, <1>13, <2>1
  <1>16. PICK a : a = asked'
    OBVIOUS
  <1>17. a = [k \in S |-> a[k]] /\ (\A k \in S : k # "types" => a[k] = g[k])
         /\ ("types" \in S => a.types = IF g.types = {} THEN AllTypes ELSE g.types)
    BY <1>13, <1>14, <1>15, <1>16
  <1>18. Effective(g) = a
    <2>1. CASE "types" \in S /\ g.types = {}
      <3>1. PICK e : e = [g EXCEPT !.types = AllTypes]
        OBVIOUS
      <3>2. e = [k \in S |-> e[k]] /\ e.types = AllTypes /\ \A k \in S \ {"types"} : e[k] = g[k]
        BY <1>8, <2>1, <3>1
      <3>3. \A k \in S : e[k] = a[k]
        BY <1>17, <2>1, <3>2
      <3>4. Effective(g) = e
        BY <1>8, <2>1, <3>1 DEF Effective
      <3> QED
        BY <1>17, <3>2, <3>3, <3>4, SameFunction
    <2>2. CASE ~("types" \in S /\ g.types = {})
      <3>1. Effective(g) = g
        BY <1>8, <2>2 DEF Effective
      <3>2. \A k \in S : g[k] = a[k]
        BY <1>17, <2>2
      <3> QED
        BY <1>8, <1>17, <3>1, <3>2, SameFunction
    <2> QED
      BY <2>1, <2>2
  <1>19. Effective(PageOf(url).shown) = asked'
    BY <1>2, <1>16, <1>18
  <1> QED
    BY <1>1, <1>3, <1>4, <1>19, RenderedKeeps

\* At midnight nothing on the page changes; what is not to come is not to come then.
LEMMA MidnightKeeps ==
    ASSUME ListingInv, Midnight
    PROVE  ListingInv'
  <1>1. Listening /\ UNCHANGED <<listing, sheet, asked>> /\ now' = now + 1 /\ now < listing.day + 1
    BY DEF ListingInv, Midnight
  <1>2. now \in Nat /\ listing.day \in Nat
    BY <1>1, Days
  <1>3. Listening'
    BY <1>1, <1>2 DEF Listening
  <1>4. ASSUME Loaded PROVE SheetOk'
    <2>1. SheetOk
      BY <1>4 DEF ListingInv
    <2>2. PICK f, url, p : f = sheet.page.shown /\ url = sheet.url /\ p = sheet.page
      OBVIOUS
    <2>3. ShownFields(ResolvedTab(url))' = ShownFields(ResolvedTab(url))
      <3>1. ResolvedTab(url)' = ResolvedTab(url)
        BY <1>1, Zenon DEF ResolvedTab
      <3> QED
        BY <1>1, <3>1, Zenon DEF ShownFields
    <2>4. UrlShows(url, f)
      BY <2>1, <2>2 DEF SheetOk
    <2>5. UrlShows(url, f)'
      <3>1. ResolvedTab(url)' = ResolvedTab(url)
        BY <1>1, Zenon DEF ResolvedTab
      <3>2. UrlShows(url, f)' = UrlShows(url, f)
        BY ONLY <3>1, Zenon DEF UrlShows
      <3> QED
        BY <2>4, <3>2
    <2>6. Offering(url, p)
      BY <2>1, <2>2 DEF SheetOk
    <2>7. Offering(url, p)'
      <3>1. CASE listing.kind # "dashboard"
        <4>1. listing' = listing
          BY <1>1
        <4>2. listing.kind \in {"none", "dashboard", "calendar", "report", "issues", "directory", "workforce"}
          BY <1>1, ListingsAssumption DEF Listening
        <4> QED
          BY <2>1, <2>6, <3>1, <4>1, <4>2 DEF Offering, SheetOk
      <3>2. CASE listing.kind = "dashboard"
        <4>1. /\ p.refused = FALSE /\ p.bar = DashboardBar(p.shown)
              /\ p.pages = Given(p.shown, {"when", "select", "search"})
              /\ p.others = Given(p.shown, {"select", "search"})
              /\ \A d \in p.dates : d \in Int /\ d <= now
          BY <2>6, <3>2 DEF Offering
        <4>2. \A d \in p.dates : d \in Int /\ d <= now'
          BY <1>1, <1>2, <4>1
        <4>3. listing'.kind = "dashboard"
          BY <1>1, <3>2
        <4> QED
          BY ONLY <4>1, <4>2, <4>3 DEF Offering
      <3> QED
        BY <3>1, <3>2
    <2>8. listing'.kind # "none" /\ (listing'.kind = "dashboard" => f.when <= now')
      <3>1. listing.kind = "dashboard" => f.when <= now /\ f.when \in Nat
        <4>1. DOMAIN f = ShownFields(ResolvedTab(url)) /\ DatesReal(f) /\ (listing.kind = "dashboard" => f.when <= now)
          BY <2>1, <2>2 DEF SheetOk
        <4> QED
          BY <4>1 DEF DatesReal, ShownFields
      <3> QED
        BY <1>1, <1>2, <2>1, <3>1 DEF SheetOk
    <2>9. f = [k \in ShownFields(ResolvedTab(url))' |-> f[k]]
      <3> DEFINE S == ShownFields(ResolvedTab(url))
      <3>1. S' = S /\ f = [k \in S |-> f[k]]
        BY <2>1, <2>2, <2>3 DEF SheetOk
      <3> HIDE DEF S
      <3>2. f = [k \in S' |-> f[k]]
        BY ONLY <3>1
      <3> QED
        BY <3>2 DEF S
    <2>10. /\ f = [k \in ShownFields(ResolvedTab(sheet.url))' |-> f[k]] /\ UrlShows(sheet.url, f)'
           /\ Offering(sheet.url, p)' /\ sheet'.url = url /\ sheet'.page = p
      BY <1>1, <2>2, <2>5, <2>7, <2>9
    <2> QED
      BY <1>1, <2>1, <2>2, <2>8, <2>10 DEF SheetOk
  <1> QED
    BY <1>1, <1>3, <1>4 DEF ListingInv, Loaded

\* What the page is about is not what it shows.
LEMMA UnseenKeeps ==
    ASSUME ListingInv, UNCHANGED <<listing, now, sheet, asked>>
    PROVE  ListingInv'
  <1>1. Listening /\ UNCHANGED <<listing, now, sheet, asked>>
    BY DEF ListingInv
  <1>2. Listening'
    BY <1>1 DEF Listening
  <1>3. ASSUME Loaded PROVE SheetOk'
    <2>1. SheetOk
      BY <1>3 DEF ListingInv
    <2>2. ResolvedTab(sheet.url)' = ResolvedTab(sheet.url)
      BY ONLY <1>1, Zenon DEF ResolvedTab
    <2>3. ShownFields(ResolvedTab(sheet.url))' = ShownFields(ResolvedTab(sheet.url))
      BY ONLY <1>1, <2>2, Zenon DEF ShownFields
    <2>4. UrlShows(sheet.url, sheet.page.shown)' = UrlShows(sheet.url, sheet.page.shown)
      BY ONLY <1>1, <2>2, Zenon DEF UrlShows
    <2>5. Offering(sheet.url, sheet.page)' = Offering(sheet.url, sheet.page)
      BY ONLY <1>1, Zenon DEF Offering
    <2>6. SheetOk' = SheetOk
      BY ONLY <1>1, <2>3, <2>4, <2>5, Zenon DEF SheetOk
    <2> QED
      BY <2>1, <2>6
  <1> QED
    BY <1>1, <1>2, <1>3 DEF ListingInv, Loaded

\* At first no page is open.
LEMMA ListingsBegin ==
    ASSUME BrowserInit
    PROVE  ListingInv
  <1>1. ListingsInit
    BY DEF BrowserInit
  <1>2. sheet = [page |-> None, form |-> <<>>, typed |-> {}] /\ now = listing.day
        /\ \E i \in DOMAIN Listings : listing = Listings[i]
    BY <1>1 DEF ListingsInit
  <1> QED
    BY <1>2 DEF ListingInv, Loaded, Listening

\* Every step keeps it so.
LEMMA ListingsGoOn ==
    ASSUME ListingInv, [ListingsNext]_listingVars
    PROVE  ListingInv'
  <1>1. CASE ListingsNext
    <2>1. CASE OpenAddress
      BY <2>1, OpenAddressKeeps
    <2>2. CASE TurnPageLink
      BY <2>2, TurnPageLinkKeeps
    <2>3. CASE FollowDate
      BY <2>3, FollowDateKeeps
    <2>4. CASE PickDate
      BY <2>4, PickDateKeeps
    <2>5. CASE FollowStatus
      BY <2>5, FollowStatusKeeps
    <2>6. CASE FollowTab
      BY <2>6, FollowTabKeeps
    <2>7. CASE Type
      BY <2>7, TypeKeeps
    <2>8. CASE Apply
      BY <2>8, ApplyKeeps
    <2>9. CASE ChangeSelect
      BY <2>9, ChangeSelectKeeps
    <2>10. CASE Reset
      BY <2>10, ResetKeeps
    <2>11. CASE Export
      BY <2>11, ExportKeeps
    <2>12. CASE RefreshListing
      BY <2>12, RefreshListingKeeps
    <2>13. CASE Midnight
      BY <2>13, MidnightKeeps
    <2>14. CASE ChangeRow
      <3>1. UNCHANGED <<listing, now, sheet, asked>>
        BY <2>14 DEF ChangeRow
      <3> QED
        BY <3>1, UnseenKeeps
    <2> QED
      BY ONLY <1>1, <2>1, <2>2, <2>3, <2>4, <2>5, <2>6, <2>7, <2>8, <2>9, <2>10, <2>11, <2>12, <2>13, <2>14
         DEF ListingsNext
  <1>2. CASE UNCHANGED listingVars
    <2>1. UNCHANGED <<listing, now, sheet, asked>>
      BY <1>2 DEF listingVars
    <2> QED
      BY <2>1, UnseenKeeps
  <1> QED
    BY <1>1, <1>2

\* A page that is as it should be shows the rows that are asked for, counts them right,
\* and its file is theirs.
LEMMA SheetTells ==
    ASSUME ListingInv
    PROVE  ListingsShowWhatIsAsked
  <1>1. ASSUME Loaded PROVE SheetOk
    BY <1>1 DEF ListingInv
  <1>2. ShownAsAsked
    BY <1>1 DEF ShownAsAsked, SheetOk
  <1>3. LinksAreAccepted
    BY <1>1 DEF LinksAreAccepted, SheetOk
  <1>4. TextCountsRows
    <2> SUFFICES ASSUME Loaded, Paged(sheet.page.shown), sheet.page.shown.page <= TotalPages
                 PROVE  Cardinality(Showing) = sheet.listed
      BY DEF TextCountsRows
    <2>1. sheet.listed = Cardinality(OnPage(sheet.total, sheet.page.shown.page))
      BY <1>1 DEF SheetOk
    <2>2. ClampedPage = sheet.page.shown.page
      BY DEF ClampedPage
    <2>3. Showing = OnPage(sheet.total, sheet.page.shown.page)
      BY <2>2, Zenon DEF Showing, OnPage
    <2> QED
      BY <2>1, <2>3
  <1>5. ExportMatchesPage
    BY <1>1 DEF ExportMatchesPage, SheetOk
  <1> QED
    BY <1>2, <1>3, <1>4, <1>5 DEF ListingsShowWhatIsAsked

\* Whichever links, filters and dates were used and whichever midnights and refreshes came
\* between, a list shows the rows that the control used last promises; no link is
\* refused, the text under the rows counts them, and the exported file is of them.
THEOREM ListingsAreRight == BrowserSpec => []ListingsShowWhatIsAsked
  <1>1. BrowserInit => ListingInv
    BY ListingsBegin
  <1>2. ListingInv /\ [BrowserNext]_browserVars => ListingInv'
    <2>1. [BrowserNext]_browserVars => [ListingsNext]_listingVars
      BY Zenon DEF BrowserNext, browserVars
    <2> QED
      BY <2>1, ListingsGoOn
  <1>3. ListingInv => ListingsShowWhatIsAsked
    BY SheetTells
  <1> QED
    BY <1>1, <1>2, <1>3, PTL DEF BrowserSpec
=============================================================================
