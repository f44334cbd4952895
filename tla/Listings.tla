------------------------------ MODULE Listings ------------------------------
(***************************************************************************)
(* The pages that list what the database has: the attendance dashboard,    *)
(* calendar and report, the issues workspace (exceptions, corrections),    *)
(* the employee directory and the workforce calendar.  All a page shows    *)
(* follows from its address and from today; the filter bar (a GET form),   *)
(* the page, date, status and tab links, and the export build addresses    *)
(* from what was rendered, which may be of yesterday.  Overview has the    *)
(* order and the reads of the rows; here they are only counted.            *)
(*                                                                         *)
(* An address maps its parameters to values.  A select that submits the    *)
(* form when it changes (department, location, status, employee, type of   *)
(* employment) is one parameter, select; when is a day or a month.         *)
(***************************************************************************)
EXTENDS Panels

CONSTANTS
    Listings,       \* a sequence of them: which page, the first day it is used, the
                    \* addresses that are typed, what is entered in its fields and how many
                    \* of them before Apply, the days or months that are looked at, its
                    \* rows and those that come and go, and what the user's role may see
    PageSize,
    MaxRange,       \* the days a report may span (366)
    MonthDays       \* the days of a month

VARIABLES
    listing,        \* the one of Listings that is played
    now,            \* today
    held,           \* the rows that the database has
    sheet,          \* the page as it is in the browser
    asked           \* the filters that the control used last promises

listingVars == <<listing, now, held, sheet, asked>>

\* Days and months are counted from one, and the first day that is played is in the
\* second week; the page of the issues is for roles that may see one of its tabs.
ASSUME ListingsAssumption ==
    /\ None # "link" /\ MonthDays \in Nat \ {0} /\ MaxRange \in Nat /\ MaxRange >= 7
    /\ \A i \in DOMAIN Listings :
          LET l == Listings[i]
          IN  /\ l.kind \in {"none", "dashboard", "calendar", "report", "issues", "directory", "workforce"}
              /\ l.day \in Nat /\ l.day > 6 /\ l.days \subseteq Nat \ {0}
              /\ l.kind = "issues" => l.access \subseteq {"exceptions", "corrections"} /\ l.access # {}
              /\ l.kind = "none" => DOMAIN l.addresses = {}
              /\ \A j \in DOMAIN l.addresses : \A k \in {"when", "from", "to"} \cap DOMAIN l.addresses[j].url :
                    l.addresses[j].url[k] \in Nat \ {0}
              /\ \A k \in DOMAIN l.entered :
                    CASE k \in {"from", "to"} -> l.entered[k] \subseteq Nat
                      [] k = "dismissed"      -> l.entered[k] \subseteq BOOLEAN
                      [] OTHER                -> TRUE

AllTypes == {"LATE", "INCOMPLETE", "ABSENT", "EARLY_DEPARTURE"}
Statuses == {"PENDING", "APPROVED", "REJECTED", "ALL"}

Param(url, k, otherwise) == IF k \in DOMAIN url THEN url[k] ELSE otherwise

-----------------------------------------------------------------------------
(* The filter bars: the fields that are shown, the hidden ones, and where  *)
(* Reset leads.                                                            *)

\* Mutant: the selected day is not kept as a hidden field.
DashboardBarDateless(f) ==
    [form |-> [select |-> f.select, search |-> f.search], hidden |-> <<>>, reset |-> [when |-> f.when]]

DashboardBar(f) ==
    [form |-> [select |-> f.select, search |-> f.search],
     hidden |-> [when |-> f.when], reset |-> [when |-> f.when]]

\* The calendar keeps its month as the dashboard its day.
CalendarBar(f) == DashboardBar(f)

ReportBar(f) ==
    [form |-> [from |-> f.from, to |-> f.to, select |-> f.select, search |-> f.search],
     hidden |-> <<>>, reset |-> <<>>]

\* No type selected is every type; a refused page has forgotten which were.
ExceptionBar(f, refused) ==
    [form |-> [from |-> f.from, to |-> f.to, select |-> f.select, search |-> f.search,
               types |-> IF refused \/ f.types = {} THEN AllTypes ELSE f.types,
               dismissed |-> f.dismissed /\ ~refused],
     hidden |-> [tab |-> "exceptions"], reset |-> [tab |-> "exceptions"]]

DirectoryBar(f) ==
    [form |-> [select |-> f.select, search |-> f.search], hidden |-> <<>>, reset |-> <<>>]

\* It has no Reset.
EmployeeSelect(f) ==
    [form |-> [select |-> f.select], hidden |-> [when |-> f.when], reset |-> [when |-> f.when]]

NoBar == [form |-> <<>>, hidden |-> <<>>, reset |-> <<>>]

-----------------------------------------------------------------------------
(* The pages: the filters that an address stands for, whether the schema   *)
(* refuses them, the bar, the parameters that page links keep (pages) and  *)
(* those that date links keep (others), and the dates these lead to.       *)

PageWith(f, bar, pages) ==
    [shown |-> f, refused |-> FALSE, bar |-> bar, pages |-> pages, others |-> <<>>, dates |-> {}]

Narrowed(url) ==
    [select |-> Param(url, "select", Blank), search |-> Param(url, "search", Blank),
     page |-> Param(url, "page", 1)]

\* The links of the date selector: a day before, a day after unless it is to come,
\* and back to today.
DayLinks(day) == {day - 1, now} \cup Only(day + 1, day < now)

\* A day that is still to come is today.
DashboardPage(url) ==
    LET day == Param(url, "when", now)
        f == Over([when |-> IF day <= now THEN day ELSE now], Narrowed(url))
    IN  [PageWith(f, DashboardBar(f), Given(f, {"when", "select", "search"}))
            EXCEPT !.others = Given(f, {"select", "search"}), !.dates = DayLinks(f.when)]

MonthLinks(month) == {month - 1, month + 1}

\* And back to this month.
WorkforceLinks(month) == {month - 1, month + 1, now}

CalendarPage(url) ==
    LET f == Over([when |-> Param(url, "when", now)], Narrowed(url))
    IN  [PageWith(f, CalendarBar(f), Given(f, {"when", "select", "search"}))
            EXCEPT !.others = Given(f, {"select", "search"}), !.dates = MonthLinks(f.when)]

FirstDayOfMonth(day) == day - ((day - 1) % MonthDays)

RangeRefused(f) == f.from > f.to \/ f.to - f.from + 1 > MaxRange

ReportPage(url) ==
    LET f == Over([from |-> Param(url, "from", FirstDayOfMonth(now)), to |-> Param(url, "to", now)],
                  Narrowed(url))
    IN  [PageWith(f, ReportBar(f), Given(f, {"from", "to", "select", "search"}))
            EXCEPT !.refused = RangeRefused(f)]

\* Repeated keys are a set of strings of one type each; a single string may name
\* several, separated by commas.
Repeated(types) == IF types = {} THEN <<>> ELSE [types |-> {{t} : t \in types}]
Joined(types) == IF types = {} THEN <<>> ELSE [types |-> {types}]

Unreadable(strings) == Cardinality(strings) > 1 /\ \E s \in strings : Cardinality(s) > 1

Dismissed(f) == IF f.dismissed THEN [dismissed |-> 1] ELSE <<>>

ExceptionsTab(url) ==
    LET strings == Param(url, "types", {})
        f == Over([tab |-> "exceptions", from |-> Param(url, "from", now - 6), to |-> Param(url, "to", now),
                   types |-> UNION strings, dismissed |-> "dismissed" \in DOMAIN url], Narrowed(url))
        refused == Unreadable(strings) \/ RangeRefused(f)
        given == Given(f, {"from", "to", "select", "search"})
        kept == Over(Over([tab |-> f.tab], given), Over(Joined(f.types), Dismissed(f)))
    IN  [PageWith(f, ExceptionBar(f, refused), kept) EXCEPT !.refused = refused]

CorrectionsTab(url) ==
    LET status == Param(url, "status", "PENDING")
    IN  PageWith([tab |-> "corrections", status |-> IF status \in Statuses THEN status ELSE "PENDING"],
              NoBar, <<>>)

AvailableTabs(access) ==
    CASE access = {"exceptions", "corrections"} -> <<"all", "exceptions", "corrections">>
      [] access = {"exceptions"}                -> <<"exceptions">>
      [] access = {"corrections"}               -> <<"corrections">>
      [] access = {}                            -> <<>>

\* A tab that the role does not have is its first.
ResolvedTab(url) ==
    LET tabs == AvailableTabs(listing.access)
        wanted == Param(url, "tab", "none")
    IN  IF \E i \in DOMAIN tabs : tabs[i] = wanted THEN wanted ELSE tabs[1]

IssuesPage(url) ==
    CASE ResolvedTab(url) = "exceptions"  -> ExceptionsTab(url)
      [] ResolvedTab(url) = "corrections" -> CorrectionsTab(url)
      [] ResolvedTab(url) = "all"         -> PageWith([tab |-> "all"], NoBar, <<>>)

DirectoryPage(url) ==
    LET f == Narrowed(url) IN PageWith(f, DirectoryBar(f), Given(f, {"select", "search"}))

WorkforcePage(url) ==
    LET f == [when |-> Param(url, "when", now), select |-> Param(url, "select", Blank)]
    IN  [PageWith(f, EmployeeSelect(f), <<>>)
            EXCEPT !.others = Given(f, {"select"}), !.dates = WorkforceLinks(f.when)]

PageOf(url) ==
    CASE listing.kind = "dashboard" -> DashboardPage(url)
      [] listing.kind = "calendar"  -> CalendarPage(url)
      [] listing.kind = "report"    -> ReportPage(url)
      [] listing.kind = "issues"    -> IssuesPage(url)
      [] listing.kind = "directory" -> DirectoryPage(url)
      [] listing.kind = "workforce" -> WorkforcePage(url)

-----------------------------------------------------------------------------
(* The rows that a page is about.                                          *)

Selected(f, r) ==
    /\ \A k \in DOMAIN f \cap {"select", "search"} : f[k] \in {Blank, r[k]}
    /\ "from" \in DOMAIN f => r.day \in f.from .. f.to
    /\ "types" \in DOMAIN f => r.type \in f.types \/ f.types = {}
    /\ "types" \in DOMAIN f => f.dismissed \/ ~r.dismissed
    /\ "status" \in DOMAIN f => f.status \in {"ALL", r.status}

Total(f) == Cardinality({r \in held : Selected(f, r)})

\* LIMIT and OFFSET: the page is not held to the number of pages there are.
Listed(f) ==
    Cardinality({n \in 1 .. Total(f) : n > (f.page - 1) * PageSize /\ n <= f.page * PageSize})

Paged(f) == "page" \in DOMAIN f

\* A page that was loaded, or rendered again at its place by a link or a refresh:
\* then what was typed stays, and a select keeps the option that it has.
Rendered(url, by) ==
    LET p == PageOf(url)
        stays == IF by = "link" THEN (sheet.typed \cup {"select"}) \cap DOMAIN sheet.form ELSE {}
    IN  [url |-> url, page |-> p, by |-> IF p.refused THEN by ELSE None,
         form |-> [k \in DOMAIN p.bar.form |-> IF k \in stays THEN sheet.form[k] ELSE p.bar.form[k]],
         typed |-> stays \cap DOMAIN p.bar.form,
         total |-> IF Paged(p.shown) THEN Total(p.shown) ELSE 0,
         listed |-> IF Paged(p.shown) THEN Listed(p.shown) ELSE 0, exported |-> None]

-----------------------------------------------------------------------------
(* Pagination, as it is rendered.                                          *)

TotalPages == LET full == (sheet.total + PageSize - 1) \div PageSize IN IF full = 0 THEN 1 ELSE full

ClampedPage == IF sheet.page.shown.page <= TotalPages THEN sheet.page.shown.page ELSE TotalPages

\* "Showing from-to of total".
Showing ==
    {n \in 1 .. sheet.total : n > (ClampedPage - 1) * PageSize /\ n <= ClampedPage * PageSize}

PageLinks == {ClampedPage - 1, ClampedPage + 1} \cap 1 .. TotalPages

PageHref(n) == Over([page |-> n], sheet.page.pages)

\* Another day or month starts at its first page.
DateHref(d) == Over([when |-> d], sheet.page.others)

StatusHref(status) == [tab |-> "corrections", status |-> status]

-----------------------------------------------------------------------------
(* What the user does.                                                     *)

Loaded == sheet.page # None
Go(url, by, wanted) ==
    /\ sheet' = Rendered(url, by)
    /\ asked' = wanted
    /\ UNCHANGED <<listing, now, held>>

\* A type of exception or every type, as it is put.
Effective(f) == IF "types" \in DOMAIN f /\ f.types = {} THEN [f EXCEPT !.types = AllTypes] ELSE f

\* An address is typed, or a bookmark opened; the old addresses of the exceptions
\* and of the corrections lead to their tabs with all they carry.
Address(url, legacy) == IF legacy = None THEN url ELSE Over([tab |-> legacy], url)

OpenAddress ==
    \E i \in DOMAIN listing.addresses :
        LET url == Address(listing.addresses[i].url, listing.addresses[i].legacy)
        IN  Go(url, "address", Effective(PageOf(url).shown))

TurnPageLink ==
    /\ Loaded /\ Paged(sheet.page.shown) /\ ~sheet.page.refused
    /\ \E n \in PageLinks : Go(PageHref(n), "link", [asked EXCEPT !.page = n])

AtDate(d) ==
    [k \in DOMAIN asked |-> CASE k = "when" -> d [] k = "page" -> 1 [] OTHER -> asked[k]]

FollowDate ==
    /\ Loaded
    /\ \E d \in sheet.page.dates \cap listing.days : Go(DateHref(d), "link", AtDate(d))

\* window.location: the page is loaded.  The input's max does not hold it back, and a
\* day that is still to come gets today.
PickDate ==
    /\ Loaded /\ sheet.page.dates # {} /\ listing.kind # "workforce"
    /\ \E d \in listing.days :
          Go(DateHref(d), "form", AtDate(IF listing.kind = "dashboard" /\ d > now THEN now ELSE d))

FollowStatus ==
    /\ Loaded /\ "status" \in DOMAIN sheet.page.shown
    /\ \E status \in Statuses : Go(StatusHref(status), "link", [asked EXCEPT !.status = status])

\* One tab alone is not offered.
FollowTab ==
    /\ Loaded /\ listing.kind = "issues"
    /\ LET tabs == AvailableTabs(listing.access)
       IN  /\ Len(tabs) > 1
           /\ \E i \in DOMAIN tabs :
                 Go([tab |-> tabs[i]], "link", Effective(PageOf([tab |-> tabs[i]]).shown))

Type ==
    /\ Loaded
    /\ \E k \in (DOMAIN listing.entered \cap DOMAIN sheet.form) \ {"select"} :
          \E value \in listing.entered[k] :
             /\ value # sheet.form[k] /\ Cardinality(sheet.typed \cup {k}) <= listing.typed
             /\ sheet' = [sheet EXCEPT !.form[k] = value, !.typed = @ \cup {k}]
    /\ UNCHANGED <<listing, now, held, asked>>

\* max and min of the date inputs are what was rendered; an empty one is valid.
Valid(form) ==
    "from" \in DOMAIN form =>
        /\ form.from <= sheet.page.shown.to
        /\ form.to = Blank \/ form.to >= sheet.page.shown.from

Submitted(form) ==
    LET boxes == IF "types" \in DOMAIN form THEN Over(Repeated(form.types), Dismissed(form)) ELSE <<>>
    IN  Over(Given(form, DOMAIN form \ {"types", "dismissed"}), Over(sheet.page.bar.hidden, boxes))

FirstDate == IF listing.kind = "report" THEN FirstDayOfMonth(now) ELSE now - 6

\* What the form shows, for the day or month that is shown.
AskedBy(form) ==
    Effective([k \in DOMAIN sheet.page.shown |->
        CASE k = "page" -> 1
          [] k = "from" /\ form.from = Blank -> FirstDate
          [] k = "to" /\ form.to = Blank -> now
          [] k \in DOMAIN form \ {"from", "to"} -> form[k]
          [] k \in {"from", "to"} /\ form[k] # Blank -> form[k]
          [] OTHER -> sheet.page.shown[k]])

Apply ==
    /\ Loaded /\ "search" \in DOMAIN sheet.form /\ Valid(sheet.form)
    /\ Go(Submitted(sheet.form), "form", AskedBy(sheet.form))

\* A select submits the form, unless an input of it is not valid.
ChangeSelect ==
    /\ Loaded /\ "select" \in DOMAIN sheet.form
    /\ \E option \in listing.entered["select"] \ {sheet.form.select} :
          LET form == [sheet.form EXCEPT !.select = option]
          IN  IF Valid(form) THEN Go(Submitted(form), "form", AskedBy(form))
              ELSE /\ sheet' = [sheet EXCEPT !.form = form]
                   /\ UNCHANGED <<listing, now, held, asked>>

\* Reset widens to everything of the same day or month.
Reset ==
    /\ Loaded /\ "search" \in DOMAIN sheet.form
    /\ Go(sheet.page.bar.reset, "form",
          [k \in DOMAIN sheet.page.shown |->
             CASE k \in {"select", "search"} -> Blank
               [] k = "page" -> 1
               [] k = "from" -> FirstDate
               [] k = "to" -> now
               [] k = "types" -> AllTypes
               [] k = "dismissed" -> FALSE
               [] OTHER -> sheet.page.shown[k]])

\* The filters of the file; both dates are needed, and no page.
ExportServed(params) ==
    IF {"from", "to"} \subseteq DOMAIN params /\ ~RangeRefused(params)
    THEN Over([from |-> params.from, to |-> params.to], Narrowed(params)) ELSE None

Export ==
    /\ Loaded /\ listing.kind = "report" /\ ~sheet.page.refused
    /\ sheet' = [sheet EXCEPT
          !.exported = ExportServed(Given(sheet.page.shown, {"from", "to", "select", "search"}))]
    /\ UNCHANGED <<listing, now, held, asked>>

Open(k) == k \in {"when", "from", "to"} /\ (k \notin DOMAIN sheet.url \/ sheet.url[k] # asked[k])

\* router.refresh, after something was done on the page: the dates that its address
\* leaves open, or names although they are still to come, follow today.
RefreshListing ==
    /\ Loaded
    /\ sheet' = [Rendered(sheet.url, "link") EXCEPT !.by = sheet.by]
    /\ asked' = [k \in DOMAIN asked |->
          IF Open(k) THEN sheet'.page.shown[k] ELSE asked[k]]
    /\ UNCHANGED <<listing, now, held>>

Midnight ==
    /\ listing.kind # "none" /\ now < listing.day + 1
    /\ now' = now + 1
    /\ UNCHANGED <<listing, held, sheet, asked>>

\* A row comes or goes, or an exception is dismissed.
ChangeRow ==
    /\ \E r \in listing.comes : held' = (held \ {r}) \cup ({r} \ held)
    /\ UNCHANGED <<listing, now, sheet, asked>>

ListingsInit ==
    /\ \E i \in DOMAIN Listings : listing = Listings[i]
    /\ now = listing.day
    /\ held = listing.rows
    /\ sheet = [page |-> None, form |-> <<>>, typed |-> {}]
    /\ asked = None

ListingsNext ==
    \/ OpenAddress \/ TurnPageLink \/ FollowDate \/ PickDate \/ FollowStatus \/ FollowTab
    \/ Type \/ Apply \/ ChangeSelect \/ Reset \/ Export \/ RefreshListing
    \/ Midnight \/ ChangeRow

-----------------------------------------------------------------------------
(* Forms, panels and listings are on different pages and share nothing:    *)
(* one of them is used.                                                    *)

BrowserInit ==
    /\ FormsInit /\ PanelsInit /\ ListingsInit
    /\ \E used \in {"form", "panel", "listing"} :
          /\ used = "form" <=> scene.tabs # {}
          /\ used = "panel" <=> screen.tabs # {}
          /\ used = "listing" <=> listing.kind # "none"

BrowserNext ==
    \/ FormsNext /\ UNCHANGED <<panelVars, listingVars>>
    \/ PanelsNext /\ UNCHANGED <<formVars, listingVars>>
    \/ ListingsNext /\ UNCHANGED <<formVars, panelVars>>

browserVars == <<formVars, panelVars, listingVars>>

\* A fetch settles, with an answer or without; so do its successors.
BrowserFairness ==
    /\ \A c \in Calls :
          WF_browserVars((BrowserStep(c) /\ UNCHANGED <<panelVars, listingVars>>)
                         \/ (ForRequest(c) /\ UNCHANGED <<formVars, listingVars>>))
    /\ \A t \in Tabs :
          WF_browserVars((Refresh(t) /\ UNCHANGED <<panelVars, listingVars>>)
                         \/ (ForTab(t) /\ UNCHANGED <<formVars, listingVars>>))

BrowserSpec == BrowserInit /\ [][BrowserNext]_browserVars /\ BrowserFairness

-----------------------------------------------------------------------------
ListingsTypeOK ==
    /\ now \in {listing.day, listing.day + 1} /\ held \subseteq listing.rows
    /\ Loaded => /\ sheet.typed \subseteq DOMAIN sheet.form
                 /\ DOMAIN sheet.page.shown = DOMAIN asked

\* Whatever page, date, status and tab links, Apply, Reset and inputs were used, and
\* whichever midnights came between, the rows are those that the control used last
\* promises: a link changes what it is for and keeps the rest, Apply asks for what the
\* form shows, of the day or month that is shown.
ShownAsAsked == Loaded /\ ~sheet.page.refused => Effective(sheet.page.shown) = asked

\* No link leads to filters that the page refuses.
LinksAreAccepted == Loaded /\ sheet.page.refused => sheet.by # "link"

\* "Showing from-to of total" counts the rows that are listed, on every page up to the
\* last; beyond it, where rows that went may leave the user, it does not.
TextCountsRows ==
    Loaded /\ Paged(sheet.page.shown) /\ sheet.page.shown.page <= TotalPages =>
        Cardinality(Showing) = sheet.listed

\* The exported file has the filters of the rows on the screen, on one page.
ExportMatchesPage ==
    Loaded /\ sheet.exported # None => sheet.exported = [sheet.page.shown EXCEPT !.page = 1]

\* The four together.
ListingsShowWhatIsAsked ==
    ShownAsAsked /\ LinksAreAccepted /\ TextCountsRows /\ ExportMatchesPage
=============================================================================
