\* The forms, panels and listings of the pages, one at a time: two to four
\* requests, up to two tabs.
CONSTANTS
    i1 = i1
    i2 = i2
    i3 = i3
    a = a
    b = b
    c1 = c1
    c2 = c2
    c3 = c3
    c4 = c4
    Tabs = {a, b}
    Calls = {c1, c2, c3, c4}
    Ids = {i1, i2, i3}
    None = None
    Today = 5
    Scenes <- MCScenes
    Screens <- MCScreens
    Listings <- MCListings
    PageSize = 1
    MaxRange = 8
    MonthDays = 7
SPECIFICATION BrowserSpec
INVARIANTS
    LatestLoadIsShown
    ListingsShowWhatIsAsked
PROPERTIES
    EditChangesOnlyWhatWasTyped
    HistoryTellsEveryChange
    RefusedOnlyForTheUnasked
    LostAnswersDoubleNothing
    ClosedOnItsPreview
    BusyEnds
CHECK_DEADLOCK FALSE
