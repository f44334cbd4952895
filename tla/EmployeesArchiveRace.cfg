CONSTANTS
    ann = ann
    bob = bob
    cyd = cyd
    new1 = new1
    new2 = new2
    d1 = d1
    d2 = d2
    g1 = g1
    b1 = b1
    t1 = t1
    t2 = t2
    None = None
    People <- MCPeople
    Hired <- MCHired
    EmailOf <- MCEmailOf
    Units <- MCUnits
    KindOf <- MCKindOf
    Tasks <- MCTasks
    Starts <- MCArchiveRace
    Calls = {i1, i2}
    Subjects <- MCSubjects
    Leads = {bob}
    Statuses = {"ACTIVE", "SUSPENDED", "TERMINATED"}
    WorkDates <- MCWorkDates
    Today = 2
    NameOf <- MCNameOf
    IdOf <- MCIdOf
    DayRecords <- MCDayRecords
    Written <- MCWritten
    RecordStarts <- MCRecordStarts
    Viewers = {v1}
    Dismissers = {}
    Dismissable <- MCDismissable
    Narrowings <- MCNarrowings
    PageSize = 2
    MaxExportRows = 1
    MaxWrites = 2
SPECIFICATION OverviewSpec
INVARIANT NoReportOfAnArchivedManager
CHECK_DEADLOCK FALSE
SYMMETRY MCSymmetry
