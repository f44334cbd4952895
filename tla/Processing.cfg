CONSTANTS
    ann = ann
    bob = bob
    west = west
    east = east
    None = None
    Day = 4
    Zones = {west, east}
    Offset <- MCOffset
    Windows <- MCWindows
    Lag = 4
    Lookback = 2
    FirstDate = 2
    LastDate = 5
    Employees = {ann, bob}
    EligibleOn <- MCEligibleOn
    Failing <- MCFailing
    Months = {1, 2}
    MonthOf <- MCMonthOf
    Invocations = {i1, i2}
    StartTime = 32
    LastTime = 33
    Budget = 2
    Interferences = {"crash", "fault", "period", "record"}
    MaxInterference = 2
SPECIFICATION FairSpec
INVARIANTS TypeOK NothingDueIsMissed
PROPERTIES RunsDoNotDisturbEachOther JobWritesOnlyWhereItMay CompletedMeansReached CaughtUp
