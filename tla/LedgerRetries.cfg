SPECIFICATION FairSpec
CONSTANTS
    Employees = {e1}
    Requests = {r1, r2}
    SessionIds = {s1, s2}
    CorrectionIds = {}
    Keys = {k1}
    Ops = {"CHECK_IN", "CHECK_OUT", "CLOSE"}
    Fields = {}
    LastTime = 2
    LastDate = 2
    MaxBreakEvents = 2
    DateOf <- TwoMonthsDateOf
    MonthOf <- OneMonthMonthOf
    ExpectedEnd <- NightShift
    None = None
PROPERTIES
    KeyTakesEffectOnce
    Completes
