SPECIFICATION Spec
CONSTANTS
    Employees = {e1}
    Requests = {r1, r2}
    SessionIds = {s1, s2}
    CorrectionIds = {c1, c2}
    Keys = {}
    Ops = {"CHECK_IN", "BREAK_START", "BREAK_END", "REQUEST", "APPROVE", "REJECT"}
    Fields = {"CHECK_OUT", "BREAK_END"}
    LastTime = 2
    LastDate = 2
    MaxBreakEvents = 2
    DateOf <- TwoMonthsDateOf
    MonthOf <- OneMonthMonthOf
    ExpectedEnd <- NoShift
    None = None
SYMMETRY Symmetry
INVARIANTS
    RecordFresh
    OneLiveCorrection
PROPERTIES
    ReviewedOnce
    SessionHistory
    ImplementsBook
