CONSTANTS
    admin = admin
    user = user
    both = both
    c1 = c1
    c2 = c2
    t1 = t1
    t2 = t2
    None = None
    Users <- MCUsers
    Companies <- MCCompanies
    Enabled <- MCUsers
    RoleIn <- MCRoleIn
    Inactive <- MCInactive
    Signed <- MCSigned
    Tokens = {t1, t2}
    Calls = {i1, i2}
    Ops = {"LOGIN", "LOGOUT", "USE", "CHANGE", "RESET", "ACTIVATE", "DEACTIVATE", "TERMINATE"}
    Clients = {user}
    Targets <- MCTargets
    HasAddress = TRUE
    MaxFailures <- MCMaxFailures
    Window = 1
    SessionLife = 2
    RenewBelow = 2
SPECIFICATION Spec
INVARIANTS OnlyAnUncommittedResetIsMissed FailuresBounded
PROPERTIES DeletedStaysDeleted
CHECK_DEADLOCK FALSE
SYMMETRY MCSymmetry
