CONSTANTS
    u1 = u1
    u2 = u2
    Nil = Nil
    Users = {u1, u2}
    Funds <- MCFunds
    Values = {0, 1}
    CallCreateDepth = 1
    MaxExec = 4
SPECIFICATION Spec
INVARIANT TypeOK
PROPERTIES FailureReverts
CHECK_DEADLOCK FALSE
