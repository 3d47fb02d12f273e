SPECIFICATION ServerFairSpec
CONSTANTS
    v1 = v1  v2 = v2
    Validations = {v1, v2}
    MaxJobs = 1
    Preferences <- EitherFirst
    NoResult = NoResult
    MaxAddresses = 2
INVARIANTS
    ServerTypeOK
    ReportsAreGenuine
    ValidateCleansUp
PROPERTIES
    ValidateReturns
CHECK_DEADLOCK FALSE
