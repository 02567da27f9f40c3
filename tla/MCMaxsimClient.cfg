SPECIFICATION Spec
CONSTANTS
    Keys = {1, 2, 3, 4}
    Distance <- MCDistance
    Rows <- MCRows
    RefBytes <- MCRefBytes
    QueryRows = 2
    ScalarBytes = 8
    ContractBytes = 5
    TenantBytes = 3
    MaxTokens = 6
    MaxBytes = 276
    MaxCandidates = 2
    Timeout = 2
    MaxTime = 4
    MaxChanges = 2
    Asked <- MCAsked
INVARIANTS
    RefusedOnlyIfTooLarge
PROPERTIES
    OneDeadline
    
