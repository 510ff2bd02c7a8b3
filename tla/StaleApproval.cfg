SPECIFICATION Spec
CONSTANTS
    c1 = c1
    c2 = c2
    cheap = cheap
    quick = quick
    near = near
    far = far
    Calls = {c1}
    Observations <- Investigation
    Strategies = {cheap, quick}
    Vendors = {near, far}
    Sources <- Bought
    AskAt <- Asks
    MakeLines = {line}
    Delayed = far
    StartTier = "A3"
    MaxPlans = 2
    MaxRetries = 0
    MaxChanges = 0
    MaxCrashes = 0
    MaxClicks = 0
CHECK_DEADLOCK FALSE
INVARIANT AuthorityIsForOnePlan
