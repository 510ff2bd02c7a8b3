SPECIFICATION Spec
CONSTANTS
    c1 = c1
    c2 = c2
    cheap = cheap
    quick = quick
    near = near
    far = far
    Calls = {c1, c2}
    Observations <- Investigation
    Strategies = {cheap, quick}
    Vendors = {near, far}
    Sources <- Bought
    AskAt <- Asks
    MakeLines = {line}
    Delayed = far
    StartTier = "A3"
    MaxPlans = 2
    MaxRetries = 1
    MaxChanges = 1
    MaxCrashes = 1
    MaxClicks = 1
CONSTRAINT ThreeTroubles
SYMMETRY Interchangeable
CHECK_DEADLOCK FALSE
INVARIANTS RaisedOnce VerifiedIsReal MoneyNeedsAuthority CompletedIsProven
