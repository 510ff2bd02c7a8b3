SPECIFICATION FairSpec
CONSTANTS
    Events <- TwoEvents
    Relays = {worker, drain}
    Consumers = {s1, s2}
    Batch = 2
    Nobody = Nobody
    MaxRollbacks = 2
    MaxThrows = 1
    MaxStalls = 2
CHECK_DEADLOCK FALSE
INVARIANTS RelaysApart PublishedIsCarried
PROPERTIES KeepsPromise EachHandled
