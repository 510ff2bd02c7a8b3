SPECIFICATION FairSpec
CONSTANTS
    Posts = {"out", "back", "lot", "in"}
    Lines <- Crossing
    Shelves = {"stores", "wip"}
    Lots <- TwoLots
    Opening <- SomeStock
    Absent = Absent
    MaxCrashes = 1
CHECK_DEADLOCK FALSE
INVARIANTS LedgerAddsUp PlanStands PostedInFull
PROPERTY EachEnds
