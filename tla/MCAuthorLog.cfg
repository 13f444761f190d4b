\* One writer; the clock set back once, or one death.
SPECIFICATION FairSpec
CONSTANTS
    Writers = {w1}
    Limits <- Paced
    WrittenClasses = {"message", "reaction"}
    RateWindow = 2
    KeptWindow = 2
    MaxRecent = 3
    SealAt = 2
    SealSpan = 2
    None = None
    MaxRecords = 3
    MaxClock = 3
    MaxAccidents = 1
    MaxRestarts = 1
INVARIANTS
    AlwaysPushable
    NeverWithheld
PROPERTIES
    SealedForGood
    EventuallyPublished
