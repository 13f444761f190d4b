SPECIFICATION FairSpec
CONSTANTS
    long = long
    short = short
    main = main
    side = side
    Logs = {long, short}
    Channels = {main, side}
    ChannelOf <- MCChannelOf
    Start <- MCStart
    Length <- MCLength
    SealAt = 1
    Oversize <- MCOversize
    Retired = {}
    Rank <- MCRank
    Watched = {main}
    Page = 1
    None = None
    MaxWants = 1
    MaxTurns = 1
    MaxDeaths = 1
INVARIANTS
    WholeIsHeld
PROPERTIES
    TruncatedIsTold
    AllArrives
    AskedIsBrought
