SPECIFICATION FairSpec
CONSTANTS
    Commands = {c1}
    Node = node
    Nobody = Nobody
    MaxEntries = 2
    MaxKills = 1
INVARIANTS
    Replayable
    CacheCurrent
    OneChain
PROPERTIES
    NothingOverwritten
    KeptInStep
