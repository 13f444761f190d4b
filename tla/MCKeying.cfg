SPECIFICATION FairSpec
CONSTANTS
    ada = ada
    ben = ben
    eve = eve
    Nodes = {ada, ben}
    Others = {eve}
    Issuer = ada
    Own <- MCOwn
    NoOne = NoOne
    MaxMishaps = 2
    MaxRemovals = 1
PROPERTIES
    AdmittedIsFounder
    MembersReadAll
    RemovedIsShutOut
CHECK_DEADLOCK FALSE
