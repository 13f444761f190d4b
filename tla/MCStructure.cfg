SPECIFICATION Spec
CONSTANTS
    Members = {m1, m2}
    Founder = m1
    Commands = {x, y}
    Channels = {1, 2}
    Categories = {11}
    Keys = {ann, bob}
    Granted <- CategoryRole
    MaxPosition = 0
    MaxEntries = 3
    Network = Network
    None = None
INVARIANTS
    SidebarShowsAll
    AuthorizedIsAccepted
PROPERTIES
    NamesStay
SYMMETRY Alike
CHECK_DEADLOCK FALSE
