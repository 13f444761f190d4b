SPECIFICATION Spec
CONSTANTS
    Procs = {p1, p2}
    Members = {p1}
    Servers = {s}
    Conversations = {c}
    None = None
    MaxFaults = 1
    MaxWishes = 3
PROPERTY LockKeepsServing
CHECK_DEADLOCK FALSE
