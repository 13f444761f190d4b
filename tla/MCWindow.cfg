SPECIFICATION Spec
CONSTANTS
    Procs = {p1, p2}
    Members = {p1}
    Servers = {s}
    Conversations = {c}
    None = None
    MaxFaults = 1
    MaxWishes = 3
INVARIANT AskedIsAnswered
PROPERTIES LaunchComesForward WantedIsServed ColdTakesTurns DeletedIsIdle
CHECK_DEADLOCK FALSE
