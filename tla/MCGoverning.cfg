SPECIFICATION Spec
CONSTANTS
    a = a
    b = b
    helpers = helpers
    stewards = stewards
    Members = {a, b}
    Me = a
    Procs = {p1, p2}
    Roles = {helpers, stewards}
    Unrestricted <- MCUnrestricted
    Verbs = {post, moderate}
    HighVerbs = {moderate}
    Settings = {name, slowmode}
    Values = {0, 1}
    Unguarded = {name}
    Requests <- MCRequests
    PeerRequests <- MCPeerRequests
    MaxSubmits = 3
    MaxPeers = 2
    Nobody = Nobody
INVARIANTS
    Governable
PROPERTIES
    EditsKeepEdits
CHECK_DEADLOCK FALSE
