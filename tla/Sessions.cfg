CONSTANTS
    None = None
    Clients = {c1, c2}
    Emails = {e1, e2}
    Local <- MCLocal
    Ticks = {0, 1}
    SessionTTL = 1
    SessionTTLRemember = 2
    MaxTime = 2
    MaxOps = 3
SYMMETRY Alike
SPECIFICATION Spec
INVARIANTS AccountsSound SessionsAdmitOwners SignedOutIsRevoked WaitsEnd
CHECK_DEADLOCK FALSE
