CONSTANTS
    None = None
    Admins = {a1, a2}
    Period = 2
    AdminSessionTTL = 2
    CodeTimes = {0, 3}
    MaxTime = 4
    MaxOps = 3
SYMMETRY Alike
SPECIFICATION Spec
INVARIANTS EnrolmentSound NoneAfterDisabled SignInsAudited
PROPERTIES CodeWindow
CHECK_DEADLOCK FALSE
