CONSTANTS
    c1 = c1
    c2 = c2
    Channels <- MCChannels
    Reseeded <- MCReseeded
    Vectors <- MCVectors
    Ceil = 2
    MaxFailures = 1
    RampWindow = 1
SPECIFICATION Spec
INVARIANTS AlwaysReachable
PROPERTIES ProbedForEver BackoffMatchesRow
