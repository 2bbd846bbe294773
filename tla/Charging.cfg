CONSTANTS
    None = None
    Cards <- MCCards
    Contexts <- MCContexts
    Usages <- MCUsages
    IntMax = 31
    Million = 4
SPECIFICATION CardSpec
INVARIANTS ChargedExactly ReferencesResolve HighestTierApplies
