CONSTANTS
    None = None
    m1 = m1
    m2 = m2
    alias = alias
    Subjects <- MCSubjects
    Instants <- MCInstants
    Admins = {a1, a2}
    Models <- MCModels
    Drafts <- MCDrafts
    FirstKey <- MCFirstKey
    Asked <- MCAsked
    Windows <- MCWindows
    MaxOps = 3
    IntMax = 31
    Million = 4
SPECIFICATION Spec
INVARIANTS PublishChecksHold ShownPriceIsBilled ChangesAudited
