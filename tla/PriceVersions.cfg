SPECIFICATION Spec
CONSTANTS
  model = model
  p1 = p1
  p2 = p2
  r1 = r1
  Null = Null
  Subjects <- OneSubject
  Keys <- OneKey
  Publishers <- MCPublishers
  Requests <- MCRequests
  Explicit <- AnyTime
  MaxTime = 2
INVARIANTS LatestStartedWins NoRepricingMidRequest
PROPERTIES ImplementsBook NoChangeBeforeEffectiveFrom NeverUnpriced PublishEnds
