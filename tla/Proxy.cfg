\* A count past the number of methods.
SPECIFICATION FairSpec
CONSTANT MaxCount = 4
INVARIANTS TypeOK ReconnectsBounded FailedForGood NoHelperLeft
PROPERTIES ProxyEnds CancelEnds
