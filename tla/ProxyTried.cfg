\* A count past one.
SPECIFICATION FairSpec
CONSTANT MaxCount = 2
INVARIANT TriedOnce
