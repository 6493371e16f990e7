\* An interval above its maximum and a timeout that allows two waits, up to three
\* commands, two addresses.
SPECIFICATION FairSpec
CONSTANTS
    a1 = a1
    a2 = a2
    ReconnectTimeout = 4
    ReconnectInterval = 3
    IntervalMax = 2
    MaxCmds = 3
    Addrs = {a1, a2}
    TunAddr = a1
INVARIANTS TypeOK DetachSaysNoBye PausedIsResumable ReconnectBounded
PROPERTIES CancelEnds PauseObeyed
