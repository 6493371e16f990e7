\* A reconnect with two attempts and one command.
SPECIFICATION FairSpec
CONSTANTS
    a1 = a1
    a2 = a2
    ReconnectTimeout = 3
    ReconnectInterval = 1
    IntervalMax = 2
    MaxCmds = 1
    Addrs = {a1, a2}
    TunAddr = a1
INVARIANT EndAsDocumented
