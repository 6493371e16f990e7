\* A reconnect with two attempts and no commands.
SPECIFICATION FairSpec
CONSTANTS
    a1 = a1
    a2 = a2
    ReconnectTimeout = 3
    ReconnectInterval = 1
    IntervalMax = 2
    MaxCmds = 0
    Addrs = {a1, a2}
    TunAddr = a1
INVARIANT AddressKept
