\* Three seconds of DPD, a server that answers within one, slips of one second.
SPECIFICATION FairSpec
CONSTANTS
    Dpd = 3
    Keepalive = 2
    Rekey = 9
    Never = 99
    MaxTime = 10
    MaxQueue = 1
    Slack = 1
    Rtt = 1
INVARIANTS DeadPeerNoticed NoFalseDeath KeepaliveKept
PROPERTY PassEnds
