\* Both channels, CSTP compressed or not.
SPECIFICATION Spec
CONSTANTS
    MaxQlen = 2
    MaxPkt = 3
    MaxDrift = 2
    Deflate = TRUE
INVARIANTS Custody QlenAccounted QueueBounded InOrder NoSleepOnQueue CompressedInHand
PROPERTY ImplementsRelay
