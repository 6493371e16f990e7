\* Both channels, CSTP compressed.
SPECIFICATION Spec
CONSTANTS
    MaxQlen = 2
    MaxPkt = 3
    MaxDrift = 2
    Deflate = TRUE
INVARIANT QlenMatches
