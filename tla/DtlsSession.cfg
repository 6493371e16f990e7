\* Probes after 3 seconds of silence and every second then, one of them lost; a
\* gateway that asks for rekeying, by either method, or does not.
SPECIFICATION Spec
CONSTANTS
    Dpd = 3
    Keepalive = 2
    Rekey = 5
    Never = 99
    MaxTime = 10
    MaxQueue = 1
    HandshakeTimeout = 3
    Period = 2
    Methods = {"NONE", "SSL", "TUNNEL"}
    Other = 3
    Rtt = 1
    MaxLost = 1
INVARIANTS TypeOK FdMatchesState HandshakeBounded DeadPeerNoticed SurvivesLostProbe
