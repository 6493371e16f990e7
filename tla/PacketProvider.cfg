\* Three batches of up to two packets; the session is lost and comes back.
SPECIFICATION Spec
CONSTANTS
    MaxPackets = 5
    MaxChanges = 3
INVARIANTS TypeOK Conservation DroppedOnlyByStop
CHECK_DEADLOCK FALSE
