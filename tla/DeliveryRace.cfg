SPECIFICATION Spec
CONSTANTS
    Readers = {r1, r2}
    Receivers = {ann, bob}
    Share = share
    MaxFaults = 0
INVARIANTS
    NeverDeletedUnderResponse
CHECK_DEADLOCK FALSE
