SPECIFICATION Spec
CONSTANTS
    Readers = {r1, r2, r3}
    Receivers = {ann, bob}
    Share = share
    MaxFaults = 1
INVARIANTS
    TypeOK
    DestroyedWithCause
    ServedMeansDestroyed
PROPERTIES
    NoOpenAfterDestroyed
    SelfDestructHappens
CHECK_DEADLOCK FALSE
