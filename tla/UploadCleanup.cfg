SPECIFICATION Spec
CONSTANTS
    Files = {f1}
    Archive = archive
    Completers = {c1}
    NoKey = noKey
    OwnerDeletes = {}
    AdminDestroys = {a1}
    SelfDestructs = {}
    Sweepers = {s1, s2}
    Orderly = TRUE
    MaxFaults = 1
    MaxToggles = 0
PROPERTIES
    ExpiredEventuallyGone
    StuckEventuallyGone
    ImplementsContract
