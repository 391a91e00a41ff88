SPECIFICATION Spec
CONSTANTS
    Files = {f1}
    Archive = archive
    Completers = {c1, c2}
    NoKey = noKey
    OwnerDeletes = {}
    AdminDestroys = {}
    SelfDestructs = {}
    Sweepers = {s1}
    Orderly = TRUE
    MaxFaults = 1
    MaxToggles = 1
INVARIANTS
    ReadyAlwaysServable
