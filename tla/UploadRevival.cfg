SPECIFICATION Spec
CONSTANTS
    Files = {f1}
    Archive = archive
    Completers = {c1}
    NoKey = noKey
    OwnerDeletes = {o1}
    AdminDestroys = {}
    SelfDestructs = {}
    Sweepers = {s1}
    Orderly = TRUE
    MaxFaults = 0
    MaxToggles = 0
PROPERTIES
    DestroyedIsFinal
