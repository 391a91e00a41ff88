SPECIFICATION Spec
CONSTANTS
    Files = {f1, f2}
    Archive = archive
    Completers = {c1, c2}
    NoKey = noKey
    OwnerDeletes = {o1}
    AdminDestroys = {}
    SelfDestructs = {d1}
    Sweepers = {s1}
    Orderly = TRUE
    MaxFaults = 1
    MaxToggles = 1
SYMMETRY Symmetry
INVARIANTS
    TypeOK
    ReadyServable
    FilesAwaitComplete
    CompleteInOrder
PROPERTIES
    GoneForGood
    YoungRowsStay
    KeptWithoutCause
