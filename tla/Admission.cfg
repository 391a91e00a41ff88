SPECIFICATION Spec
CONSTANTS
    Admins = {admin1, admin2}
    MaxEdits = 2
    Pages = {page1, page2}
    Codes = {code1, code2}
    Recipients = 1
    MaxLimit = 1
INVARIANTS
    SettingsTypeOK
    AdmissionTypeOK
    LimitHolds
PROPERTIES
    OnlyWhatWasEdited
    RefusedOnlyUnproven
SYMMETRY Alike
