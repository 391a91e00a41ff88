SPECIFICATION Spec
CONSTANTS
    Forms = {form1, form2}
    Visitors = {ann}
    TicketTTL = 2
    Never = never
    MaxStay = 2
    MaxPasswords = 2
INVARIANTS
    TypeOK
    PasswordBindsSoon
PROPERTIES
    OthersLeftAlone
    SweptWhenDue
SYMMETRY Alike
CHECK_DEADLOCK FALSE
