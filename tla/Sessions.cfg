SPECIFICATION Spec
CONSTANTS
    Users = {ann}
    NoUser = none
    laptop = laptop
    Tabs = {tab1, tab2}
    Browsers = {laptop}
    BrowserOf <- MCBrowserOf
    MaxTokens = 3
    MaxPasswords = 2
    MaxFaults = 1
INVARIANTS
    TypeOK
    SingleSuccessor
    ResetEndsSessions
    LinkDiesWithPassword
    CookieUsable
SYMMETRY Alike
CHECK_DEADLOCK FALSE
