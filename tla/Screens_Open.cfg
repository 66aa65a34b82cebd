\* A page that stays open, whatever the API does.
\* CHECK_DEADLOCK FALSE: a closed session with nothing in flight may stay so.
CONSTANTS
    t1 = t1
    c1 = c1
    c2 = c2
    ann = ann
    bob = bob
    ann1 = ann1
    bob1 = bob1
    None = None
    Tabs = {t1}
    Calls = {c1, c2}
    Kinds = {"login", "read", "save", "publish"}
    Accounts = {ann, bob}
    Tokens = {ann1, bob1}
    OwnerOf <- Owners
SPECIFICATION ScreenSpec
CHECK_DEADLOCK FALSE
INVARIANTS
    ScreensTypeOK
    ShownIsStored
PROPERTIES
    OutagePurgesNothing
    FormStays
    TokenSparesLogin
    PendingEnds
    PageComesBack
