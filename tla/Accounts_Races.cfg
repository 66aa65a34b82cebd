\* Three requests over two accounts, any of which may be removed.
\* CHECK_DEADLOCK FALSE: the system stops when every request has been answered.
CONSTANTS
    q1 = q1
    q2 = q2
    q3 = q3
    ann = ann
    bob = bob
    m1 = m1
    m2 = m2
    m3 = m3
    n1 = n1
    n2 = n2
    n3 = n3
    secret = secret
    other = other
    null = null
    text = text
    None = None
    Requests = {q1, q2, q3}
    Seeds = {ann, bob}
    SeedRow <- TwoAccounts
    Emails = {m1, m2, m3}
    Usernames = {n1, n2, n3}
    Passwords = {secret, other}
    Bios = {null, text}
    Menu <- MCMenu
SPECIFICATION Spec
CHECK_DEADLOCK FALSE
SYMMETRY Symmetry
INVARIANTS
    TypeOK
    ErrorsAreTranslated
    NoDanglingFollow
PROPERTIES
    ChangesAreKept
    FollowAnswersWhatIsStored
    KeepsNames
