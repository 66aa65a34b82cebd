\* Two tabs over one storage.
\* CHECK_DEADLOCK FALSE: a closed session with nothing in flight may stay so.
CONSTANTS
    t1 = t1
    t2 = t2
    c1 = c1
    c2 = c2
    ann = ann
    bob = bob
    ann1 = ann1
    ann2 = ann2
    bob1 = bob1
    None = None
    Tabs = {t1, t2}
    Calls = {c1}
    Kinds = {"login", "read", "save"}
    Accounts = {ann, bob}
    Tokens = {ann1, ann2, bob1}
    OwnerOf <- Owners
SPECIFICATION Spec
CHECK_DEADLOCK FALSE
SYMMETRY Symmetry
PROPERTY OpensAsAsked
