\* A reader who favours, from a list among others.
SPECIFICATION ConversationSpec
CONSTANTS
    s1 = s1
    s2 = s2
    t1 = t1
    b1 = b1
    Slugs = {s1, s2}
    Texts = {t1, t2}
    Bios = {b1, b2}
    Calls = {c1, c2}
    None = None
    Starts <- Untouched
    k1 = k1
    k2 = k2
    Earlier = {k1, k2}
    Foreign = {k2}
    Threads <- Short
    Uses <- ListUses
INVARIANT InSyncWithLists
