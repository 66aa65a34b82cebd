SPECIFICATION Spec
CONSTANTS
    Requests = {q1, q2}
    Users = {u1, u2}
    Urls = {articles, ofA, ofB}
    Patterns = {publish, comment}
    Keys = {k}
    Bodies = {b, bShuffled, c}
    Forms = {fb, fc}
    Menu <- TwoArticlesMenu
    PatternOf <- MCPatternOf
    CanonOf <- MCCanonOf
    ArticlesPattern = publish
    Slugs = {tale}
    NoKey = NoKey
    BadKey = BadKey
    None = None
    u1 = u1
    u2 = u2
    articles = articles
    ofA = ofA
    ofB = ofB
    publish = publish
    comment = comment
    tale = tale
    q3 = q1
    k = k
    b = b
    bShuffled = bShuffled
    c = c
    fb = fb
    fc = fc
CHECK_DEADLOCK FALSE
INVARIANTS
    ReplayAnswersSameUrl
