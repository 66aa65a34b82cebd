\* Two windows edit different fields of one article.
\* CHECK_DEADLOCK FALSE: the system stops when every request has been answered.
CONSTANTS
    q1 = q1
    q2 = q2
    q3 = q3
    s1 = s1
    s2 = s2
    ann = ann
    bob = bob
    tale = tale
    tale2 = tale2
    other = other
    draft1 = draft1
    draft2 = draft2
    tag = tag
    None = None
    Requests = {q1, q2}
    Seeds = {s1, s2}
    SeedRow <- Homonyms
    Users = {ann, bob}
    Titles = {tale, tale2, other}
    Texts = {draft1, draft2}
    Tags = {tag}
    Words = {"tale", "other"}
    SlugOfTitle <- TitleSlugs
    Mixes <- EditMixes
    Urls <- ListUrls
    Followed <- Subscriptions
    PageLimit = 2
    Instants = {1, 2}
    SeedInstant <- Dates
    MaxAttempts = 3
SPECIFICATION ListsSpec
CHECK_DEADLOCK FALSE
PROPERTY UpdateIsPartial
