\* Three requests fight for the slugs of two homonyms, read, favoured and
\* commented meanwhile.  Four attempts: two are lost to the homonyms, two more
\* creations take the others, and a third gives up.
\* CHECK_DEADLOCK FALSE: the system stops when every request has been answered.
CONSTANTS
    q1 = q1
    q2 = q2
    q3 = q3
    s1 = s1
    s2 = s2
    ann = ann
    bob = bob
    tale = tale
    tale2 = tale2
    other = other
    draft1 = draft1
    draft2 = draft2
    tag = tag
    None = None
    Requests = {q1, q2, q3}
    Seeds = {s1, s2}
    SeedRow <- Homonyms
    Users = {ann, bob}
    Titles = {tale, tale2, other}
    Texts = {draft1, draft2}
    Tags = {tag}
    Words = {"tale", "other"}
    SlugOfTitle <- TitleSlugs
    Mixes <- WriteMixes
    Urls <- ListUrls
    Followed <- Subscriptions
    PageLimit = 2
    Instants = {1, 2}
    SeedInstant <- Dates
    MaxAttempts = 4
SPECIFICATION ListsSpec
CHECK_DEADLOCK FALSE
INVARIANTS
    ListsTypeOK
    OneArticlePerSlug
    FailsOnlyOnTagRaceOrExhaustion
    NoOrphans
    FavoriteAnswersAsAsked
    UndisturbedListAddsUp
    EveryArticleHasItsPage
PROPERTIES
    UndisturbedUpdateIsPartial
    KeepsDirectory
    CommentDeletedInItsThread
    EveryRequestAnswered
