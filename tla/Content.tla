------------------------------- MODULE Content ------------------------------
(***************************************************************************)
(* What a tab shows of an article: the pages of the web client over the    *)
(* cache of queries (lib/content-query.ts, lib/api-provider.tsx), the      *)
(* buttons that write it and the answers that come back to them.           *)
(*                                                                         *)
(* The account is signed in.  Between two actions the event loop is free.  *)
(* A call or a read goes through three steps: it leaves, the API serves    *)
(* it, its answer reaches the tab; others may overtake it.  The promise of *)
(* a button outlives the button: a page that was left still hears the      *)
(* answer, through the cache and the router alone.                         *)
(*                                                                         *)
(* The cache is TanStack Query, as this client configures and uses it: an  *)
(* entry is read when a page mounts on it and it is missing or stale, one  *)
(* read at a time, and what arrives last is what the entry holds.          *)
(***************************************************************************)

CONSTANTS
    Slugs,
    Texts,      \* title, description, body and tags of the article
    Bios,       \* what an article carries of the account of its author
    Calls,      \* calls that write, each the click of a button
    Starts,     \* the article as the tab may find it
    Uses,       \* ways a tab may be used
    None

Feed == "feed"

Keys == Slugs \union {Feed}

Articles == [slug: Slugs, text: Texts, bio: Bios, favorited: BOOLEAN, following: BOOLEAN]

FavoriteButtons == {"favoriteTop", "favoriteBottom", "favoritePreview"}
FollowButtons == {"followTop", "followBottom"}
AuthorButtons == {"delete", "publish", "save"}

Buttons == FavoriteButtons \union FollowButtons \union AuthorButtons

\* The buttons of the comments, which module Conversation models.
CommentButtons == {"post", "remove"}

Pages == [name: {"article", "editor"}, slug: Slugs] \union [name: {"list", "settings", "profile"}, slug: {None}]

\* buttons, pages: those the tab goes to.  elsewhere: fields that change
\* without it, from another device or by another account.
ASSUME UseAssumption ==
    /\ Uses \subseteq [buttons: SUBSET (Buttons \union CommentButtons), pages: SUBSET Pages,
                       elsewhere: SUBSET {"favorited", "following", "comments"}]
    /\ \A u \in Uses : \/ u.buttons \subseteq AuthorButtons \union CommentButtons
                        \/ u.buttons \intersect AuthorButtons = {}

ASSUME StartAssumption == Starts \subseteq Articles

ASSUME NoneAssumption ==
    /\ None \notin Keys \union Texts \union Bios \union Articles \union Buttons
    /\ Feed \notin Slugs

VARIABLES
    use,
    world,      \* the article as the API has it; its slug is None once deleted
    cache,      \* entries of the QueryClient
    page,
    overrides,  \* local state of the follow buttons and of the preview
    calls,
    alone       \* history: no exchange has crossed a call, no change was missed

vars == <<use, world, cache, page, overrides, calls, alone>>

-----------------------------------------------------------------------------
(* The cache of queries *)

\* reading: the read in flight.  found: what the API answered it.
Missing == [state |-> "missing", data |-> None, stale |-> TRUE, reading |-> "no", found |-> None]

\* setQueryData: fresh data, the read in flight left alone.
SetData(store, k, data) ==
    [store EXCEPT ![k].state = "loaded", ![k].data = data, ![k].stale = FALSE]

Ask(entry) == [entry EXCEPT !.reading = "asked", !.found = None]

\* A read asked of a stale entry, unless there is one.
Refresh(store, k) ==
    IF store[k].stale /\ store[k].reading = "no" THEN [store EXCEPT ![k] = Ask(@)] ELSE store

Mounted(p) == IF p.name \in {"article", "editor"} THEN {p.slug}
              ELSE IF p.name = "list" THEN {Feed} ELSE {}

MountOn(store, p) == [k \in Keys |-> IF k \in Mounted(p) THEN Refresh(store, k)[k] ELSE store[k]]

NoOverrides == [b \in FollowButtons \union {"favoritePreview"} |-> None]

InFlight(c) == calls[c].stage \in {"sent", "served"}

CallInFlight == \E c \in Calls : InFlight(c)
ReadInFlight == \E k \in Keys : cache[k].reading # "no"

\* A page is left: the local state of its components goes with them.
Leave == /\ overrides' = NoOverrides
         /\ calls' = [c \in Calls |-> [calls[c] EXCEPT !.live = FALSE]]

-----------------------------------------------------------------------------
(* What the page shows *)

ShowsArticle(p) == p.name = "article" /\ cache[p.slug].state = "loaded"
ShowsForm(p) == p.name = "editor" /\ cache[p.slug].state = "loaded"
ShowsPreview(p) == p.name = "list" /\ cache[Feed].state = "loaded" /\ cache[Feed].data # None

\* The article in the props of the components on the page.
Shown == CHOOSE a \in {cache[k].data : k \in Mounted(page)} : TRUE

\* Mutant: an override that no longer applies is left out and not dropped.
Unrendered(o, following) == o

\* The render of FollowButton: an override made of another value is dropped.
Rendered(o, following) ==
    [b \in DOMAIN o |-> IF b \in FollowButtons /\ o[b] # None
                          THEN IF o[b].from = following THEN o[b] ELSE None
                          ELSE o[b]]

FollowingOn(b) ==
    IF overrides[b] # None /\ overrides[b].from = Shown.following
      THEN overrides[b].to ELSE Shown.following

FavoritedOn(b) ==
    IF b = "favoritePreview" /\ overrides[b] # None THEN overrides[b].to ELSE Shown.favorited

\* The buttons the page offers, the author of the article having others.
Offered(b) ==
    \/ b \in {"favoriteTop", "favoriteBottom", "followTop", "followBottom", "delete"} /\ ShowsArticle(page)
    \/ b = "publish" /\ ShowsForm(page)
    \/ b = "save" /\ page.name = "settings"
    \/ b = "favoritePreview" /\ ShowsPreview(page)

-----------------------------------------------------------------------------
IdleCall == [stage |-> "idle", button |-> None, live |-> FALSE, from |-> None, wish |-> None,
             answer |-> None]

Init ==
    /\ use \in Uses
    /\ world \in Starts
    /\ cache = [k \in Keys |-> Missing]
    /\ page = [name |-> "profile", slug |-> None]
    /\ overrides = NoOverrides
    /\ calls = [c \in Calls |-> IdleCall]
    /\ alone = TRUE

\* A link, an address or the history of the browser.
Open(p) ==
    /\ p \in use.pages \ {page}
    /\ page' = p
    /\ cache' = MountOn(cache, p)
    /\ Leave
    /\ alone' = (alone /\ (cache' # cache => ~CallInFlight))
    /\ UNCHANGED <<use, world>>

\* staleTime elapses.
Expire(k) ==
    /\ cache[k].state = "loaded" /\ ~cache[k].stale
    /\ cache' = [cache EXCEPT ![k].stale = TRUE]
    /\ UNCHANGED <<use, world, page, overrides, calls, alone>>

\* refetchOnReconnect, for the queries on screen.
Reconnect ==
    /\ MountOn(cache, page) # cache
    /\ cache' = MountOn(cache, page)
    /\ alone' = (alone /\ ~CallInFlight)
    /\ UNCHANGED <<use, world, page, overrides, calls>>

-----------------------------------------------------------------------------
(* Reads *)

\* GET of the article, 404 when it is not under that slug, or of the list.
ServeRead(k) ==
    /\ cache[k].reading = "asked"
    /\ cache' = [cache EXCEPT ![k].reading = "answered",
                              ![k].found = IF world.slug = None \/ k \notin {world.slug, Feed}
                                             THEN None ELSE world]
    /\ UNCHANGED <<use, world, page, overrides, calls, alone>>

ReceiveRead(k) ==
    /\ cache[k].reading = "answered"
    /\ k = Feed \/ cache[k].found # None
    /\ cache' = [SetData(cache, k, cache[k].found) EXCEPT ![k].reading = "no", ![k].found = None]
    /\ overrides' = IF k \in Mounted(page) /\ k # Feed
                      THEN Rendered(overrides, cache[k].found.following) ELSE overrides
    /\ UNCHANGED <<use, world, page, calls, alone>>

\* A notice replaces the page, what the entry holds staying where it is.
FailRead(k) ==
    /\ \/ cache[k].reading = "answered" /\ k # Feed /\ cache[k].found = None
       \/ cache[k].reading # "no"
    /\ cache' = [cache EXCEPT ![k].state = "failed", ![k].stale = TRUE,
                              ![k].reading = "no", ![k].found = None]
    /\ IF k \in Mounted(page) THEN Leave ELSE UNCHANGED <<overrides, calls>>
    /\ UNCHANGED <<use, world, page, alone>>

-----------------------------------------------------------------------------
(* Buttons *)

\* A button is disabled while its own call is in flight.
Pending(b) == \E c \in Calls : InFlight(c) /\ calls[c].live /\ calls[c].button = b

\* What the click asks for: the contrary of what its button shows, or the
\* values of the form.  The API draws a slug from the title.
Wishes(b) ==
    CASE b \in FavoriteButtons -> {~FavoritedOn(b)}
      [] b \in FollowButtons   -> {~FollowingOn(b)}
      [] b = "publish"         -> {w \in [slug: Slugs, text: Texts] :
                                     w.slug = Shown.slug \/ w.text # Shown.text}
      [] b = "save"            -> Bios
      [] b = "delete"          -> {None}

\* The props of the button at the click, which its callback keeps.
PropsOf(b) == IF b = "save" THEN None ELSE Shown

Click(c, b) ==
    /\ calls[c].stage = "idle"
    /\ b \in use.buttons /\ Offered(b) /\ ~Pending(b)
    /\ \E wish \in Wishes(b) :
         calls' = [calls EXCEPT ![c] = [IdleCall EXCEPT !.stage = "sent", !.button = b, !.live = TRUE,
                                                        !.from = PropsOf(b), !.wish = wish]]
    /\ alone' = (alone /\ ~CallInFlight /\ ~ReadInFlight)
    /\ UNCHANGED <<use, world, cache, page, overrides>>

\* What the API makes of the article.
Wished(call) ==
    CASE call.button \in FavoriteButtons -> [world EXCEPT !.favorited = call.wish]
      [] call.button \in FollowButtons   -> [world EXCEPT !.following = call.wish]
      [] call.button = "publish"         -> [world EXCEPT !.slug = call.wish.slug, !.text = call.wish.text]
      [] call.button = "save"            -> [world EXCEPT !.bio = call.wish]
      [] call.button = "delete"          -> [world EXCEPT !.slug = None]

\* The API finds the article by its slug, an author and an account without it.
Finds(call) == call.button \notin FollowButtons \union {"save"} => call.from.slug = world.slug

Serve(c) ==
    /\ calls[c].stage = "sent" /\ calls[c].button \in Buttons /\ Finds(calls[c])
    /\ world' = Wished(calls[c])
    /\ calls' = [calls EXCEPT ![c].stage = "served", ![c].answer = Wished(calls[c])]
    /\ UNCHANGED <<use, cache, page, overrides, alone>>

\* A refusal, an outage: the button says so and nothing else changes.  An
\* answer lost on its way looks the same from here.
Lose(c) ==
    /\ InFlight(c)
    /\ calls' = [calls EXCEPT ![c] = [IdleCall EXCEPT !.stage = "lost", !.button = calls[c].button]]
    /\ alone' = (alone /\ calls[c].stage = "sent")
    /\ UNCHANGED <<use, world, cache, page, overrides>>

-----------------------------------------------------------------------------
(* Answers *)

Over(c) == [calls EXCEPT ![c].stage = "over", ![c].live = FALSE, ![c].wish = None]

Answered(c, b) == calls[c].stage = "served" /\ calls[c].button \in b

\* router.push: going where one is leaves nothing.
Push(c, p, store) ==
    /\ page' = p
    /\ cache' = MountOn(store, p)
    /\ IF p = page THEN /\ overrides' = Rendered(overrides, calls[c].answer.following)
                        /\ calls' = Over(c)
       ELSE /\ overrides' = NoOverrides
            /\ calls' = [d \in Calls |-> [Over(c)[d] EXCEPT !.live = FALSE]]

\* Mutant: what the button declares replaces the article, the rest lost.
AnswerFavoriteAlone(c) ==
    /\ Answered(c, FavoriteButtons \ {"favoritePreview"})
    /\ cache' = SetData(cache, calls[c].from.slug, [calls[c].answer EXCEPT !.text = None, !.bio = None])
    /\ calls' = Over(c)
    /\ UNCHANGED <<use, world, page, overrides, alone>>

\* onToggled of ArticleMeta: the answer over the article of the click, in the
\* entry of that article, wherever the tab has gone.
AnswerFavorite(c) ==
    /\ Answered(c, FavoriteButtons \ {"favoritePreview"})
    /\ LET k == calls[c].from.slug
       IN /\ cache' = SetData(cache, k, calls[c].answer)
          /\ overrides' = IF k \in Mounted(page) THEN Rendered(overrides, calls[c].answer.following)
                          ELSE overrides
    /\ calls' = Over(c)
    /\ UNCHANGED <<use, world, page, alone>>

\* onToggled of ArticlePreview: the state of that preview, and no entry.
AnswerPreview(c) ==
    /\ Answered(c, {"favoritePreview"})
    /\ overrides' = IF calls[c].live
                      THEN [overrides EXCEPT !["favoritePreview"] =
                              [from |-> calls[c].from.favorited, to |-> calls[c].answer.favorited]]
                      ELSE overrides
    /\ calls' = Over(c)
    /\ UNCHANGED <<use, world, cache, page, alone>>

\* setFollowing, then the render that may drop it at once.
AnswerFollow(c) ==
    /\ Answered(c, FollowButtons)
    /\ overrides' = IF calls[c].live
                      THEN Rendered([overrides EXCEPT ![calls[c].button] =
                                       [from |-> calls[c].from.following, to |-> calls[c].answer.following]],
                                    Shown.following)
                      ELSE overrides
    /\ calls' = Over(c)
    /\ UNCHANGED <<use, world, cache, page, alone>>

\* Mutant: the entry of the slug the article had stays.
CacheSavedOnly(saved, previous) == SetData(cache, saved.slug, saved)

\* Mutant: the saved article is left to the reads of the pages.
CacheNothing(saved, previous) ==
    IF previous = saved.slug THEN cache ELSE [cache EXCEPT ![previous] = Missing]

\* cacheSavedArticle: the read in flight goes with the entry removed.
CacheSavedArticle(saved, previous) ==
    LET written == SetData(cache, saved.slug, saved)
    IN IF previous = saved.slug THEN written ELSE [written EXCEPT ![previous] = Missing]

\* Mutant: the redirection is dropped with the form.
AnswerPublishWhileThere(c) ==
    /\ Answered(c, {"publish"})
    /\ LET saved == calls[c].answer
           store == CacheSavedArticle(saved, calls[c].from.slug)
       IN IF calls[c].live THEN Push(c, [name |-> "article", slug |-> saved.slug], store)
          ELSE cache' = store /\ calls' = Over(c) /\ UNCHANGED <<page, overrides>>
    /\ UNCHANGED <<use, world, alone>>

AnswerPublish(c) ==
    /\ Answered(c, {"publish"})
    /\ LET saved == calls[c].answer
       IN Push(c, [name |-> "article", slug |-> saved.slug], CacheSavedArticle(saved, calls[c].from.slug))
    /\ UNCHANGED <<use, world, alone>>

\* invalidateAuthorCaches: what holds data embeds the author.  An entry on
\* screen is read anew, whatever read it had in flight.
InvalidateAuthorCaches(store) ==
    [k \in Keys |->
       IF store[k].data = None THEN store[k]
       ELSE IF k \in Mounted(page) THEN Ask([store[k] EXCEPT !.stale = TRUE])
       ELSE [store[k] EXCEPT !.stale = TRUE]]

AnswerSave(c) ==
    /\ Answered(c, {"save"})
    /\ Push(c, [name |-> "profile", slug |-> None], InvalidateAuthorCaches(cache))
    /\ UNCHANGED <<use, world, alone>>

AnswerDelete(c) ==
    /\ Answered(c, {"delete"})
    /\ Push(c, [name |-> "list", slug |-> None], cache)
    /\ UNCHANGED <<use, world, alone>>

Elsewhere(f) ==
    /\ f \in use.elsewhere /\ world.slug # None
    /\ world' = [world EXCEPT ![f] = ~@]
    /\ alone' = FALSE
    /\ UNCHANGED <<use, cache, page, overrides, calls>>

-----------------------------------------------------------------------------
Next ==
    \/ \E p \in Pages : Open(p)
    \/ Reconnect
    \/ \E k \in Keys : Expire(k) \/ ServeRead(k) \/ ReceiveRead(k) \/ FailRead(k)
    \/ \E c \in Calls : \E b \in Buttons : Click(c, b)
    \/ \E c \in Calls : Serve(c) \/ Lose(c)
    \/ \E c \in Calls : AnswerFavorite(c) \/ AnswerPreview(c) \/ AnswerFollow(c)
    \/ \E c \in Calls : AnswerPublish(c) \/ AnswerSave(c) \/ AnswerDelete(c)
    \/ \E f \in {"favorited", "following"} : Elsewhere(f)

Spec == Init /\ [][Next]_vars

-----------------------------------------------------------------------------
(* Properties *)

Deleted == [slug: {None}, text: Texts, bio: Bios, favorited: BOOLEAN, following: BOOLEAN]

\* Values have their types; an entry that is shown holds a whole article, or
\* the absence of one from the list.
TypeOK ==
    /\ use \in Uses
    /\ world \in Articles \union Deleted
    /\ \A k \in Keys :
         /\ cache[k].state \in {"missing", "loaded", "failed"}
         /\ cache[k].stale \in BOOLEAN /\ cache[k].reading \in {"no", "asked", "answered"}
         /\ cache[k].data \in Articles \union {None} /\ cache[k].found \in Articles \union {None}
         /\ cache[k].state = "loaded" /\ k # Feed => cache[k].data # None
    /\ page \in Pages
    /\ \A c \in Calls :
         /\ calls[c].stage \in {"idle", "sent", "served", "over", "lost"}
         /\ calls[c].live \in BOOLEAN
         /\ calls[c].answer \in Articles \union Deleted \union {None}
    /\ alone \in BOOLEAN

\* A renaming that was answered leaves no article under the slug of before,
\* whatever reads crossed it: cacheSavedArticle removes the entry, and with it
\* a read that left in time to bring the article back.
NoGhost ==
    \A c \in Calls :
      /\ calls[c].stage = "over" /\ calls[c].button = "publish"
      /\ \A d \in Calls \ {c} : calls[d].button # "publish"
      /\ calls[c].answer.slug # calls[c].from.slug
      => cache[calls[c].from.slug].data = None

\* A read that brings another value of `following` settles both follow
\* buttons, and no earlier click comes back (useFollowState drops an override
\* for good the first time the prop differs, FollowButton.tsx).
FreshPropWins ==
    [][/\ page' = page /\ ShowsArticle(page) /\ ShowsArticle(page)'
       /\ Shown'.following # Shown.following
       => \A b \in FollowButtons : FollowingOn(b)' = Shown'.following]_vars

Quiet == ~CallInFlight /\ ~ReadInFlight

\* What the article page shows and the entries it shares with the editor
\* (following apart, which its buttons keep to themselves).
ShowsTheWorld ==
    LET data == cache[page.slug].data
    IN data.text = world.text /\ data.bio = world.bio /\ data.favorited = world.favorited

\* When nobody else writes and no exchange crosses another, an article page at
\* rest shows the article as the API has it, through clicks that come back to
\* a page that was left: the mutations write the cache, or mark it.
InSync ==
    /\ alone /\ Quiet /\ ShowsArticle(page) /\ page.slug = world.slug
    /\ \A c \in Calls : calls[c].button # "favoritePreview"
    => ShowsTheWorld

\* The same with the button of a preview in a list: articles are keyed so that
\* "favoriser depuis la liste" does not leave "la page de l'article afficher
\* l'ancien compteur" (content-query.ts).
InSyncWithLists ==
    alone /\ Quiet /\ ShowsArticle(page) /\ page.slug = world.slug => ShowsTheWorld

\* A page that waits for an article has asked for it: a redirection follows
\* every entry that is removed under a page.
NeverBlank ==
    \A k \in Mounted(page) : cache[k].state = "missing" => cache[k].reading # "no"
=============================================================================
