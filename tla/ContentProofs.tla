---------------------------- MODULE ContentProofs ----------------------------
(***************************************************************************)
(* What holds of Content for any articles, any number of calls and any use *)
(* of the tab, and of any step that, like those of the comments, moves     *)
(* calls of its own and nothing else.                                      *)
(***************************************************************************)
EXTENDS Content, TLAPS

-----------------------------------------------------------------------------
(* The types of what is kept *)

Entries ==
    [state: {"missing", "loaded", "failed"}, data: Articles \union {None}, stale: BOOLEAN,
     reading: {"no", "asked", "answered"}, found: Articles \union {None}]

\* An entry that is shown has its article, one that is missing will be read, and
\* the entry of a slug has nothing of another.
EntryOK(k, e) ==
    /\ e \in Entries
    /\ e.state = "loaded" /\ k # Feed => e.data # None
    /\ e.state = "missing" => e.stale
    /\ k \in Slugs /\ e.data # None => e.data.slug = k
    /\ k \in Slugs /\ e.found # None => e.found.slug = k

Stages == {"idle", "sent", "served", "over", "lost"}

Fields == {"stage", "button", "live", "from", "wish", "answer"}

OfArticle == FavoriteButtons \union FollowButtons \union {"publish", "delete"}

\* What the callback of a button holds; what from and wish hold of a comment is
\* left to Conversation.
CallOK(r) ==
    /\ r = [f \in Fields |-> r[f]]
    /\ r.stage \in Stages /\ r.live \in BOOLEAN
    /\ r.button \in Buttons \union CommentButtons \union {None}
    /\ r.answer \in Articles \union Deleted \union {None}
    /\ r.stage = "idle" => r.button = None
    /\ r.stage \in {"sent", "served", "over"} /\ r.button \in OfArticle => r.from \in Articles
    /\ r.stage = "sent" =>
         /\ r.button \in FavoriteButtons \union FollowButtons => r.wish \in BOOLEAN
         /\ r.button = "publish" => r.wish \in [slug: Slugs, text: Texts]
         /\ r.button = "save" => r.wish \in Bios
    /\ r.stage \in {"served", "over"} /\ r.button \in Buttons => r.answer \in Articles \union Deleted
    /\ r.stage \in {"served", "over"} /\ r.button \in FavoriteButtons =>
         r.answer \in Articles /\ r.answer.slug = r.from.slug
    /\ r.stage \in {"served", "over"} /\ r.button = "publish" => r.answer \in Articles

OverrideKeys == FollowButtons \union {"favoritePreview"}

Base ==
    /\ use \in Uses
    /\ world \in Articles \union Deleted
    /\ page \in Pages
    /\ alone \in BOOLEAN
    /\ cache \in [Keys -> Entries]
    /\ \A k \in Keys : EntryOK(k, cache[k])
    /\ overrides \in [OverrideKeys -> [from: BOOLEAN, to: BOOLEAN] \union {None}]
    /\ calls = [c \in Calls |-> calls[c]]
    /\ \A c \in Calls : CallOK(calls[c])

\* A step of the comments: calls of theirs, and nothing else of this module.
Chat ==
    /\ UNCHANGED <<use, world, cache, page, overrides, alone>>
    /\ calls' = [c \in Calls |-> calls'[c]]
    /\ \A c \in Calls :
         \/ calls'[c] = calls[c]
         \/ /\ CallOK(calls'[c]) /\ calls'[c].button \in CommentButtons
            /\ calls[c].button \in CommentButtons \union {None}

-----------------------------------------------------------------------------
(* What the operators of the model return *)

LEMMA ButtonsApart ==
    /\ Buttons \intersect CommentButtons = {}
    /\ FavoriteButtons \subseteq Buttons /\ FollowButtons \subseteq Buttons
    /\ FavoriteButtons \intersect FollowButtons = {}
    /\ {"publish", "save", "delete"} \subseteq Buttons
    /\ {"publish", "save", "delete"} \intersect (FavoriteButtons \union FollowButtons) = {}
    /\ OfArticle \subseteq Buttons
    /\ "favoritePreview" \in FavoriteButtons /\ "favoritePreview" \notin FollowButtons
    /\ None \notin Buttons
BY NoneAssumption DEF Buttons, CommentButtons, FavoriteButtons, FollowButtons, AuthorButtons, OfArticle

LEMMA MountedFacts ==
    ASSUME NEW p \in Pages
    PROVE  /\ Mounted(p) \subseteq Keys
           /\ p.name \in {"article", "editor"} => p.slug \in Slugs /\ Mounted(p) = {p.slug}
           /\ p.name = "list" => Mounted(p) = {Feed}
           /\ p.name \notin {"article", "editor", "list"} => Mounted(p) = {}
           /\ p.name \in {"article", "editor", "list", "settings", "profile"}
           /\ Feed \in Keys /\ Slugs \subseteq Keys /\ Feed \notin Slugs
BY NoneAssumption DEF Mounted, Pages, Keys

LEMMA SetDataEntry ==
    ASSUME NEW store \in [Keys -> Entries], NEW k \in Keys, NEW data
    PROVE  SetData(store, k, data)[k] = [state |-> "loaded", data |-> data, stale |-> FALSE,
                                         reading |-> store[k].reading, found |-> store[k].found]
<1>1. store[k] \in Entries
  OBVIOUS
<1>2. QED
  BY <1>1 DEF SetData, Entries

LEMMA SetDataOthers ==
    ASSUME NEW store \in [Keys -> Entries], NEW k \in Keys, NEW data
    PROVE  \A j \in Keys : j # k => SetData(store, k, data)[j] = store[j]
BY DEF SetData

LEMMA SetDataType ==
    ASSUME NEW store \in [Keys -> Entries], NEW k \in Keys, NEW data \in Articles \union {None}
    PROVE  SetData(store, k, data) \in [Keys -> Entries]
<1>1. SetData(store, k, data)[k] \in Entries
  <2>1. PICK e \in Entries : e = store[k]
    OBVIOUS
  <2>2. [state |-> "loaded", data |-> data, stale |-> FALSE, reading |-> e.reading, found |-> e.found]
          \in Entries
    BY DEF Entries
  <2>3. QED
    BY <2>1, <2>2, SetDataEntry
<1>2. \A j \in Keys : SetData(store, k, data)[j] \in Entries
  BY <1>1, SetDataOthers
<1>3. SetData(store, k, data) = [j \in Keys |-> SetData(store, k, data)[j]]
  BY DEF SetData
<1>4. QED
  BY <1>2, <1>3

LEMMA MountOnFacts ==
    ASSUME NEW store \in [Keys -> Entries], NEW p \in Pages
    PROVE  /\ MountOn(store, p) \in [Keys -> Entries]
           /\ \A k \in Keys :
                /\ MountOn(store, p)[k].state = store[k].state
                /\ MountOn(store, p)[k].data = store[k].data
                /\ MountOn(store, p)[k].stale = store[k].stale
                /\ k \notin Mounted(p) \/ ~store[k].stale \/ store[k].reading # "no" =>
                     MountOn(store, p)[k] = store[k]
                /\ k \in Mounted(p) /\ store[k].stale /\ store[k].reading = "no" =>
                     MountOn(store, p)[k].reading = "asked" /\ MountOn(store, p)[k].found = None
<1>1. ASSUME NEW k \in Keys
      PROVE  /\ MountOn(store, p)[k] \in Entries
             /\ MountOn(store, p)[k].state = store[k].state
             /\ MountOn(store, p)[k].data = store[k].data
             /\ MountOn(store, p)[k].stale = store[k].stale
             /\ k \notin Mounted(p) \/ ~store[k].stale \/ store[k].reading # "no" =>
                  MountOn(store, p)[k] = store[k]
             /\ k \in Mounted(p) /\ store[k].stale /\ store[k].reading = "no" =>
                  MountOn(store, p)[k].reading = "asked" /\ MountOn(store, p)[k].found = None
  <2>1. store[k] \in Entries
    OBVIOUS
  <2>2. CASE k \in Mounted(p) /\ store[k].stale /\ store[k].reading = "no"
    <3>1. MountOn(store, p)[k] = Ask(store[k])
      BY <2>2 DEF MountOn, Refresh
    <3>2. /\ Ask(store[k]) \in Entries /\ Ask(store[k]).state = store[k].state
          /\ Ask(store[k]).data = store[k].data /\ Ask(store[k]).stale = store[k].stale
          /\ Ask(store[k]).reading = "asked" /\ Ask(store[k]).found = None
      BY <2>1 DEF Ask, Entries
    <3>3. QED
      BY <2>2, <3>1, <3>2
  <2>3. CASE ~(k \in Mounted(p) /\ store[k].stale /\ store[k].reading = "no")
    <3>1. MountOn(store, p)[k] = store[k]
      BY <2>3 DEF MountOn, Refresh
    <3>2. QED
      BY <2>1, <2>3, <3>1
  <2>4. QED
    BY <2>2, <2>3
<1>2. MountOn(store, p) = [k \in Keys |-> MountOn(store, p)[k]]
  BY DEF MountOn
<1>3. QED
  BY <1>1, <1>2

\* A page that mounts leaves every entry as it should be.
LEMMA MountOnOK ==
    ASSUME NEW store \in [Keys -> Entries], NEW p \in Pages, \A k \in Keys : EntryOK(k, store[k])
    PROVE  \A k \in Keys : EntryOK(k, MountOn(store, p)[k])
<1>1. ASSUME NEW k \in Keys
      PROVE  EntryOK(k, MountOn(store, p)[k])
  <2>1. CASE k \in Mounted(p) /\ store[k].stale /\ store[k].reading = "no"
    BY <2>1, MountOnFacts DEF EntryOK
  <2>2. CASE ~(k \in Mounted(p) /\ store[k].stale /\ store[k].reading = "no")
    <3>1. MountOn(store, p)[k] = store[k]
      BY <2>2, MountOnFacts
    <3>2. QED
      BY <3>1
  <2>3. QED
    BY <2>1, <2>2
<1>2. QED
  BY <1>1

LEMMA SetDataOK ==
    ASSUME NEW store \in [Keys -> Entries], NEW k \in Keys, NEW data \in Articles,
           \A j \in Keys : EntryOK(j, store[j]), k \in Slugs => data.slug = k
    PROVE  \A j \in Keys : EntryOK(j, SetData(store, k, data)[j])
<1>1. EntryOK(k, SetData(store, k, data)[k])
  <2>1. data # None /\ data \in Articles \union {None}
    BY NoneAssumption
  <2>2. PICK e : e = SetData(store, k, data)[k]
    OBVIOUS
  <2>3. e = [state |-> "loaded", data |-> data, stale |-> FALSE,
             reading |-> store[k].reading, found |-> store[k].found]
    BY <2>2, SetDataEntry
  <2>4. e \in Entries
    <3>1. SetData(store, k, data) \in [Keys -> Entries]
      BY <2>1, SetDataType
    <3>2. QED
      BY <2>2, <3>1
  <2>5. k \in Slugs /\ e.found # None => e.found.slug = k
    BY <2>3 DEF EntryOK
  <2>6. EntryOK(k, e)
    BY <2>1, <2>3, <2>4, <2>5 DEF EntryOK
  <2>7. QED
    BY <2>2, <2>6
<1>2. \A j \in Keys : j # k => SetData(store, k, data)[j] = store[j]
  BY SetDataOthers
<1>3. QED
  BY <1>1, <1>2

\* The render of the follow buttons.
LEMMA RenderedFacts ==
    ASSUME NEW o \in [OverrideKeys -> [from: BOOLEAN, to: BOOLEAN] \union {None}], NEW following
    PROVE  /\ Rendered(o, following) \in [OverrideKeys -> [from: BOOLEAN, to: BOOLEAN] \union {None}]
           /\ \A b \in FollowButtons :
                /\ Rendered(o, following)[b] \in {o[b], None}
                /\ Rendered(o, following)[b] # None => o[b].from = following
           /\ Rendered(o, following)["favoritePreview"] = o["favoritePreview"]
<1>1. DOMAIN o = OverrideKeys /\ FollowButtons \subseteq OverrideKeys
      /\ "favoritePreview" \in OverrideKeys /\ "favoritePreview" \notin FollowButtons
  BY ButtonsApart DEF OverrideKeys
<1>2. \A b \in OverrideKeys :
        Rendered(o, following)[b] = IF b \in FollowButtons /\ o[b] # None
                                      THEN IF o[b].from = following THEN o[b] ELSE None
                                      ELSE o[b]
  BY <1>1 DEF Rendered
<1>3. Rendered(o, following) = [b \in OverrideKeys |-> Rendered(o, following)[b]]
  BY <1>1 DEF Rendered
<1>4. \A b \in OverrideKeys : Rendered(o, following)[b] \in {o[b], None}
  BY <1>2
<1>5. \A b \in OverrideKeys : Rendered(o, following)[b] \in [from: BOOLEAN, to: BOOLEAN] \union {None}
  BY <1>4
<1>6. Rendered(o, following) \in [OverrideKeys -> [from: BOOLEAN, to: BOOLEAN] \union {None}]
  BY <1>3, <1>5
<1>7. QED
  BY <1>1, <1>2, <1>4, <1>6

\* Calls whose answer has come, whose button has gone.
LEMMA CallOver ==
    ASSUME NEW r, CallOK(r), r.stage = "served",
           NEW over, over = [r EXCEPT !.stage = "over", !.live = FALSE, !.wish = None]
    PROVE  /\ CallOK(over) /\ over.stage = "over" /\ over.live = FALSE /\ over.button = r.button
           /\ over.from = r.from /\ over.answer = r.answer
<1>1. DOMAIN r = Fields
  BY DEF CallOK
<1>2. /\ over.stage = "over" /\ over.live = FALSE /\ over.button = r.button
      /\ over.from = r.from /\ over.answer = r.answer
  BY <1>1 DEF Fields
<1>3. over = [f \in Fields |-> over[f]]
  BY <1>1
<1>4. CallOK(over)
  <2>1. over = [f \in Fields |-> over[f]] /\ over.stage \in Stages /\ over.live \in BOOLEAN
    BY <1>2, <1>3 DEF Stages
  <2>2. /\ over.button \in Buttons \union CommentButtons \union {None}
        /\ over.answer \in Articles \union Deleted \union {None}
        /\ over.button \in OfArticle => over.from \in Articles
    BY <1>2 DEF CallOK
  <2>3. /\ over.button \in Buttons => over.answer \in Articles \union Deleted
        /\ over.button \in FavoriteButtons => over.answer \in Articles /\ over.answer.slug = over.from.slug
        /\ over.button = "publish" => over.answer \in Articles
    BY <1>2 DEF CallOK
  <2>4. QED
    BY <1>2, <2>1, <2>2, <2>3 DEF CallOK
<1>5. QED
  BY <1>2, <1>4

LEMMA CallLeft ==
    ASSUME NEW r, CallOK(r), NEW left, left = [r EXCEPT !.live = FALSE]
    PROVE  /\ CallOK(left) /\ left.stage = r.stage /\ left.live = FALSE /\ left.button = r.button
           /\ left.from = r.from /\ left.answer = r.answer /\ left.wish = r.wish
<1>1. DOMAIN r = Fields
  BY DEF CallOK
<1>2. /\ left.stage = r.stage /\ left.live = FALSE /\ left.button = r.button
      /\ left.from = r.from /\ left.answer = r.answer /\ left.wish = r.wish
  BY <1>1 DEF Fields
<1>3. left = [f \in Fields |-> left[f]]
  BY <1>1
<1>4. QED
  BY <1>2, <1>3 DEF CallOK

-----------------------------------------------------------------------------
(* What the page shows, and what becomes of the calls *)

LEMMA ShownIsOf ==
    ASSUME NEW k \in Keys, Mounted(page) = {k}
    PROVE  Shown = cache[k].data
<1>1. {cache[j].data : j \in Mounted(page)} = {cache[k].data}
  OBVIOUS
<1>2. QED
  BY <1>1 DEF Shown

\* A button that is offered has the article of the page, the one of the
\* settings apart.
LEMMA OfferedShows ==
    ASSUME Base, NEW b \in Buttons, Offered(b), b # "save"
    PROVE  \E k \in Keys : /\ Mounted(page) = {k} /\ Shown = cache[k].data /\ Shown \in Articles
                           /\ cache[k].state = "loaded"
                           /\ b = "favoritePreview" => k = Feed
                           /\ b # "favoritePreview" => k = page.slug /\ k \in Slugs
                           /\ b = "publish" <=> page.name = "editor"
<1>1. CASE b = "favoritePreview"
  <2>1. ShowsPreview(page)
    BY <1>1 DEF Offered
  <2>2. Mounted(page) = {Feed} /\ Feed \in Keys
    BY <2>1, MountedFacts DEF Base, ShowsPreview
  <2>3. Shown = cache[Feed].data
    BY <2>2, ShownIsOf
  <2>4. cache[Feed].data \in Articles /\ cache[Feed].state = "loaded" /\ page.name = "list"
    BY <2>1, <2>2 DEF Base, ShowsPreview, Entries
  <2>5. QED
    BY <1>1, <2>2, <2>3, <2>4
<1>2. CASE b # "favoritePreview"
  <2>1. /\ page.name \in {"article", "editor"} /\ cache[page.slug].state = "loaded"
        /\ b = "publish" <=> page.name = "editor"
    BY <1>2 DEF Offered, ShowsArticle, ShowsForm
  <2>2. PICK k \in Slugs : k = page.slug /\ Mounted(page) = {k} /\ k \in Keys /\ k # Feed
    BY <2>1, MountedFacts DEF Base
  <2>3. Shown = cache[k].data
    BY <2>2, ShownIsOf
  <2>4. cache[k] \in Entries /\ EntryOK(k, cache[k]) /\ cache[k].state = "loaded"
    BY <2>1, <2>2 DEF Base
  <2>5. cache[k].data \in Articles
    BY <2>2, <2>4 DEF EntryOK, Entries
  <2>6. QED
    BY <1>2, <2>1, <2>2, <2>3, <2>4, <2>5
<1>3. QED
  BY <1>1, <1>2

\* A step after which calls hold what they held, those of over having ended, and
\* those of left having lost their button.
Held(over, left) ==
    /\ calls' = [d \in Calls |-> calls'[d]]
    /\ \A d \in Calls :
         /\ CallOK(calls'[d])
         /\ calls'[d].button = calls[d].button /\ calls'[d].from = calls[d].from
         /\ calls'[d].answer = calls[d].answer
         /\ d \in over => calls'[d].stage = "over" /\ calls'[d].live = FALSE
         /\ d \notin over => calls'[d].stage = calls[d].stage /\ calls'[d].wish = calls[d].wish
         /\ d \in left => calls'[d].live = FALSE
         /\ d \notin over \union left => calls'[d] = calls[d]

LEMMA OverHolds ==
    ASSUME Base, NEW c \in Calls, calls[c].stage = "served", calls' = Over(c)
    PROVE  Held({c}, {})
<1>1. /\ calls' = [d \in Calls |-> calls'[d]]
      /\ \A d \in Calls \ {c} : calls'[d] = calls[d]
      /\ calls'[c] = [calls[c] EXCEPT !.stage = "over", !.live = FALSE, !.wish = None]
  BY DEF Over, Base
<1>2. CallOK(calls[c])
  BY DEF Base
<1>3. /\ CallOK(calls'[c]) /\ calls'[c].stage = "over" /\ calls'[c].live = FALSE
      /\ calls'[c].button = calls[c].button /\ calls'[c].from = calls[c].from
      /\ calls'[c].answer = calls[c].answer
  <2>1. PICK r, over : r = calls[c] /\ over = calls'[c]
    OBVIOUS
  <2>2. CallOK(r) /\ r.stage = "served"
    BY <1>2, <2>1
  <2>3. over = [r EXCEPT !.stage = "over", !.live = FALSE, !.wish = None]
    BY <1>1, <2>1
  <2>4. /\ CallOK(over) /\ over.stage = "over" /\ over.live = FALSE /\ over.button = r.button
        /\ over.from = r.from /\ over.answer = r.answer
    BY <2>2, <2>3, CallOver
  <2>5. QED
    BY <2>1, <2>4
<1>4. QED
  BY <1>1, <1>3 DEF Held, Base

LEMMA LeaveHolds ==
    ASSUME Base, Leave
    PROVE  /\ Held({}, Calls)
           /\ overrides' = NoOverrides
           /\ overrides' \in [OverrideKeys -> [from: BOOLEAN, to: BOOLEAN] \union {None}]
<1>1. overrides' = NoOverrides
  BY DEF Leave
<1>2. overrides' \in [OverrideKeys -> [from: BOOLEAN, to: BOOLEAN] \union {None}]
  BY <1>1 DEF NoOverrides, OverrideKeys
<1>3. /\ calls' = [d \in Calls |-> calls'[d]]
      /\ \A d \in Calls : calls'[d] = [calls[d] EXCEPT !.live = FALSE]
  BY DEF Leave
<1>4. ASSUME NEW d \in Calls
      PROVE  /\ CallOK(calls'[d]) /\ calls'[d].stage = calls[d].stage /\ calls'[d].live = FALSE
             /\ calls'[d].button = calls[d].button /\ calls'[d].from = calls[d].from
             /\ calls'[d].answer = calls[d].answer /\ calls'[d].wish = calls[d].wish
  <2>1. CallOK(calls[d])
    BY DEF Base
  <2>2. QED
    BY <1>3, <2>1, CallLeft
<1>5. QED
  BY <1>1, <1>2, <1>3, <1>4 DEF Held

LEMMA PushHolds ==
    ASSUME Base, NEW c \in Calls, calls[c].stage = "served", NEW p \in Pages,
           NEW store \in [Keys -> Entries], Push(c, p, store)
    PROVE  /\ page' = p /\ cache' = MountOn(store, p)
           /\ p = page => overrides' = Rendered(overrides, calls[c].answer.following) /\ Held({c}, {})
           /\ p # page => overrides' = NoOverrides /\ Held({c}, Calls)
           /\ overrides' \in [OverrideKeys -> [from: BOOLEAN, to: BOOLEAN] \union {None}]
<1>1. page' = p /\ cache' = MountOn(store, p)
  BY DEF Push
<1>2. CASE p = page
  <2>1. overrides' = Rendered(overrides, calls[c].answer.following) /\ calls' = Over(c)
    BY <1>2 DEF Push
  <2>2. Held({c}, {})
    BY <2>1, OverHolds
  <2>3. overrides' \in [OverrideKeys -> [from: BOOLEAN, to: BOOLEAN] \union {None}]
    BY <2>1, RenderedFacts DEF Base
  <2>4. QED
    BY <1>1, <1>2, <2>1, <2>2, <2>3
<1>3. CASE p # page
  <2>1. overrides' = NoOverrides /\ calls' = [d \in Calls |-> [Over(c)[d] EXCEPT !.live = FALSE]]
    BY <1>3 DEF Push
  <2>2. overrides' \in [OverrideKeys -> [from: BOOLEAN, to: BOOLEAN] \union {None}]
    BY <2>1 DEF NoOverrides, OverrideKeys
  <2>3. /\ \A d \in Calls \ {c} : Over(c)[d] = calls[d]
        /\ Over(c)[c] = [calls[c] EXCEPT !.stage = "over", !.live = FALSE, !.wish = None]
    BY DEF Over, Base
  <2>4. /\ CallOK(Over(c)[c]) /\ Over(c)[c].stage = "over"
        /\ Over(c)[c].button = calls[c].button /\ Over(c)[c].from = calls[c].from
        /\ Over(c)[c].answer = calls[c].answer
    <3>1. PICK r, over : r = calls[c] /\ over = Over(c)[c]
      OBVIOUS
    <3>2. CallOK(r) /\ r.stage = "served"
      BY <3>1 DEF Base
    <3>3. over = [r EXCEPT !.stage = "over", !.live = FALSE, !.wish = None]
      BY <2>3, <3>1
    <3>4. /\ CallOK(over) /\ over.stage = "over" /\ over.button = r.button
          /\ over.from = r.from /\ over.answer = r.answer
      BY <3>2, <3>3, CallOver
    <3>5. QED
      BY <3>1, <3>4
  <2>5. ASSUME NEW d \in Calls
        PROVE  /\ CallOK(calls'[d])
               /\ calls'[d].button = calls[d].button /\ calls'[d].from = calls[d].from
               /\ calls'[d].answer = calls[d].answer /\ calls'[d].live = FALSE
               /\ d = c => calls'[d].stage = "over"
               /\ d # c => calls'[d].stage = calls[d].stage /\ calls'[d].wish = calls[d].wish
    <3>1. calls'[d] = [Over(c)[d] EXCEPT !.live = FALSE]
      BY <2>1
    <3>2. CallOK(Over(c)[d])
      BY <2>3, <2>4 DEF Base
    <3>3. /\ CallOK(calls'[d]) /\ calls'[d].stage = Over(c)[d].stage /\ calls'[d].live = FALSE
          /\ calls'[d].button = Over(c)[d].button /\ calls'[d].from = Over(c)[d].from
          /\ calls'[d].answer = Over(c)[d].answer /\ calls'[d].wish = Over(c)[d].wish
      BY <3>1, <3>2, CallLeft
    <3>4. QED
      BY <2>3, <2>4, <3>3
  <2>6. calls' = [d \in Calls |-> calls'[d]]
    BY <2>1
  <2>7. QED
    BY <1>1, <1>3, <2>1, <2>2, <2>5, <2>6 DEF Held
<1>4. QED
  BY <1>2, <1>3

-----------------------------------------------------------------------------
(* Base is an invariant: the reads *)

LEMMA InitBase == Init => Base
<1> SUFFICES ASSUME Init PROVE Base
  OBVIOUS
<1>1. use \in Uses /\ world \in Articles \union Deleted /\ alone \in BOOLEAN
  BY StartAssumption DEF Init
<1>2. page \in Pages
  BY DEF Init, Pages
<1>3. overrides \in [OverrideKeys -> [from: BOOLEAN, to: BOOLEAN] \union {None}]
  BY DEF Init, NoOverrides, OverrideKeys
<1>4. Missing \in Entries /\ \A k \in Keys : EntryOK(k, Missing)
  BY DEF Missing, Entries, EntryOK
<1>5. cache \in [Keys -> Entries] /\ \A k \in Keys : EntryOK(k, cache[k])
  BY <1>4 DEF Init
<1>6. calls = [c \in Calls |-> IdleCall]
  BY DEF Init
<1>7. CallOK(IdleCall)
  <2>1. IdleCall = [f \in Fields |-> IdleCall[f]]
    BY DEF IdleCall, Fields
  <2>2. QED
    BY <2>1, ButtonsApart DEF IdleCall, CallOK, Stages
<1>8. QED
  BY <1>1, <1>2, <1>3, <1>5, <1>6, <1>7 DEF Base

\* What a step that leaves the pages and the entries well formed has to show.
LEMMA CacheHolds ==
    ASSUME NEW store \in [Keys -> Entries], \A j \in Keys : EntryOK(j, store[j]),
           NEW k \in Keys, NEW e \in Entries, EntryOK(k, e),
           NEW after, after = [j \in Keys |-> after[j]], after[k] = e,
           \A j \in Keys \ {k} : after[j] = store[j]
    PROVE  after \in [Keys -> Entries] /\ \A j \in Keys : EntryOK(j, after[j])
<1>1. \A j \in Keys : after[j] \in Entries /\ EntryOK(j, after[j])
  OBVIOUS
<1>2. QED
  BY <1>1

LEMMA OpenBase ==
    ASSUME Base, NEW p \in Pages, Open(p)
    PROVE  Base'
<1>1. page' = p /\ cache' = MountOn(cache, p) /\ UNCHANGED <<use, world>> /\ alone' \in BOOLEAN
  BY DEF Open
<1>2. cache' \in [Keys -> Entries] /\ \A k \in Keys : EntryOK(k, cache'[k])
  <2>1. cache \in [Keys -> Entries] /\ \A k \in Keys : EntryOK(k, cache[k])
    BY DEF Base
  <2>2. MountOn(cache, p) \in [Keys -> Entries]
    BY <2>1, MountOnFacts
  <2>3. \A k \in Keys : EntryOK(k, MountOn(cache, p)[k])
    BY <2>1, MountOnOK
  <2>4. QED
    BY <1>1, <2>2, <2>3
<1>3. Held({}, Calls) /\ overrides' \in [OverrideKeys -> [from: BOOLEAN, to: BOOLEAN] \union {None}]
  BY LeaveHolds DEF Open
<1>4. QED
  BY <1>1, <1>2, <1>3 DEF Base, Held

LEMMA ReconnectBase ==
    ASSUME Base, Reconnect
    PROVE  Base'
<1>1. cache \in [Keys -> Entries] /\ (\A k \in Keys : EntryOK(k, cache[k])) /\ page \in Pages
  BY DEF Base
<1>2. MountOn(cache, page) \in [Keys -> Entries]
  BY <1>1, MountOnFacts
<1>3. \A k \in Keys : EntryOK(k, MountOn(cache, page)[k])
  BY <1>1, MountOnOK
<1>4. cache' = MountOn(cache, page) /\ alone' \in BOOLEAN
      /\ UNCHANGED <<use, world, page, overrides, calls>>
  BY DEF Reconnect
<1>5. QED
  BY <1>2, <1>3, <1>4 DEF Base

LEMMA ExpireBase ==
    ASSUME Base, NEW k \in Keys, Expire(k)
    PROVE  Base'
<1>1. PICK e \in Entries : e = cache[k] /\ EntryOK(k, e) /\ e.state = "loaded"
  BY DEF Base, Expire
<1>2. PICK f : f = [e EXCEPT !.stale = TRUE]
  OBVIOUS
<1>3. f \in Entries /\ EntryOK(k, f)
  BY <1>1, <1>2 DEF EntryOK, Entries
<1>4. /\ cache' = [j \in Keys |-> cache'[j]]
      /\ cache'[k] = f
      /\ \A j \in Keys \ {k} : cache'[j] = cache[j]
  BY <1>1, <1>2 DEF Base, Expire
<1>5. cache' \in [Keys -> Entries] /\ \A j \in Keys : EntryOK(j, cache'[j])
  BY <1>3, <1>4, CacheHolds DEF Base
<1>6. UNCHANGED <<use, world, page, overrides, calls, alone>>
  BY DEF Expire
<1>7. QED
  BY <1>5, <1>6 DEF Base

\* The article, when the API has it.
LEMMA WorldFacts ==
    ASSUME Base, world.slug # None
    PROVE  world \in Articles
BY NoneAssumption DEF Base, Deleted, Articles

LEMMA ServeReadBase ==
    ASSUME Base, NEW k \in Keys, ServeRead(k)
    PROVE  Base'
<1>1. PICK e \in Entries : e = cache[k] /\ EntryOK(k, e)
  BY DEF Base
<1>2. PICK found : found = IF world.slug = None \/ k \notin {world.slug, Feed} THEN None ELSE world
  OBVIOUS
<1>3. /\ found \in Articles \union {None}
      /\ k \in Slugs /\ found # None => found.slug = k
  BY <1>2, WorldFacts, MountedFacts, NoneAssumption
<1>4. PICK f : f = [e EXCEPT !.reading = "answered", !.found = found]
  OBVIOUS
<1>5. f \in Entries /\ EntryOK(k, f)
  BY <1>1, <1>3, <1>4 DEF EntryOK, Entries
<1>6. /\ cache' = [j \in Keys |-> cache'[j]]
      /\ cache'[k] = f
      /\ \A j \in Keys \ {k} : cache'[j] = cache[j]
  BY <1>1, <1>2, <1>4 DEF Base, ServeRead
<1>7. cache' \in [Keys -> Entries] /\ \A j \in Keys : EntryOK(j, cache'[j])
  BY <1>5, <1>6, CacheHolds DEF Base
<1>8. UNCHANGED <<use, world, page, overrides, calls, alone>>
  BY DEF ServeRead
<1>9. QED
  BY <1>7, <1>8 DEF Base

LEMMA ReceiveReadEntry ==
    ASSUME Base, NEW k \in Keys, ReceiveRead(k)
    PROVE  /\ cache' = [j \in Keys |-> cache'[j]]
           /\ cache'[k] \in Entries
           /\ cache'[k].state = "loaded" /\ cache'[k].data = cache[k].found /\ cache'[k].stale = FALSE
           /\ cache'[k].reading = "no" /\ cache'[k].found = None
           /\ \A j \in Keys \ {k} : cache'[j] = cache[j]
<1>1. PICK store : store = SetData(cache, k, cache[k].found)
  OBVIOUS
<1>2. cache' = [store EXCEPT ![k].reading = "no", ![k].found = None]
  BY <1>1 DEF ReceiveRead
<1>3. store[k] = [state |-> "loaded", data |-> cache[k].found, stale |-> FALSE,
                  reading |-> cache[k].reading, found |-> cache[k].found]
  BY <1>1, SetDataEntry DEF Base
<1>4. \A j \in Keys : j # k => store[j] = cache[j]
  BY <1>1, SetDataOthers DEF Base
<1>5. store \in [Keys -> Entries]
  <2>1. cache \in [Keys -> Entries]
    BY DEF Base
  <2>2. cache[k].found \in Articles \union {None}
    BY <2>1 DEF Entries
  <2>3. QED
    BY <1>1, <2>1, <2>2, SetDataType
<1>6. PICK e \in Entries : e = store[k]
  BY <1>5
<1>7. /\ cache' = [j \in Keys |-> cache'[j]]
      /\ cache'[k] = [e EXCEPT !.reading = "no", !.found = None]
      /\ \A j \in Keys \ {k} : cache'[j] = store[j]
  BY <1>2, <1>5, <1>6
<1>8. PICK f : f = [e EXCEPT !.reading = "no", !.found = None]
  OBVIOUS
<1>9. /\ f \in Entries /\ f.state = e.state /\ f.data = e.data /\ f.stale = e.stale
      /\ f.reading = "no" /\ f.found = None
  BY <1>8 DEF Entries
<1>10. e.state = "loaded" /\ e.data = cache[k].found /\ e.stale = FALSE
  BY <1>3, <1>6
<1>11. QED
  BY <1>4, <1>7, <1>8, <1>9, <1>10

LEMMA ReceiveReadBase ==
    ASSUME Base, NEW k \in Keys, ReceiveRead(k)
    PROVE  Base'
<1>1. PICK e \in Entries : e = cache[k] /\ EntryOK(k, e) /\ (k = Feed \/ e.found # None)
  BY DEF Base, ReceiveRead
<1>2. PICK f : f = cache'[k]
  OBVIOUS
<1>3. f \in Entries /\ EntryOK(k, f)
  <2>1. /\ f \in Entries /\ f.state = "loaded" /\ f.data = e.found /\ f.stale = FALSE
        /\ f.reading = "no" /\ f.found = None
    BY <1>1, <1>2, ReceiveReadEntry
  <2>2. QED
    BY <1>1, <2>1 DEF EntryOK
<1>4. /\ cache' = [j \in Keys |-> cache'[j]]
      /\ cache'[k] = f
      /\ \A j \in Keys \ {k} : cache'[j] = cache[j]
  BY <1>2, ReceiveReadEntry
<1>5. cache' \in [Keys -> Entries] /\ \A j \in Keys : EntryOK(j, cache'[j])
  BY <1>3, <1>4, CacheHolds DEF Base
<1>6. overrides' \in [OverrideKeys -> [from: BOOLEAN, to: BOOLEAN] \union {None}]
  BY RenderedFacts DEF Base, ReceiveRead
<1>7. UNCHANGED <<use, world, page, calls, alone>>
  BY DEF ReceiveRead
<1>8. QED
  BY <1>5, <1>6, <1>7 DEF Base

LEMMA FailReadBase ==
    ASSUME Base, NEW k \in Keys, FailRead(k)
    PROVE  Base'
<1>1. PICK e \in Entries : e = cache[k] /\ EntryOK(k, e)
  BY DEF Base
<1>2. PICK f : f = [e EXCEPT !.state = "failed", !.stale = TRUE, !.reading = "no", !.found = None]
  OBVIOUS
<1>3. f \in Entries /\ EntryOK(k, f)
  BY <1>1, <1>2 DEF EntryOK, Entries
<1>4. /\ cache' = [j \in Keys |-> cache'[j]]
      /\ cache'[k] = f
      /\ \A j \in Keys \ {k} : cache'[j] = cache[j]
  BY <1>1, <1>2 DEF Base, FailRead
<1>5. cache' \in [Keys -> Entries] /\ \A j \in Keys : EntryOK(j, cache'[j])
  BY <1>3, <1>4, CacheHolds DEF Base
<1>6. UNCHANGED <<use, world, page, alone>>
  BY DEF FailRead
<1>7. CASE k \in Mounted(page)
  <2>1. Held({}, Calls) /\ overrides' \in [OverrideKeys -> [from: BOOLEAN, to: BOOLEAN] \union {None}]
    BY <1>7, LeaveHolds DEF FailRead
  <2>2. QED
    BY <1>5, <1>6, <2>1 DEF Base, Held
<1>8. CASE k \notin Mounted(page)
  <2>1. UNCHANGED <<overrides, calls>>
    BY <1>8 DEF FailRead
  <2>2. QED
    BY <1>5, <1>6, <2>1 DEF Base
<1>9. QED
  BY <1>7, <1>8

-----------------------------------------------------------------------------
(* Base is an invariant: the buttons *)

\* What a click asks for has the type its button wants.
LEMMA WishFacts ==
    ASSUME Base, NEW b \in Buttons, NEW wish \in Wishes(b)
    PROVE  /\ b \in FavoriteButtons \union FollowButtons => wish \in BOOLEAN
           /\ b = "publish" => wish \in [slug: Slugs, text: Texts]
           /\ b = "publish" => wish.slug = Shown.slug \/ wish.text # Shown.text
           /\ b = "save" => wish \in Bios
<1>1. CASE b \in FavoriteButtons
  <2>1. Wishes(b) = {~FavoritedOn(b)}
    BY <1>1, ButtonsApart DEF Wishes
  <2>2. QED
    BY <1>1, <2>1, ButtonsApart
<1>2. CASE b \in FollowButtons
  <2>1. Wishes(b) = {~FollowingOn(b)}
    BY <1>2, ButtonsApart DEF Wishes
  <2>2. QED
    BY <1>2, <2>1, ButtonsApart
<1>3. CASE b \in {"publish", "save", "delete"}
  BY <1>3, ButtonsApart DEF Wishes
<1>4. QED
  BY <1>1, <1>2, <1>3 DEF Buttons, AuthorButtons

\* The call that a click makes.
LEMMA ClickFacts ==
    ASSUME Base, NEW c \in Calls, NEW b \in Buttons, Click(c, b)
    PROVE  /\ calls' = [d \in Calls |-> calls'[d]]
           /\ \A d \in Calls \ {c} : calls'[d] = calls[d]
           /\ calls'[c].stage = "sent" /\ calls'[c].button = b /\ calls'[c].live = TRUE
           /\ calls'[c].from = PropsOf(b) /\ calls'[c].wish \in Wishes(b) /\ calls'[c].answer = None
           /\ CallOK(calls'[c])
<1>1. PICK wish \in Wishes(b) :
        calls' = [calls EXCEPT ![c] = [IdleCall EXCEPT !.stage = "sent", !.button = b, !.live = TRUE,
                                                       !.from = PropsOf(b), !.wish = wish]]
  BY DEF Click
<1>2. PICK r : r = [IdleCall EXCEPT !.stage = "sent", !.button = b, !.live = TRUE,
                                    !.from = PropsOf(b), !.wish = wish]
  OBVIOUS
<1>3. /\ r = [f \in Fields |-> r[f]]
      /\ r.stage = "sent" /\ r.button = b /\ r.live = TRUE
      /\ r.from = PropsOf(b) /\ r.wish = wish /\ r.answer = None
  BY <1>2 DEF IdleCall, Fields
<1>4. b \in OfArticle => r.from \in Articles
  <2>1. SUFFICES ASSUME b \in OfArticle PROVE Shown \in Articles /\ b # "save"
    BY <1>3 DEF PropsOf
  <2>2. b # "save"
    BY <2>1 DEF OfArticle, FavoriteButtons, FollowButtons
  <2>3. Offered(b)
    BY DEF Click
  <2>4. QED
    BY <2>2, <2>3, OfferedShows
<1>5. CallOK(r)
  BY <1>3, <1>4, WishFacts DEF CallOK, Stages
<1>6. /\ calls' = [d \in Calls |-> calls'[d]]
      /\ \A d \in Calls \ {c} : calls'[d] = calls[d]
      /\ calls'[c] = r
  BY <1>1, <1>2 DEF Base
<1>7. QED
  BY <1>3, <1>5, <1>6

LEMMA ClickBase ==
    ASSUME Base, NEW c \in Calls, NEW b \in Buttons, Click(c, b)
    PROVE  Base'
<1>1. calls' = [d \in Calls |-> calls'[d]] /\ \A d \in Calls : CallOK(calls'[d])
  BY ClickFacts DEF Base
<1>2. UNCHANGED <<use, world, cache, page, overrides>> /\ alone' \in BOOLEAN
  BY DEF Click
<1>3. QED
  BY <1>1, <1>2 DEF Base

\* What the API makes of the article, and of nothing else of it.
LEMMA WishedFacts ==
    ASSUME Base, NEW c \in Calls, calls[c].stage = "sent", calls[c].button \in Buttons, Finds(calls[c])
    PROVE  /\ Wished(calls[c]) \in Articles \union Deleted
           /\ calls[c].button \in FavoriteButtons =>
                /\ Wished(calls[c]) \in Articles /\ world \in Articles
                /\ Wished(calls[c]).slug = world.slug /\ world.slug = calls[c].from.slug
                /\ Wished(calls[c]).text = world.text /\ Wished(calls[c]).bio = world.bio
           /\ calls[c].button \in FollowButtons =>
                /\ Wished(calls[c]).slug = world.slug /\ Wished(calls[c]).favorited = world.favorited
                /\ Wished(calls[c]).text = world.text /\ Wished(calls[c]).bio = world.bio
           /\ calls[c].button = "publish" =>
                /\ Wished(calls[c]) \in Articles /\ world.slug = calls[c].from.slug
                /\ Wished(calls[c]).favorited = world.favorited /\ Wished(calls[c]).bio = world.bio
                /\ Wished(calls[c]).slug = calls[c].wish.slug
           /\ calls[c].button = "save" => Wished(calls[c]).slug = world.slug
           /\ calls[c].button = "delete" => Wished(calls[c]).slug = None
<1>1. CallOK(calls[c]) /\ world \in Articles \union Deleted
  BY DEF Base
<1>2. CASE calls[c].button \in FavoriteButtons
  <2>1. calls[c].from \in Articles /\ calls[c].wish \in BOOLEAN
    BY <1>1, <1>2 DEF CallOK, OfArticle
  <2>2. calls[c].from.slug = world.slug
    BY <1>2, ButtonsApart DEF Finds
  <2>3. world \in Articles
    BY <2>1, <2>2, WorldFacts, NoneAssumption DEF Articles, Keys
  <2>4. Wished(calls[c]) = [world EXCEPT !.favorited = calls[c].wish]
    BY <1>2, ButtonsApart DEF Wished
  <2>5. QED
    BY <1>2, <2>1, <2>2, <2>3, <2>4, ButtonsApart DEF Articles
<1>3. CASE calls[c].button \in FollowButtons
  <2>1. calls[c].wish \in BOOLEAN
    BY <1>1, <1>3 DEF CallOK, OfArticle
  <2>2. Wished(calls[c]) = [world EXCEPT !.following = calls[c].wish]
    BY <1>3, ButtonsApart DEF Wished
  <2>3. QED
    BY <1>1, <1>3, <2>1, <2>2, ButtonsApart DEF Articles, Deleted
<1>4. CASE calls[c].button = "publish"
  <2>1. calls[c].from \in Articles /\ calls[c].wish \in [slug: Slugs, text: Texts]
    BY <1>1, <1>4 DEF CallOK, OfArticle
  <2>2. calls[c].from.slug = world.slug
    BY <1>4, ButtonsApart DEF Finds
  <2>3. world \in Articles
    BY <2>1, <2>2, WorldFacts, NoneAssumption DEF Articles, Keys
  <2>4. Wished(calls[c]) = [world EXCEPT !.slug = calls[c].wish.slug, !.text = calls[c].wish.text]
    BY <1>4, ButtonsApart DEF Wished
  <2>5. QED
    BY <1>4, <2>1, <2>2, <2>3, <2>4, ButtonsApart DEF Articles
<1>5. CASE calls[c].button = "save"
  <2>1. calls[c].wish \in Bios
    BY <1>1, <1>5 DEF CallOK
  <2>2. Wished(calls[c]) = [world EXCEPT !.bio = calls[c].wish]
    BY <1>5, ButtonsApart DEF Wished
  <2>3. QED
    BY <1>1, <1>5, <2>1, <2>2, ButtonsApart DEF Articles, Deleted
<1>6. CASE calls[c].button = "delete"
  <2>1. Wished(calls[c]) = [world EXCEPT !.slug = None]
    BY <1>6, ButtonsApart DEF Wished
  <2>2. QED
    BY <1>1, <1>6, <2>1, ButtonsApart DEF Articles, Deleted
<1>7. QED
  BY <1>2, <1>3, <1>4, <1>5, <1>6 DEF Buttons, AuthorButtons

LEMMA ServeFacts ==
    ASSUME Base, NEW c \in Calls, Serve(c)
    PROVE  /\ calls' = [d \in Calls |-> calls'[d]]
           /\ \A d \in Calls \ {c} : calls'[d] = calls[d]
           /\ calls'[c].stage = "served" /\ calls'[c].button = calls[c].button
           /\ calls'[c].live = calls[c].live /\ calls'[c].from = calls[c].from
           /\ calls'[c].answer = Wished(calls[c]) /\ CallOK(calls'[c])
<1>1. PICK r : r = calls[c] /\ CallOK(r) /\ r.stage = "sent" /\ r.button \in Buttons
  BY DEF Base, Serve
<1>2. PICK s : s = [r EXCEPT !.stage = "served", !.answer = Wished(calls[c])]
  OBVIOUS
<1>3. /\ calls' = [d \in Calls |-> calls'[d]]
      /\ \A d \in Calls \ {c} : calls'[d] = calls[d]
      /\ calls'[c] = s
  BY <1>1, <1>2 DEF Base, Serve
<1>4. DOMAIN r = Fields
  BY <1>1 DEF CallOK
<1>5. /\ s.stage = "served" /\ s.button = r.button /\ s.live = r.live /\ s.from = r.from
      /\ s.wish = r.wish /\ s.answer = Wished(calls[c])
  BY <1>2, <1>4 DEF Fields
<1>6. s = [f \in Fields |-> s[f]]
  BY <1>2, <1>4
<1>7. /\ s.answer \in Articles \union Deleted
      /\ s.button \in FavoriteButtons => s.answer \in Articles /\ s.answer.slug = s.from.slug
      /\ s.button = "publish" => s.answer \in Articles
  BY <1>1, <1>5, WishedFacts DEF Serve
<1>8. CallOK(s)
  BY <1>1, <1>5, <1>6, <1>7 DEF CallOK, Stages
<1>9. QED
  BY <1>1, <1>3, <1>5, <1>8

LEMMA ServeBase ==
    ASSUME Base, NEW c \in Calls, Serve(c)
    PROVE  Base'
<1>1. calls' = [d \in Calls |-> calls'[d]] /\ \A d \in Calls : CallOK(calls'[d])
  BY ServeFacts DEF Base
<1>2. world' \in Articles \union Deleted
  BY WishedFacts DEF Serve
<1>3. UNCHANGED <<use, cache, page, overrides, alone>>
  BY DEF Serve
<1>4. QED
  BY <1>1, <1>2, <1>3 DEF Base

LEMMA LoseFacts ==
    ASSUME Base, NEW c \in Calls, Lose(c)
    PROVE  /\ calls' = [d \in Calls |-> calls'[d]]
           /\ \A d \in Calls \ {c} : calls'[d] = calls[d]
           /\ calls'[c].stage = "lost" /\ calls'[c].button = calls[c].button /\ calls'[c].live = FALSE
           /\ CallOK(calls'[c])
<1>1. PICK s : s = [IdleCall EXCEPT !.stage = "lost", !.button = calls[c].button]
  OBVIOUS
<1>2. /\ s = [f \in Fields |-> s[f]] /\ s.stage = "lost" /\ s.button = calls[c].button
      /\ s.live = FALSE /\ s.answer = None
  BY <1>1 DEF IdleCall, Fields
<1>3. CallOK(s)
  BY <1>2 DEF CallOK, Stages, Base
<1>4. /\ calls' = [d \in Calls |-> calls'[d]]
      /\ \A d \in Calls \ {c} : calls'[d] = calls[d]
      /\ calls'[c] = s
  BY <1>1 DEF Base, Lose
<1>5. QED
  BY <1>2, <1>3, <1>4

LEMMA LoseBase ==
    ASSUME Base, NEW c \in Calls, Lose(c)
    PROVE  Base'
<1>1. calls' = [d \in Calls |-> calls'[d]] /\ \A d \in Calls : CallOK(calls'[d])
  BY LoseFacts DEF Base
<1>2. UNCHANGED <<use, world, cache, page, overrides>> /\ alone' \in BOOLEAN
  BY DEF Lose
<1>3. QED
  BY <1>1, <1>2 DEF Base

-----------------------------------------------------------------------------
(* Base is an invariant: the answers *)

\* What the callback of a call that was served holds.
LEMMA AnsweredFacts ==
    ASSUME Base, NEW c \in Calls, calls[c].stage \in {"served", "over"}
    PROVE  /\ calls[c].button \in Buttons => calls[c].answer \in Articles \union Deleted
           /\ calls[c].button \in FavoriteButtons =>
                /\ calls[c].answer \in Articles /\ calls[c].from \in Articles
                /\ calls[c].answer.slug = calls[c].from.slug /\ calls[c].from.slug \in Slugs
           /\ calls[c].button \in FollowButtons => calls[c].from \in Articles
           /\ calls[c].button = "publish" =>
                /\ calls[c].answer \in Articles /\ calls[c].from \in Articles
                /\ calls[c].answer.slug \in Slugs /\ calls[c].from.slug \in Slugs
<1>1. CallOK(calls[c])
  BY DEF Base
<1>2. calls[c].button \in FavoriteButtons \union FollowButtons \union {"publish"} => calls[c].from \in Articles
  BY <1>1 DEF CallOK, OfArticle
<1>3. QED
  BY <1>1, <1>2 DEF CallOK, Articles

LEMMA AnswerFavoriteBase ==
    ASSUME Base, NEW c \in Calls, AnswerFavorite(c)
    PROVE  Base' /\ Held({c}, {})
<1>1. calls[c].stage = "served" /\ calls[c].button \in FavoriteButtons
  BY DEF AnswerFavorite, Answered
<1>2. PICK k \in Slugs : k = calls[c].from.slug /\ k \in Keys
  BY <1>1, AnsweredFacts, MountedFacts DEF Keys
<1>3. PICK data \in Articles : data = calls[c].answer /\ data.slug = k
  BY <1>1, <1>2, AnsweredFacts
<1>4. cache' = SetData(cache, k, data)
  BY <1>2, <1>3 DEF AnswerFavorite
<1>5. cache' \in [Keys -> Entries]
  BY <1>2, <1>4, SetDataType DEF Base
<1>6. \A j \in Keys : EntryOK(j, cache'[j])
  BY <1>2, <1>3, <1>4, SetDataOK DEF Base
<1>7. overrides' \in [OverrideKeys -> [from: BOOLEAN, to: BOOLEAN] \union {None}]
  BY RenderedFacts DEF Base, AnswerFavorite
<1>8. Held({c}, {})
  BY <1>1, OverHolds DEF AnswerFavorite
<1>9. UNCHANGED <<use, world, page, alone>>
  BY DEF AnswerFavorite
<1>10. QED
  BY <1>5, <1>6, <1>7, <1>8, <1>9 DEF Base, Held

\* The entry of the article of the click, whole.
LEMMA AnswerFavoriteFacts ==
    ASSUME Base, NEW c \in Calls, AnswerFavorite(c)
    PROVE  /\ calls[c].stage = "served" /\ calls[c].button \in FavoriteButtons
           /\ calls[c].answer \in Articles
           /\ \E k \in Slugs :
                /\ k \in Keys /\ k = calls[c].from.slug /\ k = calls[c].answer.slug
                /\ cache'[k].state = "loaded" /\ cache'[k].data = calls[c].answer
                /\ cache'[k].stale = FALSE
                /\ cache'[k].reading = cache[k].reading /\ cache'[k].found = cache[k].found
                /\ \A j \in Keys : j # k => cache'[j] = cache[j]
                /\ overrides' = IF k \in Mounted(page) THEN Rendered(overrides, calls[c].answer.following)
                                ELSE overrides
<1>1. calls[c].stage = "served" /\ calls[c].button \in FavoriteButtons
  BY DEF AnswerFavorite, Answered
<1>2. PICK k \in Slugs : k = calls[c].from.slug /\ k \in Keys /\ k = calls[c].answer.slug
  BY <1>1, AnsweredFacts DEF Keys
<1>3. PICK data : data = calls[c].answer
  OBVIOUS
<1>4. cache' = SetData(cache, k, data) /\ cache \in [Keys -> Entries]
  BY <1>2, <1>3 DEF AnswerFavorite, Base
<1>5. PICK e : e = cache'[k]
  OBVIOUS
<1>6. e = [state |-> "loaded", data |-> data, stale |-> FALSE,
           reading |-> cache[k].reading, found |-> cache[k].found]
  BY <1>2, <1>4, <1>5, SetDataEntry
<1>7. /\ e.state = "loaded" /\ e.data = data /\ e.stale = FALSE
      /\ e.reading = cache[k].reading /\ e.found = cache[k].found
  BY <1>6
<1>8. \A j \in Keys : j # k => cache'[j] = cache[j]
  BY <1>2, <1>4, SetDataOthers
<1>9. overrides' = IF k \in Mounted(page) THEN Rendered(overrides, calls[c].answer.following) ELSE overrides
  BY <1>2 DEF AnswerFavorite
<1>10. calls[c].answer \in Articles
  BY <1>1, AnsweredFacts
<1>11. QED
  BY <1>1, <1>2, <1>3, <1>5, <1>7, <1>8, <1>9, <1>10

LEMMA AnswerPreviewBase ==
    ASSUME Base, NEW c \in Calls, AnswerPreview(c)
    PROVE  /\ Base' /\ Held({c}, {})
           /\ \A b \in FollowButtons : overrides'[b] = overrides[b]
<1>1. calls[c].stage = "served" /\ calls[c].button \in FavoriteButtons
  BY ButtonsApart DEF AnswerPreview, Answered
<1>2. calls[c].from.favorited \in BOOLEAN /\ calls[c].answer.favorited \in BOOLEAN
  BY <1>1, AnsweredFacts DEF Articles
<1>3. PICK o : o = [from |-> calls[c].from.favorited, to |-> calls[c].answer.favorited]
  OBVIOUS
<1>4. o \in [from: BOOLEAN, to: BOOLEAN]
  BY <1>2, <1>3
<1>5. overrides' = IF calls[c].live THEN [overrides EXCEPT !["favoritePreview"] = o] ELSE overrides
  BY <1>3 DEF AnswerPreview
<1>6. /\ overrides' \in [OverrideKeys -> [from: BOOLEAN, to: BOOLEAN] \union {None}]
      /\ \A b \in FollowButtons : overrides'[b] = overrides[b]
  BY <1>4, <1>5, ButtonsApart DEF Base, OverrideKeys
<1>7. Held({c}, {})
  BY <1>1, OverHolds DEF AnswerPreview
<1>8. UNCHANGED <<use, world, cache, page, alone>>
  BY DEF AnswerPreview
<1>9. QED
  BY <1>6, <1>7, <1>8 DEF Base, Held

LEMMA AnswerFollowBase ==
    ASSUME Base, NEW c \in Calls, AnswerFollow(c)
    PROVE  /\ Base' /\ Held({c}, {})
           /\ ~calls[c].live => overrides' = overrides
           /\ calls[c].live =>
                /\ \A b \in FollowButtons :
                     overrides'[b] # None => overrides'[b].from = Shown.following
                /\ \A b \in FollowButtons \ {calls[c].button} :
                     overrides'[b] # None => overrides'[b] = overrides[b]
<1>1. calls[c].stage = "served" /\ calls[c].button \in FollowButtons /\ calls[c].button \in Buttons
  BY ButtonsApart DEF AnswerFollow, Answered
<1>2. calls[c].from.following \in BOOLEAN /\ calls[c].answer.following \in BOOLEAN
  BY <1>1, AnsweredFacts DEF Articles, Deleted
<1>3. PICK o : o = [from |-> calls[c].from.following, to |-> calls[c].answer.following]
  OBVIOUS
<1>4. o \in [from: BOOLEAN, to: BOOLEAN]
  BY <1>2, <1>3
<1>5. PICK set : set = [overrides EXCEPT ![calls[c].button] = o]
  OBVIOUS
<1>6. /\ set \in [OverrideKeys -> [from: BOOLEAN, to: BOOLEAN] \union {None}]
      /\ \A b \in FollowButtons \ {calls[c].button} : set[b] = overrides[b]
  BY <1>1, <1>4, <1>5 DEF Base, OverrideKeys
<1>7. overrides' = IF calls[c].live THEN Rendered(set, Shown.following) ELSE overrides
  BY <1>3, <1>5 DEF AnswerFollow
<1>8. /\ Rendered(set, Shown.following) \in [OverrideKeys -> [from: BOOLEAN, to: BOOLEAN] \union {None}]
      /\ \A b \in FollowButtons :
           /\ Rendered(set, Shown.following)[b] \in {set[b], None}
           /\ Rendered(set, Shown.following)[b] # None => set[b].from = Shown.following
  BY <1>6, RenderedFacts
<1>9. overrides' \in [OverrideKeys -> [from: BOOLEAN, to: BOOLEAN] \union {None}]
  BY <1>7, <1>8 DEF Base
<1>10. Held({c}, {})
  BY <1>1, OverHolds DEF AnswerFollow
<1>11. UNCHANGED <<use, world, cache, page, alone>>
  BY DEF AnswerFollow
<1>12. Base'
  BY <1>9, <1>10, <1>11 DEF Base, Held
<1>13. calls[c].live =>
         /\ \A b \in FollowButtons :
              overrides'[b] # None => overrides'[b].from = Shown.following
         /\ \A b \in FollowButtons \ {calls[c].button} :
              overrides'[b] # None => overrides'[b] = overrides[b]
  BY <1>6, <1>7, <1>8
<1>14. QED
  BY <1>7, <1>10, <1>12, <1>13

\* The entries once a saved article is written: its own, none under the slug it
\* had, and the others as they were.
Written(store, saved, k, previous) ==
    /\ store[k].data = saved /\ store[k].state = "loaded" /\ store[k].stale = FALSE
    /\ store[k].reading = cache[k].reading /\ store[k].found = cache[k].found
    /\ previous # k => store[previous] = Missing
    /\ \A j \in Keys \ {k, previous} : store[j] = cache[j]

LEMMA SavedFacts ==
    ASSUME Base, NEW saved \in Articles, NEW k \in Slugs, k = saved.slug, NEW previous \in Slugs,
           NEW store, store = CacheSavedArticle(saved, previous)
    PROVE  /\ store \in [Keys -> Entries]
           /\ \A j \in Keys : EntryOK(j, store[j])
           /\ Written(store, saved, k, previous)
<1> USE DEF Written
<1>1. k \in Keys
  BY DEF Keys
<1>2. PICK written : written = SetData(cache, k, saved)
  OBVIOUS
<1>3. cache \in [Keys -> Entries] /\ previous \in Keys
  BY DEF Base, Keys
<1>4. written \in [Keys -> Entries]
  BY <1>1, <1>2, <1>3, SetDataType
<1>5. \A j \in Keys : EntryOK(j, written[j])
  BY <1>1, <1>2, SetDataOK DEF Base
<1>6. written[k] = [state |-> "loaded", data |-> saved, stale |-> FALSE,
                    reading |-> cache[k].reading, found |-> cache[k].found]
  BY <1>1, <1>2, <1>3, SetDataEntry
<1>7. \A j \in Keys : j # k => written[j] = cache[j]
  BY <1>1, <1>2, <1>3, SetDataOthers
<1>8. store = IF previous = k THEN written ELSE [written EXCEPT ![previous] = Missing]
  BY <1>2 DEF CacheSavedArticle
<1>9. Missing \in Entries /\ EntryOK(previous, Missing)
  BY DEF Missing, Entries, EntryOK
<1>10. CASE previous = k
  BY <1>1, <1>4, <1>5, <1>6, <1>7, <1>8, <1>10
<1>11. CASE previous # k
  <2>1. /\ store = [j \in Keys |-> store[j]] /\ store[previous] = Missing
        /\ \A j \in Keys \ {previous} : store[j] = written[j]
    BY <1>3, <1>4, <1>8, <1>11
  <2>2. store \in [Keys -> Entries] /\ \A j \in Keys : EntryOK(j, store[j])
    BY <1>3, <1>4, <1>5, <1>9, <2>1, CacheHolds
  <2>3. store[k] = written[k]
    BY <1>1, <1>11, <2>1
  <2>4. \A j \in Keys \ {k, previous} : store[j] = cache[j]
    BY <1>7, <2>1
  <2>5. QED
    BY <1>1, <1>6, <1>11, <2>1, <2>2, <2>3, <2>4
<1>12. QED
  BY <1>10, <1>11

LEMMA SavedStore ==
    ASSUME Base, NEW saved \in Articles, NEW previous \in Slugs
    PROVE  /\ CacheSavedArticle(saved, previous) \in [Keys -> Entries]
           /\ \A j \in Keys : EntryOK(j, CacheSavedArticle(saved, previous)[j])
<1>1. PICK k \in Slugs : k = saved.slug
  BY DEF Articles
<1>2. PICK store : store = CacheSavedArticle(saved, previous)
  OBVIOUS
<1>3. store \in [Keys -> Entries] /\ \A j \in Keys : EntryOK(j, store[j])
  BY <1>1, <1>2, SavedFacts
<1>4. QED
  BY <1>2, <1>3

LEMMA AnswerPublishFacts ==
    ASSUME Base, NEW c \in Calls, AnswerPublish(c)
    PROVE  /\ calls[c].stage = "served" /\ calls[c].button = "publish"
           /\ calls[c].answer \in Articles /\ calls[c].from.slug \in Slugs
           /\ calls[c].answer.slug \in Slugs
           /\ [name |-> "article", slug |-> calls[c].answer.slug] \in Pages
           /\ Push(c, [name |-> "article", slug |-> calls[c].answer.slug],
                   CacheSavedArticle(calls[c].answer, calls[c].from.slug))
           /\ UNCHANGED <<use, world, alone>>
<1>1. calls[c].stage = "served" /\ calls[c].button = "publish"
  BY DEF AnswerPublish, Answered
<1>2. calls[c].answer \in Articles /\ calls[c].from.slug \in Slugs /\ calls[c].answer.slug \in Slugs
  BY <1>1, AnsweredFacts
<1>3. [name |-> "article", slug |-> calls[c].answer.slug] \in Pages
  BY <1>2 DEF Pages
<1>4. QED
  BY <1>1, <1>2, <1>3 DEF AnswerPublish

LEMMA AnswerPublishBase ==
    ASSUME Base, NEW c \in Calls, AnswerPublish(c)
    PROVE  Base'
<1>1. PICK store : store = CacheSavedArticle(calls[c].answer, calls[c].from.slug)
  OBVIOUS
<1>2. PICK p \in Pages : p = [name |-> "article", slug |-> calls[c].answer.slug]
  BY AnswerPublishFacts
<1>3. Push(c, p, store) /\ calls[c].stage = "served"
  BY <1>1, <1>2, AnswerPublishFacts
<1>4. store \in [Keys -> Entries] /\ \A j \in Keys : EntryOK(j, store[j])
  BY <1>1, AnswerPublishFacts, SavedStore
<1>5. page' = p /\ cache' = MountOn(store, p)
  BY <1>3, <1>4, PushHolds
<1>6. /\ overrides' \in [OverrideKeys -> [from: BOOLEAN, to: BOOLEAN] \union {None}]
      /\ Held({c}, {}) \/ Held({c}, Calls)
  BY <1>3, <1>4, PushHolds
<1>7. cache' \in [Keys -> Entries]
  BY <1>4, <1>5, MountOnFacts
<1>8. \A j \in Keys : EntryOK(j, cache'[j])
  BY <1>4, <1>5, MountOnOK
<1>9. QED
  BY <1>5, <1>6, <1>7, <1>8, AnswerPublishFacts DEF Base, Held

\* What embeds the author is read anew: at once when it is on screen.
LEMMA InvalidateFacts ==
    ASSUME Base
    PROVE  /\ InvalidateAuthorCaches(cache) \in [Keys -> Entries]
           /\ \A k \in Keys :
                /\ EntryOK(k, InvalidateAuthorCaches(cache)[k])
                /\ InvalidateAuthorCaches(cache)[k].state = cache[k].state
                /\ InvalidateAuthorCaches(cache)[k].data = cache[k].data
                /\ cache[k].data = None => InvalidateAuthorCaches(cache)[k] = cache[k]
                /\ cache[k].data # None =>
                     /\ InvalidateAuthorCaches(cache)[k].stale = TRUE
                     /\ k \in Mounted(page) => /\ InvalidateAuthorCaches(cache)[k].reading = "asked"
                                               /\ InvalidateAuthorCaches(cache)[k].found = None
                     /\ k \notin Mounted(page) =>
                          /\ InvalidateAuthorCaches(cache)[k].reading = cache[k].reading
                          /\ InvalidateAuthorCaches(cache)[k].found = cache[k].found
<1>1. PICK store : store = InvalidateAuthorCaches(cache)
  OBVIOUS
<1>2. ASSUME NEW k \in Keys
      PROVE  /\ store[k] \in Entries /\ EntryOK(k, store[k])
             /\ store[k].state = cache[k].state /\ store[k].data = cache[k].data
             /\ cache[k].data = None => store[k] = cache[k]
             /\ cache[k].data # None =>
                  /\ store[k].stale = TRUE
                  /\ k \in Mounted(page) => store[k].reading = "asked" /\ store[k].found = None
                  /\ k \notin Mounted(page) =>
                       store[k].reading = cache[k].reading /\ store[k].found = cache[k].found
  <2>1. PICK e \in Entries : e = cache[k] /\ EntryOK(k, e)
    BY DEF Base
  <2>2. store[k] = IF e.data = None THEN e
                   ELSE IF k \in Mounted(page) THEN Ask([e EXCEPT !.stale = TRUE])
                   ELSE [e EXCEPT !.stale = TRUE]
    BY <1>1, <2>1 DEF InvalidateAuthorCaches
  <2>3. PICK f : f = [e EXCEPT !.stale = TRUE]
    OBVIOUS
  <2>4. /\ f \in Entries /\ EntryOK(k, f) /\ f.stale = TRUE /\ f.state = e.state /\ f.data = e.data
        /\ f.reading = e.reading /\ f.found = e.found
    BY <2>1, <2>3 DEF Entries, EntryOK
  <2>5. PICK g : g = Ask(f)
    OBVIOUS
  <2>6. /\ g \in Entries /\ EntryOK(k, g) /\ g.stale = TRUE /\ g.state = e.state /\ g.data = e.data
        /\ g.reading = "asked" /\ g.found = None
    BY <2>4, <2>5 DEF Entries, EntryOK, Ask
  <2>7. store[k] = IF e.data = None THEN e ELSE IF k \in Mounted(page) THEN g ELSE f
    BY <2>2, <2>3, <2>5
  <2>8. QED
    BY <2>1, <2>4, <2>6, <2>7
<1>3. store = [k \in Keys |-> store[k]]
  BY <1>1 DEF InvalidateAuthorCaches
<1>4. store \in [Keys -> Entries]
  BY <1>2, <1>3
<1>5. QED
  BY <1>1, <1>2, <1>4

LEMMA AnswerSaveBase ==
    ASSUME Base, NEW c \in Calls, AnswerSave(c)
    PROVE  Base'
<1>1. PICK store : store = InvalidateAuthorCaches(cache)
  OBVIOUS
<1>2. PICK p \in Pages : p = [name |-> "profile", slug |-> None]
  BY DEF Pages
<1>3. Push(c, p, store) /\ calls[c].stage = "served" /\ UNCHANGED <<use, world, alone>>
  BY <1>1, <1>2 DEF AnswerSave, Answered
<1>4. store \in [Keys -> Entries]
  BY <1>1, InvalidateFacts
<1>5. \A j \in Keys : EntryOK(j, store[j])
  BY <1>1, InvalidateFacts
<1>6. page' = p /\ cache' = MountOn(store, p)
  BY <1>3, <1>4, PushHolds
<1>7. /\ overrides' \in [OverrideKeys -> [from: BOOLEAN, to: BOOLEAN] \union {None}]
      /\ Held({c}, {}) \/ Held({c}, Calls)
  BY <1>3, <1>4, PushHolds
<1>8. cache' \in [Keys -> Entries]
  BY <1>4, <1>6, MountOnFacts
<1>9. \A j \in Keys : EntryOK(j, cache'[j])
  BY <1>4, <1>5, <1>6, MountOnOK
<1>10. QED
  BY <1>3, <1>6, <1>7, <1>8, <1>9 DEF Base, Held

LEMMA AnswerDeleteBase ==
    ASSUME Base, NEW c \in Calls, AnswerDelete(c)
    PROVE  Base'
<1>1. PICK p \in Pages : p = [name |-> "list", slug |-> None]
  BY DEF Pages
<1>2. Push(c, p, cache) /\ calls[c].stage = "served" /\ UNCHANGED <<use, world, alone>>
  BY <1>1 DEF AnswerDelete, Answered
<1>3. cache \in [Keys -> Entries] /\ \A j \in Keys : EntryOK(j, cache[j])
  BY DEF Base
<1>4. page' = p /\ cache' = MountOn(cache, p)
  BY <1>2, <1>3, PushHolds
<1>5. /\ overrides' \in [OverrideKeys -> [from: BOOLEAN, to: BOOLEAN] \union {None}]
      /\ Held({c}, {}) \/ Held({c}, Calls)
  BY <1>2, <1>3, PushHolds
<1>6. cache' \in [Keys -> Entries]
  BY <1>3, <1>4, MountOnFacts
<1>7. \A j \in Keys : EntryOK(j, cache'[j])
  BY <1>3, <1>4, MountOnOK
<1>8. QED
  BY <1>2, <1>4, <1>5, <1>6, <1>7 DEF Base, Held

LEMMA ElsewhereBase ==
    ASSUME Base, NEW f \in {"favorited", "following"}, Elsewhere(f)
    PROVE  Base'
<1>1. world' = [world EXCEPT ![f] = ~@] /\ alone' = FALSE
      /\ UNCHANGED <<use, cache, page, overrides, calls>>
  BY DEF Elsewhere
<1>2. world \in Articles
  BY WorldFacts DEF Elsewhere
<1>3. world' \in Articles
  <2>1. CASE f = "favorited"
    BY <1>1, <1>2, <2>1 DEF Articles
  <2>2. CASE f = "following"
    BY <1>1, <1>2, <2>2 DEF Articles
  <2>3. QED
    BY <2>1, <2>2
<1>4. QED
  BY <1>1, <1>3 DEF Base

LEMMA ChatBase ==
    ASSUME Base, Chat
    PROVE  Base'
<1>1. /\ UNCHANGED <<use, world, cache, page, overrides, alone>>
      /\ calls' = [c \in Calls |-> calls'[c]]
  BY DEF Chat
<1>2. \A c \in Calls : CallOK(calls'[c])
  BY DEF Base, Chat
<1>3. QED
  BY <1>1, <1>2 DEF Base

-----------------------------------------------------------------------------
(* Every step *)

Step == Next \/ UNCHANGED vars \/ Chat

LEMMA BaseStep ==
    ASSUME Base, Step
    PROVE  Base'
<1>1. ASSUME NEW p \in Pages, Open(p) PROVE Base'
  BY <1>1, OpenBase
<1>2. CASE Reconnect
  BY <1>2, ReconnectBase
<1>3. ASSUME NEW k \in Keys, Expire(k) \/ ServeRead(k) \/ ReceiveRead(k) \/ FailRead(k) PROVE Base'
  BY <1>3, ExpireBase, ServeReadBase, ReceiveReadBase, FailReadBase
<1>4. ASSUME NEW c \in Calls, NEW b \in Buttons, Click(c, b) PROVE Base'
  BY <1>4, ClickBase
<1>5. ASSUME NEW c \in Calls, Serve(c) \/ Lose(c) PROVE Base'
  BY <1>5, ServeBase, LoseBase
<1>6. ASSUME NEW c \in Calls, AnswerFavorite(c) \/ AnswerPreview(c) \/ AnswerFollow(c) PROVE Base'
  BY <1>6, AnswerFavoriteBase, AnswerPreviewBase, AnswerFollowBase
<1>7. ASSUME NEW c \in Calls, AnswerPublish(c) \/ AnswerSave(c) \/ AnswerDelete(c) PROVE Base'
  BY <1>7, AnswerPublishBase, AnswerSaveBase, AnswerDeleteBase
<1>8. ASSUME NEW f \in {"favorited", "following"}, Elsewhere(f) PROVE Base'
  BY <1>8, ElsewhereBase
<1>9. CASE UNCHANGED vars
  BY <1>9 DEF Base, vars
<1>10. CASE Chat
  BY <1>10, ChatBase
<1>11. QED
  BY <1>1, <1>2, <1>3, <1>4, <1>5, <1>6, <1>7, <1>8, <1>9, <1>10 DEF Step, Next

LEMMA BaseTypes == Base => TypeOK
<1> SUFFICES ASSUME Base PROVE TypeOK
  OBVIOUS
<1>1. ASSUME NEW k \in Keys
      PROVE  /\ cache[k].state \in {"missing", "loaded", "failed"}
             /\ cache[k].stale \in BOOLEAN /\ cache[k].reading \in {"no", "asked", "answered"}
             /\ cache[k].data \in Articles \union {None} /\ cache[k].found \in Articles \union {None}
             /\ cache[k].state = "loaded" /\ k # Feed => cache[k].data # None
  <2>1. cache[k] \in Entries /\ EntryOK(k, cache[k])
    BY DEF Base
  <2>2. QED
    BY <2>1 DEF Entries, EntryOK
<1>2. ASSUME NEW c \in Calls
      PROVE  /\ calls[c].stage \in {"idle", "sent", "served", "over", "lost"}
             /\ calls[c].live \in BOOLEAN
             /\ calls[c].answer \in Articles \union Deleted \union {None}
  BY DEF Base, CallOK, Stages
<1>3. QED
  BY <1>1, <1>2 DEF TypeOK, Base

-----------------------------------------------------------------------------
(* A page is never blank *)

\* What is missing on the page that mounts is asked.
LEMMA MountOnAsks ==
    ASSUME NEW store \in [Keys -> Entries], \A k \in Keys : EntryOK(k, store[k]), NEW p \in Pages,
           NEW k \in Mounted(p), MountOn(store, p)[k].state = "missing"
    PROVE  MountOn(store, p)[k].reading # "no"
<1>1. k \in Keys
  BY MountedFacts
<1>2. store[k].state = "missing"
  BY <1>1, MountOnFacts
<1>3. store[k].stale
  BY <1>1, <1>2 DEF EntryOK
<1>4. CASE store[k].reading = "no"
  <2>1. MountOn(store, p)[k].reading = "asked"
    BY <1>1, <1>3, <1>4, MountOnFacts
  <2>2. QED
    BY <2>1
<1>5. CASE store[k].reading # "no"
  <2>1. MountOn(store, p)[k] = store[k]
    BY <1>1, <1>5, MountOnFacts
  <2>2. QED
    BY <1>5, <2>1
<1>6. QED
  BY <1>4, <1>5

LEMMA NeverBlankStep ==
    ASSUME Base, NeverBlank, Step
    PROVE  NeverBlank'
<1> USE DEF NeverBlank
<1>1. cache \in [Keys -> Entries] /\ (\A k \in Keys : EntryOK(k, cache[k])) /\ page \in Pages
  BY DEF Base
<1>2. Mounted(page) \subseteq Keys
  BY <1>1, MountedFacts
<1>3. ASSUME NEW p \in Pages, Open(p) PROVE NeverBlank'
  <2>1. page' = p /\ cache' = MountOn(cache, p)
    BY <1>3 DEF Open
  <2>2. QED
    BY <1>1, <2>1, MountOnAsks
<1>4. CASE Reconnect
  <2>1. page' = page /\ cache' = MountOn(cache, page)
    BY <1>4 DEF Reconnect
  <2>2. QED
    BY <1>1, <2>1, MountOnAsks
<1>5. ASSUME NEW k \in Keys, Expire(k) PROVE NeverBlank'
  <2>1. page' = page /\ cache' = [cache EXCEPT ![k].stale = TRUE]
    BY <1>5 DEF Expire
  <2>2. \A j \in Keys : cache'[j].state = cache[j].state /\ cache'[j].reading = cache[j].reading
    BY <1>1, <2>1 DEF Entries
  <2>3. QED
    BY <1>2, <2>1, <2>2
<1>6. ASSUME NEW k \in Keys, ServeRead(k) PROVE NeverBlank'
  <2>1. page' = page /\ (\A j \in Keys \ {k} : cache'[j] = cache[j]) /\ cache'[k].reading = "answered"
    BY <1>1, <1>6 DEF ServeRead, Entries
  <2>2. QED
    BY <1>2, <2>1
<1>7. ASSUME NEW k \in Keys, ReceiveRead(k) PROVE NeverBlank'
  <2>1. page' = page /\ (\A j \in Keys \ {k} : cache'[j] = cache[j]) /\ cache'[k].state = "loaded"
    BY <1>7, ReceiveReadEntry DEF ReceiveRead
  <2>2. QED
    BY <1>2, <2>1
<1>8. ASSUME NEW k \in Keys, FailRead(k) PROVE NeverBlank'
  <2>1. page' = page /\ (\A j \in Keys \ {k} : cache'[j] = cache[j]) /\ cache'[k].state = "failed"
    BY <1>1, <1>8 DEF FailRead, Entries
  <2>2. QED
    BY <1>2, <2>1
<1>9. ASSUME NEW c \in Calls, AnswerFavorite(c) PROVE NeverBlank'
  <2>1. PICK k \in Keys : cache'[k].state = "loaded" /\ \A j \in Keys : j # k => cache'[j] = cache[j]
    BY <1>9, AnswerFavoriteFacts
  <2>2. page' = page
    BY <1>9 DEF AnswerFavorite
  <2>3. QED
    BY <1>2, <2>1, <2>2
<1>10. ASSUME NEW c \in Calls, calls[c].stage = "served", NEW p \in Pages,
              NEW store \in [Keys -> Entries], \A k \in Keys : EntryOK(k, store[k]), Push(c, p, store)
       PROVE  NeverBlank'
  <2>1. page' = p /\ cache' = MountOn(store, p)
    BY <1>10 DEF Push
  <2>2. QED
    BY <1>10, <2>1, MountOnAsks
<1>11. ASSUME NEW c \in Calls, AnswerPublish(c) PROVE NeverBlank'
  <2>1. PICK store : store = CacheSavedArticle(calls[c].answer, calls[c].from.slug)
    OBVIOUS
  <2>2. PICK p \in Pages : p = [name |-> "article", slug |-> calls[c].answer.slug]
    BY <1>11, AnswerPublishFacts
  <2>3. Push(c, p, store) /\ calls[c].stage = "served"
    BY <1>11, <2>1, <2>2, AnswerPublishFacts
  <2>4. store \in [Keys -> Entries] /\ \A j \in Keys : EntryOK(j, store[j])
    BY <1>11, <2>1, AnswerPublishFacts, SavedStore
  <2>5. QED
    BY <1>10, <2>3, <2>4
<1>12. ASSUME NEW c \in Calls, AnswerSave(c) PROVE NeverBlank'
  <2>1. PICK store : store = InvalidateAuthorCaches(cache)
    OBVIOUS
  <2>2. PICK p \in Pages : p = [name |-> "profile", slug |-> None]
    BY DEF Pages
  <2>3. Push(c, p, store) /\ calls[c].stage = "served"
    BY <1>12, <2>1, <2>2 DEF AnswerSave, Answered
  <2>4. store \in [Keys -> Entries] /\ \A j \in Keys : EntryOK(j, store[j])
    BY <2>1, InvalidateFacts
  <2>5. QED
    BY <1>10, <2>3, <2>4
<1>13. ASSUME NEW c \in Calls, AnswerDelete(c) PROVE NeverBlank'
  <2>1. PICK p \in Pages : p = [name |-> "list", slug |-> None]
    BY DEF Pages
  <2>2. Push(c, p, cache) /\ calls[c].stage = "served"
    BY <1>13, <2>1 DEF AnswerDelete, Answered
  <2>3. QED
    BY <1>1, <1>10, <2>2
<1>14. CASE UNCHANGED <<cache, page>>
  BY <1>14
<1>15. ASSUME NEW c \in Calls, NEW b \in Buttons, Click(c, b) PROVE NeverBlank'
  BY <1>14, <1>15 DEF Click
<1>16. ASSUME NEW c \in Calls, Serve(c) \/ Lose(c) PROVE NeverBlank'
  BY <1>14, <1>16 DEF Serve, Lose
<1>17. ASSUME NEW c \in Calls, AnswerPreview(c) \/ AnswerFollow(c) PROVE NeverBlank'
  BY <1>14, <1>17 DEF AnswerPreview, AnswerFollow
<1>18. ASSUME NEW f \in {"favorited", "following"}, Elsewhere(f) PROVE NeverBlank'
  BY <1>14, <1>18 DEF Elsewhere
<1>19. CASE UNCHANGED vars \/ Chat
  BY <1>14, <1>19 DEF vars, Chat
<1>20. QED
  BY <1>3, <1>4, <1>5, <1>6, <1>7, <1>8, <1>9, <1>11, <1>12, <1>13, <1>15, <1>16, <1>17, <1>18, <1>19
     DEF Step, Next

-----------------------------------------------------------------------------
(* What the answers that open a page do *)

\* The state of the components, gone unless the page was already there.
Pushed(c) ==
    /\ page' = page => overrides' = Rendered(overrides, calls[c].answer.following) /\ Held({c}, {})
    /\ page' # page => overrides' = NoOverrides /\ Held({c}, Calls)

LEMMA AnswerPublishEffect ==
    ASSUME Base, NEW c \in Calls, AnswerPublish(c)
    PROVE  /\ calls[c].stage = "served" /\ calls[c].button = "publish" /\ calls[c].answer \in Articles
           /\ Pushed(c) /\ UNCHANGED <<use, world, alone>>
           /\ \E k, j \in Slugs :
                /\ k \in Keys /\ j \in Keys /\ k # Feed /\ j # Feed
                /\ k = calls[c].answer.slug /\ j = calls[c].from.slug
                /\ page' = [name |-> "article", slug |-> k] /\ page' \in Pages /\ Mounted(page') = {k}
                /\ cache'[k].state = "loaded" /\ cache'[k].data = calls[c].answer
                /\ cache'[k].stale = FALSE
                /\ cache'[k].reading = cache[k].reading /\ cache'[k].found = cache[k].found
                /\ k # j => cache'[j] = Missing
                /\ \A i \in Keys \ {k, j} : cache'[i] = cache[i]
<1>1. PICK store : store = CacheSavedArticle(calls[c].answer, calls[c].from.slug)
  OBVIOUS
<1>2. PICK k, j \in Slugs : k = calls[c].answer.slug /\ j = calls[c].from.slug
  BY AnswerPublishFacts
<1>3. PICK p \in Pages : p = [name |-> "article", slug |-> k]
  BY <1>2, AnswerPublishFacts
<1>4. Push(c, p, store) /\ calls[c].stage = "served"
  BY <1>1, <1>2, <1>3, AnswerPublishFacts
<1>5. store \in [Keys -> Entries]
  BY <1>1, AnswerPublishFacts, SavedStore
<1>6. PICK saved \in Articles : saved = calls[c].answer /\ saved.slug = k
  BY <1>2, AnswerPublishFacts
<1>7. store = CacheSavedArticle(saved, j)
  BY <1>1, <1>2, <1>6
<1>8. Written(store, saved, k, j)
  BY <1>6, <1>7, SavedFacts
<1>9. /\ store[k].data = saved /\ store[k].state = "loaded" /\ store[k].stale = FALSE
      /\ store[k].reading = cache[k].reading /\ store[k].found = cache[k].found
      /\ k # j => store[j] = Missing
  BY <1>8 DEF Written
<1>10. \A i \in Keys \ {k, j} : store[i] = cache[i]
  BY <1>8 DEF Written
<1>11. page' = p /\ cache' = MountOn(store, p)
  BY <1>4, <1>5, PushHolds
<1>12. Pushed(c)
  BY <1>4, <1>5, <1>11, PushHolds DEF Pushed
<1>13. k \in Keys /\ j \in Keys /\ k # Feed /\ j # Feed /\ Mounted(p) = {k}
  BY <1>3, MountedFacts DEF Mounted
<1>14. cache'[k] = store[k]
  BY <1>5, <1>9, <1>11, <1>13, MountOnFacts
<1>15. \A i \in Keys \ {k} : cache'[i] = store[i]
  BY <1>5, <1>11, <1>13, MountOnFacts
<1>16. \A i \in Keys \ {k, j} : cache'[i] = cache[i]
  BY <1>10, <1>15
<1>17. k # j => cache'[j] = Missing
  BY <1>9, <1>13, <1>15
<1>18. /\ cache'[k].state = "loaded" /\ cache'[k].data = calls[c].answer
       /\ cache'[k].stale = FALSE
       /\ cache'[k].reading = cache[k].reading /\ cache'[k].found = cache[k].found
  BY <1>6, <1>9, <1>14
<1>19. QED
  BY <1>2, <1>3, <1>11, <1>12, <1>13, <1>16, <1>17, <1>18, AnswerPublishFacts

LEMMA ProfileAndList ==
    /\ [name |-> "profile", slug |-> None] \in Pages /\ Mounted([name |-> "profile", slug |-> None]) = {}
    /\ [name |-> "list", slug |-> None] \in Pages /\ Mounted([name |-> "list", slug |-> None]) = {Feed}
<1>1. [name |-> "profile", slug |-> None] \in Pages /\ [name |-> "list", slug |-> None] \in Pages
  BY DEF Pages
<1>2. \A p : p = [name |-> "profile", slug |-> None] => Mounted(p) = {}
  BY DEF Mounted
<1>3. \A p : p = [name |-> "list", slug |-> None] => Mounted(p) = {Feed}
  BY DEF Mounted
<1>4. QED
  BY <1>1, <1>2, <1>3

LEMMA AnswerSaveEffect ==
    ASSUME Base, NEW c \in Calls, AnswerSave(c)
    PROVE  /\ calls[c].stage = "served" /\ calls[c].button = "save"
           /\ Pushed(c) /\ UNCHANGED <<use, world, alone>>
           /\ page' = [name |-> "profile", slug |-> None] /\ Mounted(page') = {}
           /\ \A k \in Keys :
                /\ cache'[k].state = cache[k].state /\ cache'[k].data = cache[k].data
                /\ cache[k].data = None => cache'[k] = cache[k]
                /\ cache[k].data # None =>
                     /\ cache'[k].stale = TRUE
                     /\ k \in Mounted(page) => cache'[k].reading = "asked" /\ cache'[k].found = None
                     /\ k \notin Mounted(page) =>
                          cache'[k].reading = cache[k].reading /\ cache'[k].found = cache[k].found
<1>1. PICK store : store = InvalidateAuthorCaches(cache)
  OBVIOUS
<1>2. PICK p \in Pages : p = [name |-> "profile", slug |-> None] /\ Mounted(p) = {}
  BY ProfileAndList
<1>3. /\ Push(c, p, store) /\ calls[c].stage = "served" /\ calls[c].button = "save"
      /\ UNCHANGED <<use, world, alone>>
  BY <1>1, <1>2 DEF AnswerSave, Answered
<1>4. store \in [Keys -> Entries]
  BY <1>1, InvalidateFacts
<1>5. page' = p /\ cache' = MountOn(store, p) /\ Pushed(c)
  BY <1>3, <1>4, PushHolds DEF Pushed
<1>6. \A k \in Keys : cache'[k] = store[k]
  BY <1>2, <1>4, <1>5, MountOnFacts
<1>7. \A k \in Keys :
        /\ store[k].state = cache[k].state /\ store[k].data = cache[k].data
        /\ cache[k].data = None => store[k] = cache[k]
  BY <1>1, InvalidateFacts
<1>8. \A k \in Keys : cache[k].data # None =>
        /\ store[k].stale = TRUE
        /\ k \in Mounted(page) => store[k].reading = "asked" /\ store[k].found = None
        /\ k \notin Mounted(page) => store[k].reading = cache[k].reading /\ store[k].found = cache[k].found
  BY <1>1, InvalidateFacts
<1>9. QED
  BY <1>2, <1>3, <1>5, <1>6, <1>7, <1>8

LEMMA AnswerDeleteEffect ==
    ASSUME Base, NEW c \in Calls, AnswerDelete(c)
    PROVE  /\ calls[c].stage = "served" /\ calls[c].button = "delete"
           /\ Pushed(c) /\ UNCHANGED <<use, world, alone>>
           /\ page' = [name |-> "list", slug |-> None] /\ Mounted(page') = {Feed}
           /\ \A k \in Slugs : k \in Keys /\ k # Feed /\ cache'[k] = cache[k]
<1>1. PICK p \in Pages : p = [name |-> "list", slug |-> None] /\ Mounted(p) = {Feed}
  BY ProfileAndList
<1>2. /\ Push(c, p, cache) /\ calls[c].stage = "served" /\ calls[c].button = "delete"
      /\ UNCHANGED <<use, world, alone>>
  BY <1>1 DEF AnswerDelete, Answered
<1>3. cache \in [Keys -> Entries]
  BY DEF Base
<1>4. page' = p /\ cache' = MountOn(cache, p) /\ Pushed(c)
  BY <1>2, <1>3, PushHolds DEF Pushed
<1>5. \A k \in Keys \ {Feed} : cache'[k] = cache[k]
  BY <1>1, <1>3, <1>4, MountOnFacts
<1>6. \A k \in Slugs : k \in Keys /\ k # Feed
  BY NoneAssumption DEF Keys
<1>7. QED
  BY <1>1, <1>2, <1>4, <1>5, <1>6

-----------------------------------------------------------------------------
(* The follow buttons *)

\* A follow button that is still there is on a page that shows the article.
LiveAt ==
    \A c \in Calls : calls[c].live /\ calls[c].button \in FollowButtons => ShowsArticle(page)

\* What a click left on a follow button was made of what the page still shows.
OverrideAt ==
    \A b \in FollowButtons : overrides[b] # None =>
        ShowsArticle(page) /\ overrides[b].from = cache[page.slug].data.following

\* What a step does to the follow buttons and to the article they are under.
FollowKept ==
    /\ LiveAt' /\ OverrideAt'
    /\ page' = page /\ (\E k \in Mounted(page) : cache'[k].data # cache[k].data) =>
         \A b \in FollowButtons : overrides'[b] \in {overrides[b], None}

LEMMA ShowsArticleFacts ==
    ASSUME Base, ShowsArticle(page)
    PROVE  /\ page.slug \in Slugs /\ page.slug \in Keys /\ Mounted(page) = {page.slug}
           /\ cache[page.slug].state = "loaded" /\ page.name = "article"
           /\ Shown = cache[page.slug].data /\ page.slug # Feed
<1>1. page.name = "article" /\ cache[page.slug].state = "loaded"
  BY DEF ShowsArticle
<1>2. page.slug \in Slugs /\ page.slug \in Keys /\ Mounted(page) = {page.slug} /\ page.slug # Feed
  BY <1>1, MountedFacts DEF Base
<1>3. QED
  BY <1>1, <1>2, ShownIsOf

\* Steps that neither open a page nor touch what the page shows, nor the buttons.
LEMMA FollowUntouched ==
    ASSUME Base, LiveAt, OverrideAt, page' = page,
           \A k \in Mounted(page) : cache'[k].state = cache[k].state /\ cache'[k].data = cache[k].data,
           \A b \in FollowButtons : overrides'[b] = overrides[b],
           \A c \in Calls : calls'[c].live /\ calls'[c].button \in FollowButtons =>
             ShowsArticle(page) \/ (calls[c].live /\ calls[c].button \in FollowButtons)
    PROVE  FollowKept
<1>1. ShowsArticle(page) => ShowsArticle(page)' /\ cache'[page.slug].data = cache[page.slug].data
  BY ShowsArticleFacts DEF ShowsArticle
<1>2. LiveAt'
  BY <1>1 DEF LiveAt
<1>3. OverrideAt'
  BY <1>1 DEF OverrideAt
<1>4. QED
  BY <1>2, <1>3 DEF FollowKept

\* Steps after which no button has its state any more.
LEMMA FollowGone ==
    ASSUME Base, overrides' = NoOverrides, \A c \in Calls : calls'[c].live = FALSE
    PROVE  FollowKept
<1>1. \A b \in FollowButtons : overrides'[b] = None
  BY DEF NoOverrides
<1>2. LiveAt' /\ OverrideAt'
  BY <1>1 DEF LiveAt, OverrideAt
<1>3. QED
  BY <1>1, <1>2 DEF FollowKept

\* Fresh data under the follow buttons of the page.
LEMMA FollowRendered ==
    ASSUME Base, LiveAt, OverrideAt, page' = page, NEW k \in Slugs, Mounted(page) = {k},
           cache'[k].state = "loaded",
           overrides' = Rendered(overrides, cache'[k].data.following),
           \A c \in Calls : calls'[c].live => calls[c].live /\ calls[c].button = calls'[c].button
    PROVE  FollowKept
<1>1. PICK following : following = cache'[k].data.following
  OBVIOUS
<1>2. \A b \in FollowButtons :
        /\ overrides'[b] \in {overrides[b], None}
        /\ overrides'[b] # None => overrides[b].from = following
  BY <1>1, RenderedFacts DEF Base
<1>3. ShowsArticle(page) => ShowsArticle(page)' /\ page.slug = k
  BY ShowsArticleFacts DEF ShowsArticle
<1>4. LiveAt'
  BY <1>3 DEF LiveAt
<1>5. OverrideAt'
  BY <1>1, <1>2, <1>3 DEF OverrideAt
<1>6. QED
  BY <1>2, <1>4, <1>5 DEF FollowKept

LEMMA PushedFollow ==
    ASSUME Base, NEW c \in Calls, Pushed(c)
    PROVE  /\ \A d \in Calls : calls'[d].live => calls[d].live /\ calls[d].button = calls'[d].button
           /\ page' # page => overrides' = NoOverrides /\ \A d \in Calls : calls'[d].live = FALSE
BY DEF Pushed, Held

LEMMA FollowStep ==
    ASSUME Base, LiveAt, OverrideAt, Step
    PROVE  FollowKept
<1>1. cache \in [Keys -> Entries] /\ page \in Pages /\ Mounted(page) \subseteq Keys
  BY MountedFacts DEF Base
<1>2. ASSUME NEW p \in Pages, Open(p) PROVE FollowKept
  BY <1>2, LeaveHolds, FollowGone DEF Open, Held
<1>3. CASE UNCHANGED <<page, cache, overrides>> /\ \A c \in Calls : calls'[c].live /\ calls'[c].button \in FollowButtons =>
             ShowsArticle(page) \/ (calls[c].live /\ calls[c].button \in FollowButtons)
  BY <1>3, FollowUntouched
<1>4. CASE Reconnect
  <2>1. cache' = MountOn(cache, page) /\ UNCHANGED <<page, overrides, calls>>
    BY <1>4 DEF Reconnect
  <2>2. \A k \in Keys : cache'[k].state = cache[k].state /\ cache'[k].data = cache[k].data
    BY <1>1, <2>1, MountOnFacts
  <2>3. QED
    BY <1>1, <2>1, <2>2, FollowUntouched
<1>5. ASSUME NEW k \in Keys, Expire(k) PROVE FollowKept
  <2>1. cache' = [cache EXCEPT ![k].stale = TRUE] /\ UNCHANGED <<page, overrides, calls>>
    BY <1>5 DEF Expire
  <2>2. \A j \in Keys : cache'[j].state = cache[j].state /\ cache'[j].data = cache[j].data
    BY <1>1, <2>1 DEF Entries
  <2>3. QED
    BY <1>1, <2>1, <2>2, FollowUntouched
<1>6. ASSUME NEW k \in Keys, ServeRead(k) PROVE FollowKept
  <2>1. UNCHANGED <<page, overrides, calls>>
    BY <1>6 DEF ServeRead
  <2>2. \A j \in Keys : cache'[j].state = cache[j].state /\ cache'[j].data = cache[j].data
    BY <1>1, <1>6 DEF ServeRead, Entries
  <2>3. QED
    BY <1>1, <2>1, <2>2, FollowUntouched
<1>7. ASSUME NEW k \in Keys, ReceiveRead(k) PROVE FollowKept
  <2>1. UNCHANGED <<page, calls>> /\ \A j \in Keys \ {k} : cache'[j] = cache[j]
    BY <1>7, ReceiveReadEntry DEF ReceiveRead
  <2>2. CASE k \in Mounted(page) /\ k # Feed
    <3>1. overrides' = Rendered(overrides, cache[k].found.following)
      BY <1>7, <2>2 DEF ReceiveRead
    <3>2. cache'[k].state = "loaded" /\ cache'[k].data = cache[k].found
      BY <1>7, ReceiveReadEntry
    <3>3. k \in Slugs /\ Mounted(page) = {k}
      BY <1>1, <2>2, MountedFacts
    <3>4. overrides' = Rendered(overrides, cache'[k].data.following)
      BY <3>1, <3>2
    <3>5. QED
      BY <2>1, <3>2, <3>3, <3>4, FollowRendered
  <2>3. CASE k \notin Mounted(page)
    <3>1. overrides' = overrides
      BY <1>7, <2>3 DEF ReceiveRead
    <3>2. QED
      BY <1>1, <2>1, <2>3, <3>1, FollowUntouched
  <2>4. CASE k \in Mounted(page) /\ k = Feed
    <3>1. overrides' = overrides /\ ~ShowsArticle(page)
      BY <1>7, <2>4, ShowsArticleFacts DEF ReceiveRead
    <3>2. /\ \A b \in FollowButtons : overrides'[b] = None
          /\ \A c \in Calls : ~(calls'[c].live /\ calls'[c].button \in FollowButtons)
      BY <2>1, <3>1 DEF OverrideAt, LiveAt
    <3>3. QED
      BY <3>2 DEF FollowKept, OverrideAt, LiveAt
  <2>5. QED
    BY <2>2, <2>3, <2>4
<1>8. ASSUME NEW k \in Keys, FailRead(k) PROVE FollowKept
  <2>1. CASE k \in Mounted(page)
    BY <1>8, <2>1, LeaveHolds, FollowGone DEF FailRead, Held
  <2>2. CASE k \notin Mounted(page)
    <3>1. UNCHANGED <<page, overrides, calls>> /\ \A j \in Keys \ {k} : cache'[j] = cache[j]
      BY <1>1, <1>8, <2>2 DEF FailRead
    <3>2. QED
      BY <1>1, <2>2, <3>1, FollowUntouched
  <2>3. QED
    BY <2>1, <2>2
<1>9. ASSUME NEW c \in Calls, NEW b \in Buttons, Click(c, b) PROVE FollowKept
  <2>1. UNCHANGED <<page, cache, overrides>>
    BY <1>9 DEF Click
  <2>2. b \in FollowButtons => ShowsArticle(page)
    BY <1>9, ButtonsApart DEF Click, Offered, FollowButtons
  <2>3. (\A d \in Calls \ {c} : calls'[d] = calls[d]) /\ calls'[c].button = b
    BY <1>9, ClickFacts
  <2>4. QED
    BY <1>3, <2>1, <2>2, <2>3
<1>10. ASSUME NEW c \in Calls, Serve(c) PROVE FollowKept
  <2>1. UNCHANGED <<page, cache, overrides>>
    BY <1>10 DEF Serve
  <2>2. (\A d \in Calls \ {c} : calls'[d] = calls[d])
        /\ calls'[c].button = calls[c].button /\ calls'[c].live = calls[c].live
    BY <1>10, ServeFacts
  <2>3. QED
    BY <1>3, <2>1, <2>2
<1>11. ASSUME NEW c \in Calls, Lose(c) PROVE FollowKept
  <2>1. UNCHANGED <<page, cache, overrides>>
    BY <1>11 DEF Lose
  <2>2. (\A d \in Calls \ {c} : calls'[d] = calls[d]) /\ calls'[c].live = FALSE
    BY <1>11, LoseFacts
  <2>3. QED
    BY <1>3, <2>1, <2>2
<1>12. ASSUME NEW c \in Calls, AnswerFavorite(c) PROVE FollowKept
  <2>1. PICK k \in Slugs :
          /\ k \in Keys /\ cache'[k].state = "loaded" /\ cache'[k].data = calls[c].answer
          /\ \A j \in Keys : j # k => cache'[j] = cache[j]
          /\ overrides' = IF k \in Mounted(page) THEN Rendered(overrides, calls[c].answer.following)
                          ELSE overrides
    BY <1>12, AnswerFavoriteFacts
  <2>2. \A d \in Calls : calls'[d].live => calls[d].live /\ calls[d].button = calls'[d].button
    BY <1>12, AnswerFavoriteBase DEF Held
  <2>3. page' = page
    BY <1>12 DEF AnswerFavorite
  <2>4. CASE k \in Mounted(page)
    <3>1. Mounted(page) = {k}
      BY <1>1, <2>4, MountedFacts
    <3>2. overrides' = Rendered(overrides, cache'[k].data.following)
      BY <2>1, <2>4
    <3>3. QED
      BY <2>1, <2>2, <2>3, <3>1, <3>2, FollowRendered
  <2>5. CASE k \notin Mounted(page)
    BY <1>1, <2>1, <2>2, <2>3, <2>5, FollowUntouched
  <2>6. QED
    BY <2>4, <2>5
<1>13. ASSUME NEW c \in Calls, AnswerPreview(c) PROVE FollowKept
  <2>1. UNCHANGED <<page, cache>> /\ \A b \in FollowButtons : overrides'[b] = overrides[b]
    BY <1>13, AnswerPreviewBase DEF AnswerPreview
  <2>2. \A d \in Calls : calls'[d].live => calls[d].live /\ calls[d].button = calls'[d].button
    BY <1>13, AnswerPreviewBase DEF Held
  <2>3. QED
    BY <2>1, <2>2, FollowUntouched
<1>14. ASSUME NEW c \in Calls, AnswerFollow(c) PROVE FollowKept
  <2>1. UNCHANGED <<page, cache>>
    BY <1>14 DEF AnswerFollow
  <2>2. \A d \in Calls : calls'[d].live => calls[d].live /\ calls[d].button = calls'[d].button
    BY <1>14, AnswerFollowBase DEF Held
  <2>3. CASE ~calls[c].live
    <3>1. overrides' = overrides
      BY <1>14, <2>3, AnswerFollowBase
    <3>2. QED
      BY <2>1, <2>2, <3>1, FollowUntouched
  <2>4. CASE calls[c].live
    <3>1. calls[c].button \in FollowButtons
      BY <1>14 DEF AnswerFollow, Answered
    <3>2. ShowsArticle(page) /\ ShowsArticle(page)'
      BY <2>1, <2>4, <3>1 DEF LiveAt, ShowsArticle
    <3>3. \A b \in FollowButtons : overrides'[b] # None => overrides'[b].from = Shown.following
      BY <1>14, <2>4, AnswerFollowBase
    <3>4. Shown = cache'[page'.slug].data
      BY <2>1, <3>2, ShowsArticleFacts
    <3>5. OverrideAt' /\ LiveAt'
      BY <3>2, <3>3, <3>4 DEF OverrideAt, LiveAt
    <3>6. QED
      BY <2>1, <3>5 DEF FollowKept
  <2>5. QED
    BY <2>3, <2>4
<1>15. ASSUME NEW c \in Calls, AnswerPublish(c) PROVE FollowKept
  <2>1. PICK k \in Slugs :
          /\ k = calls[c].answer.slug
          /\ cache'[k].state = "loaded" /\ cache'[k].data = calls[c].answer
          /\ Mounted(page') = {k}
    BY <1>15, AnswerPublishEffect
  <2>2. Pushed(c)
    BY <1>15, AnswerPublishEffect
  <2>3. CASE page' = page
    <3>1. overrides' = Rendered(overrides, cache'[k].data.following)
      BY <2>1, <2>2, <2>3 DEF Pushed
    <3>2. \A d \in Calls : calls'[d].live => calls[d].live /\ calls[d].button = calls'[d].button
      BY <2>2, PushedFollow
    <3>3. Mounted(page) = {k}
      BY <2>1, <2>3
    <3>4. QED
      BY <2>1, <2>3, <3>1, <3>2, <3>3, FollowRendered
  <2>4. CASE page' # page
    BY <2>2, <2>4, PushedFollow, FollowGone
  <2>5. QED
    BY <2>3, <2>4
<1>16. ASSUME NEW c \in Calls, Pushed(c), page'.name # "article"
       PROVE  FollowKept
  <2>1. CASE page' = page
    <3>1. ~ShowsArticle(page)
      BY <1>16, <2>1 DEF ShowsArticle
    <3>2. \A b \in FollowButtons : overrides[b] = None
      BY <3>1 DEF OverrideAt
    <3>3. \A b \in FollowButtons : overrides'[b] = None
      <4>1. PICK following : overrides' = Rendered(overrides, following)
        BY <1>16, <2>1 DEF Pushed
      <4>2. \A b \in FollowButtons : overrides'[b] \in {overrides[b], None}
        BY <4>1, RenderedFacts DEF Base
      <4>3. QED
        BY <3>2, <4>2
    <3>4. \A d \in Calls : ~(calls'[d].live /\ calls'[d].button \in FollowButtons)
      BY <1>16, <3>1, PushedFollow DEF LiveAt
    <3>5. QED
      BY <3>3, <3>4 DEF FollowKept, OverrideAt, LiveAt
  <2>2. CASE page' # page
    BY <1>16, <2>2, PushedFollow, FollowGone
  <2>3. QED
    BY <2>1, <2>2
<1>17. ASSUME NEW c \in Calls, AnswerSave(c) PROVE FollowKept
  <2>1. Pushed(c) /\ page' = [name |-> "profile", slug |-> None]
    BY <1>17, AnswerSaveEffect
  <2>2. page'.name # "article"
    BY <2>1
  <2>3. QED
    BY <1>16, <2>1, <2>2
<1>18. ASSUME NEW c \in Calls, AnswerDelete(c) PROVE FollowKept
  BY <1>16, <1>18, AnswerDeleteEffect
<1>19. ASSUME NEW f \in {"favorited", "following"}, Elsewhere(f) PROVE FollowKept
  BY <1>3, <1>19 DEF Elsewhere
<1>20. CASE UNCHANGED vars
  BY <1>3, <1>20 DEF vars
<1>21. CASE Chat
  <2>1. UNCHANGED <<page, cache, overrides>>
    BY <1>21 DEF Chat
  <2>2. \A c \in Calls : calls'[c].live /\ calls'[c].button \in FollowButtons =>
          calls[c].live /\ calls[c].button \in FollowButtons
    BY <1>21, ButtonsApart DEF Chat
  <2>3. QED
    BY <1>3, <2>1, <2>2
<1>22. QED
  BY <1>2, <1>4, <1>5, <1>6, <1>7, <1>8, <1>9, <1>10, <1>11, <1>12, <1>13, <1>14, <1>15, <1>17, <1>18,
     <1>19, <1>20, <1>21 DEF Step, Next

\* The step of FreshPropWins.
LEMMA FreshPropWinsStep ==
    ASSUME Base, Base', OverrideAt, FollowKept, page' = page, ShowsArticle(page), ShowsArticle(page)',
           Shown'.following # Shown.following, NEW b \in FollowButtons
    PROVE  FollowingOn(b)' = Shown'.following
<1>1. Mounted(page) = {page.slug} /\ page.slug \in Keys /\ Shown = cache[page.slug].data
  BY ShowsArticleFacts
<1>2. Mounted(page)' = {page.slug} /\ Shown' = cache'[page.slug].data
  <2>1. Mounted(page)' = {page.slug}
    BY <1>1 DEF Mounted
  <2>2. {cache'[j].data : j \in Mounted(page)'} = {cache'[page.slug].data}
    BY <2>1
  <2>3. QED
    BY <2>1, <2>2 DEF Shown
<1>3. overrides'[b] \in {overrides[b], None}
  BY <1>1, <1>2 DEF FollowKept
<1>4. overrides[b] # None => overrides[b].from = Shown.following
  BY <1>1 DEF OverrideAt
<1>5. overrides'[b] # None => overrides'[b].from = Shown'.following
  BY <1>2 DEF FollowKept, OverrideAt
<1>6. overrides'[b] = None
  BY <1>3, <1>4, <1>5
<1>7. QED
  BY <1>6 DEF FollowingOn

-----------------------------------------------------------------------------
(* What calls keep *)

\* Buttons are those of the use of the tab.
UsedAt == \A c \in Calls : calls[c].button \in Buttons => calls[c].button \in use.buttons

\* A call keeps its button, what its button was given and what it was answered;
\* one that was served is not sent again.
Kept ==
    /\ use' = use
    /\ \A d \in Calls :
         /\ \/ calls'[d].button = calls[d].button
            \/ calls[d].stage = "idle" /\ calls'[d].stage = "sent" /\ calls'[d].button \in use.buttons
            \/ /\ calls'[d].button \in CommentButtons
               /\ calls[d].button \in CommentButtons \union {None}
         /\ calls'[d].button \in Buttons /\ calls'[d].stage \in {"served", "over"} =>
              /\ calls'[d].from = calls[d].from
              /\ \/ calls[d].stage = "sent" /\ calls'[d].stage = "served" /\ Serve(d)
                 \/ calls[d].stage = "served" /\ calls'[d].answer = calls[d].answer
                 \/ /\ calls[d].stage = "over" /\ calls'[d].stage = "over"
                    /\ calls'[d].answer = calls[d].answer

LEMMA HeldKept ==
    ASSUME Base, NEW over, NEW left, Held(over, left), \A c \in over : calls[c].stage = "served",
           use' = use
    PROVE  Kept
BY DEF Held, Kept

LEMMA KeptStep ==
    ASSUME Base, Step
    PROVE  Kept
<1>1. CASE UNCHANGED <<use, calls>>
  BY <1>1 DEF Kept, Base, CallOK, Stages
<1>2. ASSUME NEW p \in Pages, Open(p) PROVE Kept
  BY <1>2, LeaveHolds, HeldKept DEF Open
<1>3. CASE Reconnect
  BY <1>1, <1>3 DEF Reconnect
<1>4. ASSUME NEW k \in Keys, Expire(k) \/ ServeRead(k) \/ ReceiveRead(k) PROVE Kept
  BY <1>1, <1>4 DEF Expire, ServeRead, ReceiveRead
<1>5. ASSUME NEW k \in Keys, FailRead(k) PROVE Kept
  <2>1. CASE k \in Mounted(page)
    BY <1>5, <2>1, LeaveHolds, HeldKept DEF FailRead
  <2>2. CASE k \notin Mounted(page)
    BY <1>1, <1>5, <2>2 DEF FailRead
  <2>3. QED
    BY <2>1, <2>2
<1>6. ASSUME NEW c \in Calls, NEW b \in Buttons, Click(c, b) PROVE Kept
  <2>1. /\ \A d \in Calls \ {c} : calls'[d] = calls[d]
        /\ calls'[c].stage = "sent" /\ calls'[c].button = b
    BY <1>6, ClickFacts
  <2>2. use' = use /\ calls[c].stage = "idle" /\ b \in use.buttons
    BY <1>6 DEF Click
  <2>3. QED
    BY <2>1, <2>2 DEF Kept, Base, CallOK, Stages
<1>7. ASSUME NEW c \in Calls, Serve(c) PROVE Kept
  <2>1. /\ \A d \in Calls \ {c} : calls'[d] = calls[d]
        /\ calls'[c].stage = "served" /\ calls'[c].button = calls[c].button
        /\ calls'[c].from = calls[c].from
    BY <1>7, ServeFacts
  <2>2. use' = use /\ calls[c].stage = "sent"
    BY <1>7 DEF Serve
  <2>3. QED
    BY <1>7, <2>1, <2>2 DEF Kept, Base, CallOK, Stages
<1>8. ASSUME NEW c \in Calls, Lose(c) PROVE Kept
  <2>1. /\ \A d \in Calls \ {c} : calls'[d] = calls[d]
        /\ calls'[c].stage = "lost" /\ calls'[c].button = calls[c].button
    BY <1>8, LoseFacts
  <2>2. use' = use
    BY <1>8 DEF Lose
  <2>3. QED
    BY <2>1, <2>2 DEF Kept, Base, CallOK, Stages
<1>9. ASSUME NEW c \in Calls, Held({c}, {}) \/ Held({c}, Calls), use' = use, calls[c].stage = "served"
      PROVE  Kept
  BY <1>9, HeldKept
<1>10. ASSUME NEW c \in Calls, AnswerFavorite(c) PROVE Kept
  BY <1>9, <1>10, AnswerFavoriteBase DEF AnswerFavorite, Answered
<1>11. ASSUME NEW c \in Calls, AnswerPreview(c) PROVE Kept
  BY <1>9, <1>11, AnswerPreviewBase DEF AnswerPreview, Answered
<1>12. ASSUME NEW c \in Calls, AnswerFollow(c) PROVE Kept
  BY <1>9, <1>12, AnswerFollowBase DEF AnswerFollow, Answered
<1>13. ASSUME NEW c \in Calls, AnswerPublish(c) PROVE Kept
  BY <1>9, <1>13, AnswerPublishEffect DEF Pushed
<1>14. ASSUME NEW c \in Calls, AnswerSave(c) PROVE Kept
  BY <1>9, <1>14, AnswerSaveEffect DEF Pushed
<1>15. ASSUME NEW c \in Calls, AnswerDelete(c) PROVE Kept
  BY <1>9, <1>15, AnswerDeleteEffect DEF Pushed
<1>16. ASSUME NEW f \in {"favorited", "following"}, Elsewhere(f) PROVE Kept
  BY <1>1, <1>16 DEF Elsewhere
<1>17. CASE UNCHANGED vars
  BY <1>1, <1>17 DEF vars
<1>18. CASE Chat
  <2>1. use' = use
    BY <1>18 DEF Chat
  <2>2. ASSUME NEW d \in Calls
        PROVE  \/ calls'[d] = calls[d]
               \/ /\ calls'[d].button \in CommentButtons /\ calls'[d].button \notin Buttons
                  /\ calls[d].button \in CommentButtons \union {None}
    BY <1>18, ButtonsApart DEF Chat
  <2>3. QED
    BY <2>1, <2>2 DEF Kept, Base, CallOK, Stages
<1>19. QED
  BY <1>2, <1>3, <1>4, <1>5, <1>6, <1>7, <1>8, <1>10, <1>11, <1>12, <1>13, <1>14, <1>15, <1>16, <1>17, <1>18
     DEF Step, Next

LEMMA UsedStep ==
    ASSUME Base, UsedAt, Kept
    PROVE  UsedAt'
<1>1. ASSUME NEW d \in Calls, calls'[d].button \in Buttons
      PROVE  calls'[d].button \in use'.buttons
  BY <1>1, ButtonsApart DEF Kept, UsedAt
<1>2. QED
  BY <1>1 DEF UsedAt

-----------------------------------------------------------------------------
(* No article under the slug of before *)

OnlyPublish(c) ==
    /\ calls[c].button = "publish" /\ calls[c].stage \in {"served", "over"}
    /\ \A d \in Calls \ {c} : calls[d].button # "publish"

\* The article is where the only renaming has put it, or is deleted; once the
\* renaming was answered no entry, and no read on its way, has it elsewhere.
GhostAt ==
    \A c \in Calls : OnlyPublish(c) =>
      /\ world.slug \in {calls[c].answer.slug, None}
      /\ calls[c].stage = "over" /\ calls[c].answer.slug # calls[c].from.slug =>
           cache[calls[c].from.slug].data = None /\ cache[calls[c].from.slug].found = None

Empty(entry) == entry.data = None /\ entry.found = None

\* A step keeps GhostAt when it moves the article to no other slug and brings
\* nothing into an entry that holds none, the answer to the renaming excepted.
LEMMA GhostKept ==
    ASSUME Base, GhostAt, Kept, NEW c \in Calls, OnlyPublish(c)',
           ~AnswerPublish(c), calls[c].stage = "served" => calls'[c].stage = "served",
           OnlyPublish(c) => world'.slug \in {world.slug, None},
           OnlyPublish(c) /\ calls[c].answer.slug # calls[c].from.slug /\ calls[c].stage = "over"
             /\ world.slug # calls[c].from.slug /\ Empty(cache[calls[c].from.slug]) =>
             Empty(cache'[calls[c].from.slug])
    PROVE  /\ world'.slug \in {calls'[c].answer.slug, None}
           /\ calls'[c].stage = "over" /\ calls'[c].answer.slug # calls'[c].from.slug =>
                cache'[calls'[c].from.slug].data = None /\ cache'[calls'[c].from.slug].found = None
<1>1. /\ calls'[c].button = "publish" /\ calls'[c].stage \in {"served", "over"}
      /\ \A d \in Calls \ {c} : calls'[d].button # "publish"
  BY DEF OnlyPublish
<1>2. "publish" \in Buttons /\ "publish" \notin CommentButtons
  BY ButtonsApart
<1>3. calls[c].button = "publish" /\ calls'[c].from = calls[c].from
  BY <1>1, <1>2 DEF Kept
<1>4. \A d \in Calls \ {c} : calls[d].button # "publish"
  <2>1. ASSUME NEW d \in Calls \ {c}, calls[d].button = "publish" PROVE FALSE
    <3>1. calls[d].stage # "idle"
      BY <2>1, <1>2, ButtonsApart DEF Base, CallOK
    <3>2. calls'[d].button = calls[d].button
      BY <2>1, <3>1, <1>2, ButtonsApart DEF Kept
    <3>3. QED
      BY <1>1, <2>1, <3>2
  <2>2. QED
    BY <2>1
<1>5. CASE calls[c].stage = "sent" /\ Serve(c)
  <2>1. calls'[c].stage = "served" /\ calls'[c].answer = Wished(calls[c]) /\ world' = Wished(calls[c])
    BY <1>5, ServeFacts DEF Serve
  <2>2. QED
    BY <2>1
<1>6. CASE calls[c].stage \in {"served", "over"} /\ calls'[c].answer = calls[c].answer
  <2>1. OnlyPublish(c)
    BY <1>3, <1>4, <1>6 DEF OnlyPublish
  <2>2. world'.slug \in {calls'[c].answer.slug, None}
    BY <1>6, <2>1 DEF GhostAt
  <2>3. CASE calls'[c].stage = "over" /\ calls'[c].answer.slug # calls'[c].from.slug
    <3>1. calls[c].stage = "over" /\ calls[c].answer.slug # calls[c].from.slug
      BY <1>3, <1>6, <2>3
    <3>2. cache[calls[c].from.slug].data = None /\ cache[calls[c].from.slug].found = None
      BY <2>1, <3>1 DEF GhostAt
    <3>3. calls[c].from.slug \in Slugs
      BY <1>3, <3>1, AnsweredFacts
    <3>4. world.slug # calls[c].from.slug
      BY <2>1, <3>1, <3>3, NoneAssumption DEF GhostAt, Keys
    <3>5. QED
      BY <1>3, <2>1, <2>2, <3>1, <3>2, <3>4 DEF Empty
  <2>4. QED
    BY <2>2, <2>3
<1>7. QED
  BY <1>1, <1>2, <1>5, <1>6 DEF Kept

\* The answer to a renaming is the only end of it.
LEMMA PublishEnds ==
    ASSUME Base, Step, NEW c \in Calls, calls[c].button = "publish", calls[c].stage = "served",
           calls'[c].stage = "over"
    PROVE  AnswerPublish(c)
<1>1. "publish" \notin FavoriteButtons \union FollowButtons
  BY ButtonsApart
<1>2. ASSUME NEW left, Held({}, left) PROVE FALSE
  BY <1>2 DEF Held
<1>3. ASSUME NEW d \in Calls, NEW left, Held({d}, left), calls[d].button # "publish" PROVE FALSE
  <2>1. c \notin {d}
    BY <1>3
  <2>2. QED
    BY <1>3, <2>1 DEF Held
<1>4. ASSUME calls'[c] = calls[c] PROVE FALSE
  BY <1>4
<1>5. ASSUME NEW p \in Pages, Open(p) PROVE FALSE
  BY <1>2, <1>5, LeaveHolds DEF Open
<1>6. ASSUME NEW k \in Keys, FailRead(k) PROVE FALSE
  BY <1>2, <1>4, <1>6, LeaveHolds DEF FailRead
<1>7. ASSUME NEW d \in Calls, NEW b \in Buttons, Click(d, b) PROVE FALSE
  BY <1>4, <1>7, ClickFacts
<1>8. ASSUME NEW d \in Calls, Serve(d) \/ Lose(d) PROVE FALSE
  BY <1>4, <1>8, ServeFacts, LoseFacts
<1>9. ASSUME NEW d \in Calls, AnswerFavorite(d) PROVE FALSE
  BY <1>1, <1>3, <1>9, AnswerFavoriteBase DEF AnswerFavorite, Answered
<1>10. ASSUME NEW d \in Calls, AnswerPreview(d) PROVE FALSE
  BY <1>3, <1>10, AnswerPreviewBase DEF AnswerPreview, Answered
<1>11. ASSUME NEW d \in Calls, AnswerFollow(d) PROVE FALSE
  BY <1>1, <1>3, <1>11, AnswerFollowBase DEF AnswerFollow, Answered
<1>12. ASSUME NEW d \in Calls, AnswerSave(d) PROVE FALSE
  BY <1>3, <1>12, AnswerSaveEffect DEF Pushed
<1>13. ASSUME NEW d \in Calls, AnswerDelete(d) PROVE FALSE
  BY <1>3, <1>13, AnswerDeleteEffect DEF Pushed
<1>14. ASSUME NEW d \in Calls, AnswerPublish(d) PROVE d = c
  <2>1. Pushed(d)
    BY <1>14, AnswerPublishEffect
  <2>2. CASE d # c
    <3>1. c \notin {d}
      BY <2>2
    <3>2. calls'[c].stage = calls[c].stage
      BY <2>1, <3>1 DEF Pushed, Held
    <3>3. QED
      BY <3>2
  <2>3. QED
    BY <2>2
<1>15. ASSUME Chat PROVE FALSE
  BY <1>4, <1>15, ButtonsApart DEF Chat
<1>16. ASSUME UNCHANGED calls PROVE FALSE
  BY <1>4, <1>16
<1>17. QED
  BY <1>5, <1>6, <1>7, <1>8, <1>9, <1>10, <1>11, <1>12, <1>13, <1>14, <1>15, <1>16
     DEF Step, Next, vars, Reconnect, Expire, ServeRead, ReceiveRead, Elsewhere

\* Only two answers bring an article into an entry that holds none and waits for
\* none; a read brings what the API has.
LEMMA EmptyStep ==
    ASSUME Base, Step, NEW k \in Slugs, Empty(cache[k]), world.slug # k,
           \A c \in Calls : ~AnswerFavorite(c) /\ ~AnswerPublish(c)
    PROVE  Empty(cache'[k])
<1>1. k \in Keys /\ k # Feed /\ cache \in [Keys -> Entries] /\ page \in Pages /\ cache[k] \in Entries
  BY NoneAssumption DEF Base, Keys
<1>2. CASE cache' = cache
  BY <1>2
<1>3. ASSUME NEW p \in Pages, cache' = MountOn(cache, p) PROVE Empty(cache'[k])
  <2>1. CASE k \in Mounted(p) /\ cache[k].stale /\ cache[k].reading = "no"
    BY <1>1, <1>3, <2>1, MountOnFacts DEF Empty
  <2>2. CASE ~(k \in Mounted(p) /\ cache[k].stale /\ cache[k].reading = "no")
    <3>1. cache'[k] = cache[k]
      BY <1>1, <1>3, <2>2, MountOnFacts
    <3>2. QED
      BY <3>1
  <2>3. QED
    BY <2>1, <2>2
<1>4. ASSUME NEW j \in Keys, Expire(j) PROVE Empty(cache'[k])
  BY <1>1, <1>4 DEF Expire, Empty, Entries
<1>5. ASSUME NEW j \in Keys, ServeRead(j) PROVE Empty(cache'[k])
  BY <1>1, <1>5 DEF ServeRead, Empty, Entries
<1>6. ASSUME NEW j \in Keys, ReceiveRead(j) PROVE Empty(cache'[k])
  <2>1. j # k
    BY <1>1, <1>6 DEF ReceiveRead, Empty
  <2>2. cache'[k] = cache[k]
    BY <1>1, <1>6, <2>1, ReceiveReadEntry
  <2>3. QED
    BY <2>2
<1>7. ASSUME NEW j \in Keys, FailRead(j) PROVE Empty(cache'[k])
  <2>1. cache' = [cache EXCEPT ![j].state = "failed", ![j].stale = TRUE,
                               ![j].reading = "no", ![j].found = None]
    BY <1>7 DEF FailRead
  <2>2. QED
    BY <1>1, <2>1 DEF Empty, Entries
<1>8. ASSUME NEW c \in Calls, AnswerSave(c) PROVE Empty(cache'[k])
  <2>1. cache'[k] = cache[k]
    BY <1>1, <1>8, AnswerSaveEffect DEF Empty
  <2>2. QED
    BY <2>1
<1>9. ASSUME NEW c \in Calls, AnswerDelete(c) PROVE Empty(cache'[k])
  <2>1. cache'[k] = cache[k]
    BY <1>9, AnswerDeleteEffect
  <2>2. QED
    BY <2>1
<1>10. QED
  BY <1>1, <1>2, <1>3, <1>4, <1>5, <1>6, <1>7, <1>8, <1>9
     DEF Step, Next, Open, Reconnect, Click, Serve, Lose, AnswerPreview, AnswerFollow, Elsewhere, Chat, vars

\* Renamings apart, an article keeps its slug or is deleted.
LEMMA SlugStep ==
    ASSUME Base, Step, \A c \in Calls : calls[c].button = "publish" => ~Serve(c)
    PROVE  world'.slug \in {world.slug, None}
<1>1. ASSUME NEW c \in Calls, Serve(c) PROVE world'.slug \in {world.slug, None}
  <2>1. /\ calls[c].stage = "sent" /\ calls[c].button \in Buttons /\ Finds(calls[c])
        /\ world' = Wished(calls[c]) /\ calls[c].button # "publish"
    BY <1>1 DEF Serve
  <2>2. /\ calls[c].button \in FavoriteButtons => Wished(calls[c]).slug = world.slug
        /\ calls[c].button \in FollowButtons => Wished(calls[c]).slug = world.slug
    BY <2>1, WishedFacts
  <2>3. /\ calls[c].button = "save" => Wished(calls[c]).slug = world.slug
        /\ calls[c].button = "delete" => Wished(calls[c]).slug = None
    BY <2>1, WishedFacts
  <2>4. QED
    BY <2>1, <2>2, <2>3 DEF Buttons, AuthorButtons
<1>2. ASSUME NEW f \in {"favorited", "following"}, Elsewhere(f)
      PROVE  world'.slug \in {world.slug, None}
  <2>1. world' = [world EXCEPT ![f] = ~@] /\ world \in Articles
    BY <1>2, WorldFacts DEF Elsewhere
  <2>2. QED
    BY <2>1 DEF Articles
<1>3. CASE world' = world
  BY <1>3
<1>4. ASSUME NEW c \in Calls, AnswerPublish(c) \/ AnswerSave(c) \/ AnswerDelete(c) PROVE world' = world
  BY <1>4 DEF AnswerPublish, AnswerSave, AnswerDelete
<1>5. ASSUME NEW c \in Calls, AnswerFavorite(c) \/ AnswerPreview(c) \/ AnswerFollow(c) PROVE world' = world
  BY <1>5 DEF AnswerFavorite, AnswerPreview, AnswerFollow
<1>6. ASSUME NEW k \in Keys, Expire(k) \/ ServeRead(k) \/ ReceiveRead(k) \/ FailRead(k) PROVE world' = world
  BY <1>6 DEF Expire, ServeRead, ReceiveRead, FailRead
<1>7. QED
  BY <1>1, <1>2, <1>3, <1>4, <1>5, <1>6 DEF Step, Next, Open, Reconnect, Click, Lose, Chat, vars

LEMMA GhostStep ==
    ASSUME Base, GhostAt, UsedAt, Step, Kept
    PROVE  GhostAt'
<1> SUFFICES ASSUME NEW c \in Calls, OnlyPublish(c)'
             PROVE  /\ world'.slug \in {calls'[c].answer.slug, None}
                    /\ calls'[c].stage = "over" /\ calls'[c].answer.slug # calls'[c].from.slug =>
                         cache'[calls'[c].from.slug].data = None /\ cache'[calls'[c].from.slug].found = None
  BY DEF GhostAt
<1>1. /\ calls'[c].button = "publish" /\ calls'[c].stage \in {"served", "over"}
      /\ \A d \in Calls \ {c} : calls'[d].button # "publish"
  BY DEF OnlyPublish
<1>2. "publish" \in Buttons /\ "publish" \notin CommentButtons /\ "publish" # None
  BY ButtonsApart
<1>3. calls[c].button = "publish" /\ calls[c].stage \in {"sent", "served", "over"}
  BY <1>1, <1>2 DEF Kept
<1>4. \A d \in Calls \ {c} : calls[d].button # "publish"
  <2>1. ASSUME NEW d \in Calls \ {c}, calls[d].button = "publish" PROVE FALSE
    <3>1. calls[d].stage # "idle"
      BY <2>1, <1>2 DEF Base, CallOK
    <3>2. calls'[d].button = calls[d].button
      BY <2>1, <3>1, <1>2 DEF Kept
    <3>3. QED
      BY <1>1, <2>1, <3>2
  <2>2. QED
    BY <2>1
<1>5. CASE AnswerPublish(c)
  <2>1. PICK k, j \in Slugs :
          /\ k = calls[c].answer.slug /\ j = calls[c].from.slug
          /\ k # j => cache'[j] = Missing
    BY <1>5, AnswerPublishEffect
  <2>2. calls[c].stage = "served" /\ world' = world /\ Pushed(c)
    BY <1>5, AnswerPublishEffect
  <2>3. calls'[c].from = calls[c].from /\ calls'[c].answer = calls[c].answer
    BY <2>2 DEF Pushed, Held
  <2>4. world.slug \in {calls[c].answer.slug, None}
    BY <1>3, <1>4, <2>2 DEF GhostAt, OnlyPublish
  <2>5. QED
    BY <2>1, <2>2, <2>3, <2>4 DEF Missing
<1>6. CASE ~AnswerPublish(c)
  <2>1. \A d \in Calls : ~AnswerPublish(d)
    <3>1. ASSUME NEW d \in Calls, AnswerPublish(d) PROVE d = c
      BY <1>4, <3>1 DEF AnswerPublish, Answered
    <3>2. QED
      BY <1>6, <3>1
  <2>2. \A d \in Calls : ~AnswerFavorite(d)
    <3>1. ASSUME NEW d \in Calls, AnswerFavorite(d) PROVE FALSE
      <4>1. calls[d].button \in FavoriteButtons /\ calls[d].button \in Buttons
        BY <3>1, ButtonsApart DEF AnswerFavorite, Answered
      <4>2. calls[d].button \in use.buttons /\ "publish" \in use.buttons
        BY <1>2, <1>3, <4>1 DEF UsedAt
      <4>3. use.buttons \subseteq AuthorButtons \union CommentButtons \/ use.buttons \intersect AuthorButtons = {}
        BY UseAssumption DEF Base
      <4>4. "publish" \in AuthorButtons
        BY DEF AuthorButtons
      <4>5. FavoriteButtons \intersect (AuthorButtons \union CommentButtons) = {}
        BY DEF FavoriteButtons, AuthorButtons, CommentButtons
      <4>6. QED
        BY <4>1, <4>2, <4>3, <4>4, <4>5
    <3>2. QED
      BY <3>1
  <2>3. calls[c].stage = "served" => calls'[c].stage = "served"
    <3>1. SUFFICES ASSUME calls[c].stage = "served", calls'[c].stage = "over" PROVE FALSE
      BY <1>1
    <3>2. QED
      BY <1>3, <1>6, <3>1, PublishEnds
  <2>4. OnlyPublish(c) => world'.slug \in {world.slug, None}
    <3>1. SUFFICES ASSUME OnlyPublish(c) PROVE \A d \in Calls : calls[d].button = "publish" => ~Serve(d)
      BY SlugStep
    <3>2. QED
      BY <1>4, <3>1 DEF OnlyPublish, Serve
  <2>5. /\ OnlyPublish(c) /\ calls[c].answer.slug # calls[c].from.slug /\ calls[c].stage = "over"
        /\ world.slug # calls[c].from.slug /\ Empty(cache[calls[c].from.slug])
        => Empty(cache'[calls[c].from.slug])
    <3>1. SUFFICES ASSUME calls[c].stage = "over", world.slug # calls[c].from.slug,
                          Empty(cache[calls[c].from.slug])
                   PROVE  Empty(cache'[calls[c].from.slug])
      OBVIOUS
    <3>2. calls[c].from.slug \in Slugs
      BY <1>3, <3>1, AnsweredFacts
    <3>3. QED
      BY <2>1, <2>2, <3>1, <3>2, EmptyStep
  <2>6. QED
    BY <1>6, <2>3, <2>4, <2>5, GhostKept
<1>7. QED
  BY <1>5, <1>6

LEMMA GhostAtNoGhost ==
    ASSUME Base, GhostAt
    PROVE  NoGhost
<1>1. ASSUME NEW c \in Calls, calls[c].stage = "over", calls[c].button = "publish",
             \A d \in Calls \ {c} : calls[d].button # "publish",
             calls[c].answer.slug # calls[c].from.slug
      PROVE  cache[calls[c].from.slug].data = None
  <2>1. OnlyPublish(c)
    BY <1>1 DEF OnlyPublish
  <2>2. QED
    BY <1>1, <2>1 DEF GhostAt
<1>2. QED
  BY <1>1 DEF NoGhost

-----------------------------------------------------------------------------
(* Pages in step with the API *)

Writing(c) == InFlight(c) /\ calls[c].button \in Buttons

\* What the API made of a click has yet to reach the tab.
Unheard == \E c \in Calls : calls[c].stage = "served" /\ calls[c].button \in Buttons \ FollowButtons

Current(a) == a.text = world.text /\ a.bio = world.bio /\ a.favorited = world.favorited

\* An entry holds the article as it is, or is being replaced, or will be read
\* when it is shown.
Settled(k) ==
    /\ cache[k].data # None =>
         \/ Current(cache[k].data)
         \/ /\ cache[k].stale
            /\ k \in Mounted(page) => cache[k].reading # "no" \/ cache[k].state # "loaded"
    /\ cache[k].reading = "answered" /\ cache[k].found # None => Current(cache[k].found)

NoPreview == \A c \in Calls : calls[c].button # "favoritePreview"

OneWrites == \A c, d \in Calls : Writing(c) /\ Writing(d) => c = d

Undisturbed == (\E c \in Calls : Writing(c)) => ~ReadInFlight

AnswersTheWorld ==
    \A c \in Calls : Writing(c) /\ calls[c].stage = "served" =>
      calls[c].answer = world /\ (calls[c].button = "delete" => world.slug = None)

SettledAt == \A k \in Slugs : k = world.slug /\ ~Unheard => Settled(k)

\* While nothing has crossed and no preview was clicked: one call at a time, and
\* no read meanwhile; its answer is the article as it is; once it is heard the
\* entry of the article is settled.
InStep == OneWrites /\ Undisturbed /\ AnswersTheWorld /\ SettledAt

SyncAt == alone /\ NoPreview => InStep

ContentInv == Base /\ NeverBlank /\ LiveAt /\ OverrideAt /\ UsedAt /\ GhostAt /\ SyncAt

LEMMA AloneStep ==
    ASSUME Step, alone'
    PROVE  alone
BY DEF Step, Next, Open, Reconnect, Expire, ServeRead, ReceiveRead, FailRead, Click, Serve, Lose,
       AnswerFavorite, AnswerPreview, AnswerFollow, AnswerPublish, AnswerSave, AnswerDelete, Elsewhere,
       vars, Chat

LEMMA NoPreviewStep ==
    ASSUME Base, Kept, NoPreview'
    PROVE  NoPreview
<1>1. ASSUME NEW c \in Calls, calls[c].button = "favoritePreview" PROVE FALSE
  <2>1. calls[c].stage # "idle" /\ calls[c].button \notin CommentButtons \union {None}
    BY <1>1, ButtonsApart DEF Base, CallOK
  <2>2. calls'[c].button = "favoritePreview"
    BY <1>1, <2>1 DEF Kept
  <2>3. QED
    BY <2>2 DEF NoPreview
<1>2. QED
  BY <1>1 DEF NoPreview

\* Steps of the reads and of the pages: calls stay where they are.
LEMMA InStepReads ==
    ASSUME InStep, world' = world,
           \A d \in Calls : /\ calls'[d].stage = calls[d].stage /\ calls'[d].button = calls[d].button
                            /\ calls'[d].answer = calls[d].answer,
           Undisturbed', \A k \in Slugs : k = world.slug /\ Settled(k) => Settled(k)'
    PROVE  InStep'
<1>1. \A c \in Calls : Writing(c)' <=> Writing(c)
  BY DEF Writing, InFlight
<1>2. Unheard' <=> Unheard
  BY DEF Unheard
<1>3. OneWrites'
  BY <1>1 DEF InStep, OneWrites
<1>4. AnswersTheWorld'
  BY <1>1 DEF InStep, AnswersTheWorld
<1>5. SettledAt'
  BY <1>2 DEF InStep, SettledAt
<1>6. QED
  BY <1>3, <1>4, <1>5 DEF InStep

\* The answer to the only call that writes: none is left.
LEMMA InStepAnswer ==
    ASSUME InStep, NEW c \in Calls, Writing(c), NEW left, Held({c}, left), world' = world,
           \A k \in Slugs : k = world.slug => Settled(k)'
    PROVE  InStep'
<1>1. \A d \in Calls : d # c => ~Writing(d)
  BY DEF InStep, OneWrites
<1>2. ASSUME NEW d \in Calls PROVE ~Writing(d)'
  <2>1. CASE d = c
    BY <2>1 DEF Held, Writing, InFlight
  <2>2. CASE d # c
    <3>1. d \notin {c}
      BY <2>2
    <3>2. calls'[d].stage = calls[d].stage /\ calls'[d].button = calls[d].button
      BY <3>1 DEF Held
    <3>3. QED
      BY <1>1, <2>2, <3>2 DEF Writing, InFlight
  <2>3. QED
    BY <2>1, <2>2
<1>3. OneWrites' /\ Undisturbed' /\ AnswersTheWorld'
  BY <1>2 DEF OneWrites, Undisturbed, AnswersTheWorld
<1>4. SettledAt'
  BY DEF SettledAt
<1>5. QED
  BY <1>3, <1>4 DEF InStep

LEMMA SettledMount ==
    ASSUME Base, NEW k \in Keys, Settled(k), world' = world, NEW p \in Pages,
           page' = p, cache' = MountOn(cache, p)
    PROVE  Settled(k)'
<1>1. cache \in [Keys -> Entries] /\ cache[k] \in Entries
  BY DEF Base
<1>2. /\ cache'[k].state = cache[k].state /\ cache'[k].data = cache[k].data
      /\ cache'[k].stale = cache[k].stale
  BY <1>1, MountOnFacts
<1>3. CASE k \in Mounted(p) /\ cache[k].stale /\ cache[k].reading = "no"
  <2>1. cache'[k].reading = "asked"
    BY <1>1, <1>3, MountOnFacts
  <2>2. QED
    BY <1>2, <1>3, <2>1 DEF Settled, Current
<1>4. CASE ~(k \in Mounted(p) /\ cache[k].stale /\ cache[k].reading = "no")
  <2>1. cache'[k] = cache[k]
    BY <1>1, <1>4, MountOnFacts
  <2>2. k \in Mounted(page)' => k \in Mounted(p)
    BY DEF Mounted
  <2>3. QED
    BY <1>4, <2>1, <2>2 DEF Settled, Current
<1>5. QED
  BY <1>3, <1>4

LEMMA InStepOpen ==
    ASSUME Base, InStep, alone', NEW p \in Pages, Open(p)
    PROVE  InStep'
<1>1. page' = p /\ cache' = MountOn(cache, p) /\ world' = world /\ (cache' # cache => ~CallInFlight)
  BY DEF Open
<1>2. \A d \in Calls : /\ calls'[d].stage = calls[d].stage /\ calls'[d].button = calls[d].button
                       /\ calls'[d].answer = calls[d].answer
  BY LeaveHolds DEF Open, Held
<1>3. Undisturbed'
  <2>1. SUFFICES ASSUME NEW c \in Calls, Writing(c)' PROVE ~ReadInFlight'
    BY DEF Undisturbed
  <2>2. Writing(c) /\ CallInFlight
    BY <1>2, <2>1 DEF Writing, InFlight, CallInFlight
  <2>3. cache' = cache /\ ~ReadInFlight
    BY <1>1, <2>2 DEF InStep, Undisturbed
  <2>4. QED
    BY <2>3 DEF ReadInFlight
<1>4. \A k \in Slugs : Settled(k) => Settled(k)'
  BY <1>1, SettledMount DEF Keys
<1>5. QED
  BY <1>1, <1>2, <1>3, <1>4, InStepReads

LEMMA InStepReconnect ==
    ASSUME Base, InStep, alone', Reconnect
    PROVE  InStep'
<1>1. /\ UNCHANGED <<world, page, calls>> /\ cache' = MountOn(cache, page) /\ ~CallInFlight
      /\ page \in Pages
  BY DEF Reconnect, Base
<1>2. Undisturbed'
  <2>1. \A c \in Calls : ~Writing(c)'
    BY <1>1 DEF Writing, InFlight, CallInFlight
  <2>2. QED
    BY <2>1 DEF Undisturbed
<1>3. \A k \in Slugs : Settled(k) => Settled(k)'
  BY <1>1, SettledMount DEF Keys
<1>4. QED
  BY <1>1, <1>2, <1>3, InStepReads

LEMMA InStepExpire ==
    ASSUME Base, InStep, NEW k \in Keys, Expire(k)
    PROVE  InStep'
<1>1. UNCHANGED <<world, page, calls>> /\ cache \in [Keys -> Entries] /\ ~cache[k].stale
      /\ cache' = [cache EXCEPT ![k].stale = TRUE]
  BY DEF Expire, Base
<1>2. \A j \in Keys : /\ cache'[j].reading = cache[j].reading /\ cache'[j].data = cache[j].data
                      /\ cache'[j].found = cache[j].found /\ cache'[j].state = cache[j].state
                      /\ j # k => cache'[j].stale = cache[j].stale
  BY <1>1 DEF Entries
<1>3. Undisturbed'
  <2>1. ReadInFlight' <=> ReadInFlight
    BY <1>2 DEF ReadInFlight
  <2>2. \A c \in Calls : Writing(c)' <=> Writing(c)
    BY <1>1 DEF Writing, InFlight
  <2>3. QED
    BY <2>1, <2>2 DEF InStep, Undisturbed
<1>4. ASSUME NEW j \in Slugs, Settled(j) PROVE Settled(j)'
  <2>1. j \in Keys /\ (j \in Mounted(page)' <=> j \in Mounted(page))
    BY <1>1 DEF Keys
  <2>2. QED
    BY <1>1, <1>2, <1>4, <2>1 DEF Settled, Current
<1>5. QED
  BY <1>1, <1>3, <1>4, InStepReads

LEMMA InStepRead ==
    ASSUME Base, Step, InStep, NEW k \in Keys, ServeRead(k) \/ ReceiveRead(k) \/ FailRead(k)
    PROVE  InStep'
<1>1. cache[k].reading # "no" /\ world' = world /\ page' = page
      /\ cache \in [Keys -> Entries] /\ cache[k] \in Entries
  BY DEF ServeRead, ReceiveRead, FailRead, Base
<1>2. \A d \in Calls : /\ calls'[d].stage = calls[d].stage /\ calls'[d].button = calls[d].button
                       /\ calls'[d].answer = calls[d].answer
  <2>1. CASE calls' = calls
    BY <2>1
  <2>2. CASE Leave
    BY <2>2, LeaveHolds DEF Held
  <2>3. QED
    BY <2>1, <2>2 DEF ServeRead, ReceiveRead, FailRead
<1>3. Undisturbed'
  <2>1. ReadInFlight
    BY <1>1 DEF ReadInFlight
  <2>2. \A c \in Calls : ~Writing(c)'
    BY <1>2, <2>1 DEF InStep, Undisturbed, Writing, InFlight
  <2>3. QED
    BY <2>2 DEF Undisturbed
<1>4. ASSUME NEW j \in Slugs, j = world.slug, Settled(j) PROVE Settled(j)'
  <2>1. j \in Keys /\ j # Feed /\ j # None /\ cache[j] \in Entries
    BY NoneAssumption DEF Keys, Base
  <2>2. CASE j # k
    <3>1. cache'[j] = cache[j]
      <4>1. CASE ServeRead(k)
        BY <1>1, <2>1, <2>2, <4>1 DEF ServeRead
      <4>2. CASE ReceiveRead(k)
        BY <2>1, <2>2, <4>2, ReceiveReadEntry
      <4>3. CASE FailRead(k)
        <5>1. cache' = [cache EXCEPT ![k].state = "failed", ![k].stale = TRUE,
                                     ![k].reading = "no", ![k].found = None]
          BY <4>3 DEF FailRead
        <5>2. QED
          BY <1>1, <2>1, <2>2, <5>1
      <4>4. QED
        BY <4>1, <4>2, <4>3
    <3>2. j \in Mounted(page)' <=> j \in Mounted(page)
      BY <1>1
    <3>3. QED
      BY <1>1, <1>4, <3>1, <3>2 DEF Settled, Current
  <2>3. CASE j = k /\ ServeRead(k)
    <3>1. /\ cache'[k].reading = "answered" /\ cache'[k].found = world
          /\ cache'[k].data = cache[k].data /\ cache'[k].stale = cache[k].stale
          /\ cache'[k].state = cache[k].state
      BY <1>1, <1>4, <2>1, <2>3 DEF ServeRead, Entries
    <3>2. QED
      BY <1>1, <1>4, <2>3, <3>1 DEF Settled, Current
  <2>4. CASE j = k /\ ReceiveRead(k)
    <3>1. cache[k].reading = "answered" /\ cache[k].found # None
      BY <2>1, <2>4 DEF ReceiveRead
    <3>2. cache'[k].data = cache[k].found /\ cache'[k].reading = "no"
      BY <2>4, ReceiveReadEntry
    <3>3. QED
      BY <1>1, <1>4, <2>4, <3>1, <3>2 DEF Settled, Current
  <2>5. CASE j = k /\ FailRead(k)
    <3>1. cache' = [cache EXCEPT ![k].state = "failed", ![k].stale = TRUE,
                                 ![k].reading = "no", ![k].found = None]
      BY <2>5 DEF FailRead
    <3>2. /\ cache'[k].state = "failed" /\ cache'[k].stale /\ cache'[k].reading = "no"
          /\ cache'[k].data = cache[k].data
      BY <1>1, <3>1 DEF Entries
    <3>3. QED
      BY <1>1, <1>4, <2>5, <3>2 DEF Settled, Current
  <2>6. QED
    BY <2>2, <2>3, <2>4, <2>5
<1>5. QED
  BY <1>1, <1>2, <1>3, <1>4, InStepReads

LEMMA InStepClick ==
    ASSUME Base, InStep, alone', NEW c \in Calls, NEW b \in Buttons, Click(c, b)
    PROVE  InStep'
<1>1. /\ ~CallInFlight /\ ~ReadInFlight /\ UNCHANGED <<world, cache, page>>
      /\ calls[c].stage = "idle"
  BY DEF Click
<1>2. (\A d \in Calls \ {c} : calls'[d] = calls[d]) /\ calls'[c].stage = "sent"
  BY ClickFacts
<1>3. \A d \in Calls : Writing(d)' => d = c
  BY <1>1, <1>2 DEF Writing, InFlight, CallInFlight
<1>4. OneWrites'
  BY <1>3 DEF OneWrites
<1>5. Undisturbed'
  BY <1>1 DEF Undisturbed, ReadInFlight
<1>6. AnswersTheWorld'
  BY <1>2, <1>3 DEF AnswersTheWorld
<1>7. Unheard' <=> Unheard
  BY <1>1, <1>2 DEF Unheard
<1>8. \A k \in Slugs : Settled(k) => Settled(k)'
  BY <1>1 DEF Settled, Current
<1>9. SettledAt'
  BY <1>1, <1>7, <1>8 DEF InStep, SettledAt
<1>10. QED
  BY <1>4, <1>5, <1>6, <1>9 DEF InStep

LEMMA InStepServe ==
    ASSUME Base, InStep, NEW c \in Calls, Serve(c)
    PROVE  InStep'
<1>1. /\ UNCHANGED <<cache, page>> /\ world' = Wished(calls[c])
      /\ calls[c].stage = "sent" /\ calls[c].button \in Buttons /\ Finds(calls[c])
  BY DEF Serve
<1>2. /\ \A d \in Calls \ {c} : calls'[d] = calls[d]
      /\ calls'[c].stage = "served" /\ calls'[c].button = calls[c].button
      /\ calls'[c].answer = Wished(calls[c])
  BY ServeFacts
<1>3. \A d \in Calls : Writing(d)' <=> Writing(d)
  BY <1>1, <1>2 DEF Writing, InFlight
<1>4. Writing(c)
  BY <1>1 DEF Writing, InFlight
<1>5. ~ReadInFlight
  BY <1>4 DEF InStep, Undisturbed
<1>6. \A d \in Calls : Writing(d) => d = c
  BY <1>4 DEF InStep, OneWrites
<1>7. OneWrites'
  BY <1>3, <1>6 DEF OneWrites
<1>8. Undisturbed'
  BY <1>1, <1>5 DEF Undisturbed, ReadInFlight
<1>9. AnswersTheWorld'
  <2>1. calls[c].button = "delete" => Wished(calls[c]).slug = None
    BY <1>1, WishedFacts
  <2>2. QED
    BY <1>1, <1>2, <1>3, <1>6, <2>1 DEF AnswersTheWorld
<1>10. SettledAt'
  <2>1. CASE calls[c].button \in FollowButtons
    <3>1. /\ world'.slug = world.slug /\ world'.favorited = world.favorited
          /\ world'.text = world.text /\ world'.bio = world.bio
      BY <1>1, <2>1, WishedFacts
    <3>2. Unheard => Unheard'
      BY <1>1, <1>2 DEF Unheard
    <3>3. \A k \in Slugs : Settled(k) => Settled(k)'
      BY <1>1, <3>1 DEF Settled, Current
    <3>4. QED
      BY <3>1, <3>2, <3>3 DEF InStep, SettledAt
  <2>2. CASE calls[c].button \notin FollowButtons
    <3>1. Unheard'
      BY <1>1, <1>2, <2>2 DEF Unheard
    <3>2. QED
      BY <3>1 DEF SettledAt
  <2>3. QED
    BY <2>1, <2>2
<1>11. QED
  BY <1>7, <1>8, <1>9, <1>10 DEF InStep

LEMMA InStepLose ==
    ASSUME Base, InStep, alone', NEW c \in Calls, Lose(c)
    PROVE  InStep'
<1>1. UNCHANGED <<world, cache, page>> /\ calls[c].stage = "sent"
  BY DEF Lose
<1>2. (\A d \in Calls \ {c} : calls'[d] = calls[d]) /\ calls'[c].stage = "lost"
  BY LoseFacts
<1>3. \A d \in Calls : Writing(d)' => Writing(d) /\ calls'[d] = calls[d]
  BY <1>2 DEF Writing, InFlight
<1>4. OneWrites'
  BY <1>3 DEF InStep, OneWrites
<1>5. Undisturbed'
  BY <1>1, <1>3 DEF InStep, Undisturbed, ReadInFlight
<1>6. AnswersTheWorld'
  BY <1>1, <1>3 DEF InStep, AnswersTheWorld
<1>7. Unheard => Unheard'
  BY <1>1, <1>2 DEF Unheard
<1>8. \A k \in Slugs : Settled(k) => Settled(k)'
  BY <1>1 DEF Settled, Current
<1>9. SettledAt'
  BY <1>1, <1>7, <1>8 DEF InStep, SettledAt
<1>10. QED
  BY <1>4, <1>5, <1>6, <1>9 DEF InStep

\* The call whose answer comes was alone with the cache.
LEMMA InStepHeard ==
    ASSUME Base, InStep, NEW c \in Calls, calls[c].stage = "served", calls[c].button \in Buttons
    PROVE  /\ Writing(c) /\ calls[c].answer = world
           /\ calls[c].button = "delete" => world.slug = None
           /\ \A k \in Keys : cache[k].reading = "no"
           /\ calls[c].button \in FollowButtons => ~Unheard
<1>1. Writing(c)
  BY DEF Writing, InFlight
<1>2. calls[c].answer = world /\ (calls[c].button = "delete" => world.slug = None)
  BY <1>1 DEF InStep, AnswersTheWorld
<1>3. \A k \in Keys : cache[k].reading = "no"
  BY <1>1 DEF InStep, Undisturbed, ReadInFlight
<1>4. \A d \in Calls : Writing(d) => d = c
  BY <1>1 DEF InStep, OneWrites
<1>5. calls[c].button \in FollowButtons => ~Unheard
  BY <1>4 DEF Unheard, Writing, InFlight
<1>6. QED
  BY <1>1, <1>2, <1>3, <1>5

LEMMA InStepAnswerFavorite ==
    ASSUME Base, InStep, NEW c \in Calls, AnswerFavorite(c)
    PROVE  InStep'
<1>1. calls[c].stage = "served" /\ calls[c].button \in Buttons
  BY AnswerFavoriteFacts, ButtonsApart
<1>2. PICK k \in Slugs :
        /\ k \in Keys /\ k = calls[c].answer.slug /\ cache'[k].data = calls[c].answer
        /\ cache'[k].reading = cache[k].reading
  BY AnswerFavoriteFacts
<1>3. calls[c].answer = world /\ cache[k].reading = "no" /\ Writing(c)
  BY <1>1, <1>2, InStepHeard
<1>4. world' = world /\ Held({c}, {})
  BY AnswerFavoriteBase DEF AnswerFavorite
<1>5. \A j \in Slugs : j = world.slug => Settled(j)'
  BY <1>2, <1>3, <1>4 DEF Settled, Current
<1>6. QED
  BY <1>3, <1>4, <1>5, InStepAnswer

LEMMA InStepAnswerFollow ==
    ASSUME Base, InStep, NEW c \in Calls, AnswerFollow(c)
    PROVE  InStep'
<1>1. /\ calls[c].stage = "served" /\ calls[c].button \in Buttons /\ calls[c].button \in FollowButtons
      /\ UNCHANGED <<world, cache, page>>
  BY ButtonsApart DEF AnswerFollow, Answered
<1>2. Held({c}, {}) /\ Writing(c) /\ ~Unheard
  BY <1>1, AnswerFollowBase, InStepHeard
<1>3. \A k \in Slugs : k = world.slug => Settled(k)
  BY <1>2 DEF InStep, SettledAt
<1>4. \A k \in Slugs : Settled(k) => Settled(k)'
  BY <1>1 DEF Settled, Current
<1>5. QED
  BY <1>1, <1>2, <1>3, <1>4, InStepAnswer

LEMMA InStepPushed ==
    ASSUME InStep, NEW c \in Calls, Writing(c), Pushed(c), world' = world,
           \A k \in Slugs : k = world.slug => Settled(k)'
    PROVE  InStep'
<1>1. CASE page' = page
  BY <1>1, InStepAnswer DEF Pushed
<1>2. CASE page' # page
  BY <1>2, InStepAnswer DEF Pushed
<1>3. QED
  BY <1>1, <1>2

LEMMA InStepAnswerPublish ==
    ASSUME Base, InStep, NEW c \in Calls, AnswerPublish(c)
    PROVE  InStep'
<1>1. /\ calls[c].stage = "served" /\ calls[c].button \in Buttons /\ Pushed(c) /\ world' = world
  BY AnswerPublishEffect, ButtonsApart
<1>2. PICK k \in Slugs :
        /\ k \in Keys /\ k = calls[c].answer.slug /\ cache'[k].data = calls[c].answer
        /\ cache'[k].reading = cache[k].reading
  BY AnswerPublishEffect
<1>3. calls[c].answer = world /\ cache[k].reading = "no" /\ Writing(c)
  BY <1>1, <1>2, InStepHeard
<1>4. \A j \in Slugs : j = world.slug => Settled(j)'
  BY <1>1, <1>2, <1>3 DEF Settled, Current
<1>5. QED
  BY <1>1, <1>3, <1>4, InStepPushed

LEMMA InStepAnswerSave ==
    ASSUME Base, InStep, NEW c \in Calls, AnswerSave(c)
    PROVE  InStep'
<1>1. /\ calls[c].stage = "served" /\ calls[c].button \in Buttons /\ Pushed(c) /\ world' = world
      /\ Mounted(page') = {}
  BY AnswerSaveEffect, ButtonsApart
<1>2. Writing(c) /\ \A k \in Keys : cache[k].reading = "no"
  BY <1>1, InStepHeard
<1>3. ASSUME NEW k \in Slugs PROVE Settled(k)'
  <2>1. k \in Keys /\ cache[k].reading = "no"
    BY <1>2 DEF Keys
  <2>2. k \notin Mounted(page)'
    BY <1>1
  <2>3. CASE cache[k].data = None
    <3>1. cache'[k] = cache[k]
      BY <2>1, <2>3, AnswerSaveEffect
    <3>2. QED
      BY <2>1, <2>3, <3>1 DEF Settled
  <2>4. CASE cache[k].data # None
    <3>1. /\ cache'[k].stale = TRUE
          /\ cache'[k].reading \in {"no", "asked"}
      BY <2>1, <2>4, AnswerSaveEffect
    <3>2. QED
      BY <2>2, <3>1 DEF Settled
  <2>5. QED
    BY <2>3, <2>4
<1>4. QED
  BY <1>1, <1>2, <1>3, InStepPushed

LEMMA InStepAnswerDelete ==
    ASSUME Base, InStep, NEW c \in Calls, AnswerDelete(c)
    PROVE  InStep'
<1>1. /\ calls[c].stage = "served" /\ calls[c].button \in Buttons /\ calls[c].button = "delete"
      /\ Pushed(c) /\ world' = world
  BY AnswerDeleteEffect, ButtonsApart
<1>2. Writing(c) /\ world.slug = None
  BY <1>1, InStepHeard
<1>3. None \notin Slugs
  BY NoneAssumption DEF Keys
<1>4. QED
  BY <1>1, <1>2, <1>3, InStepPushed

LEMMA InStepChat ==
    ASSUME Base, InStep, Chat
    PROVE  InStep'
<1>1. UNCHANGED <<world, cache, page>>
  BY DEF Chat
<1>2. \A c \in Calls : \/ calls'[c] = calls[c]
                       \/ calls'[c].button \notin Buttons /\ calls[c].button \notin Buttons
  BY ButtonsApart DEF Chat
<1>3. \A c \in Calls : (Writing(c)' <=> Writing(c)) /\ (Writing(c)' => calls'[c] = calls[c])
  BY <1>2 DEF Writing, InFlight
<1>4. Unheard' <=> Unheard
  BY <1>2 DEF Unheard
<1>5. OneWrites'
  BY <1>3 DEF InStep, OneWrites
<1>6. Undisturbed'
  BY <1>1, <1>3 DEF InStep, Undisturbed, ReadInFlight
<1>7. AnswersTheWorld'
  BY <1>1, <1>3 DEF InStep, AnswersTheWorld
<1>8. \A k \in Slugs : Settled(k) => Settled(k)'
  BY <1>1 DEF Settled, Current
<1>9. SettledAt'
  BY <1>1, <1>4, <1>8 DEF InStep, SettledAt
<1>10. QED
  BY <1>5, <1>6, <1>7, <1>9 DEF InStep

LEMMA SyncStep ==
    ASSUME Base, SyncAt, Kept, Step
    PROVE  SyncAt'
<1> SUFFICES ASSUME alone', NoPreview' PROVE InStep'
  BY DEF SyncAt
<1>1. InStep
  BY AloneStep, NoPreviewStep DEF SyncAt
<1>2. ASSUME NEW p \in Pages, Open(p) PROVE InStep'
  BY <1>1, <1>2, InStepOpen
<1>3. CASE Reconnect
  BY <1>1, <1>3, InStepReconnect
<1>4. ASSUME NEW k \in Keys, Expire(k) \/ ServeRead(k) \/ ReceiveRead(k) \/ FailRead(k) PROVE InStep'
  BY <1>1, <1>4, InStepExpire, InStepRead
<1>5. ASSUME NEW c \in Calls, NEW b \in Buttons, Click(c, b) PROVE InStep'
  BY <1>1, <1>5, InStepClick
<1>6. ASSUME NEW c \in Calls, Serve(c) \/ Lose(c) PROVE InStep'
  BY <1>1, <1>6, InStepServe, InStepLose
<1>7. ASSUME NEW c \in Calls, AnswerFavorite(c) \/ AnswerFollow(c) PROVE InStep'
  BY <1>1, <1>7, InStepAnswerFavorite, InStepAnswerFollow
<1>8. ASSUME NEW c \in Calls, AnswerPreview(c) PROVE InStep'
  <2>1. calls[c].button = "favoritePreview"
    BY <1>8 DEF AnswerPreview, Answered
  <2>2. QED
    BY <2>1, NoPreviewStep DEF NoPreview
<1>9. ASSUME NEW c \in Calls, AnswerPublish(c) \/ AnswerSave(c) \/ AnswerDelete(c) PROVE InStep'
  BY <1>1, <1>9, InStepAnswerPublish, InStepAnswerSave, InStepAnswerDelete
<1>10. ASSUME NEW f \in {"favorited", "following"}, Elsewhere(f) PROVE InStep'
  BY <1>10 DEF Elsewhere
<1>11. CASE UNCHANGED vars
  <2>1. \A k \in Slugs : Settled(k) => Settled(k)'
    BY <1>11 DEF vars, Settled, Current
  <2>2. Undisturbed'
    BY <1>1, <1>11 DEF vars, InStep, Undisturbed, ReadInFlight, Writing, InFlight
  <2>3. QED
    BY <1>1, <1>11, <2>1, <2>2, InStepReads DEF vars
<1>12. CASE Chat
  BY <1>1, <1>12, InStepChat
<1>13. QED
  BY <1>2, <1>3, <1>4, <1>5, <1>6, <1>7, <1>8, <1>9, <1>10, <1>11, <1>12 DEF Step, Next

LEMMA SyncAtInSync ==
    ASSUME Base, SyncAt
    PROVE  InSync
<1> SUFFICES ASSUME alone, Quiet, ShowsArticle(page), page.slug = world.slug,
                    \A c \in Calls : calls[c].button # "favoritePreview"
             PROVE  ShowsTheWorld
  BY DEF InSync
<1>1. InStep
  BY DEF SyncAt, NoPreview
<1>2. ~Unheard
  BY DEF Unheard, Quiet, CallInFlight, InFlight
<1>3. /\ page.slug \in Slugs /\ page.slug \in Keys /\ page.slug \in Mounted(page) /\ page.slug # Feed
      /\ cache[page.slug].state = "loaded"
  BY ShowsArticleFacts
<1>4. Settled(page.slug)
  BY <1>1, <1>2, <1>3 DEF InStep, SettledAt
<1>5. cache[page.slug].data # None
  BY <1>3 DEF Base, EntryOK
<1>6. cache[page.slug].reading = "no"
  BY <1>3 DEF Quiet, ReadInFlight
<1>7. QED
  BY <1>3, <1>4, <1>5, <1>6 DEF Settled, Current, ShowsTheWorld

-----------------------------------------------------------------------------
(* The theorems *)

LEMMA InitHolds == Init => ContentInv
<1> SUFFICES ASSUME Init PROVE ContentInv
  OBVIOUS
<1>1. Base
  BY InitBase
<1>2. calls = [c \in Calls |-> IdleCall] /\ cache = [k \in Keys |-> Missing]
      /\ page = [name |-> "profile", slug |-> None] /\ overrides = NoOverrides
  BY DEF Init
<1>3. \A c \in Calls : calls[c].stage = "idle" /\ calls[c].button = None /\ calls[c].live = FALSE
  BY <1>2 DEF IdleCall
<1>4. \A k \in Keys : cache[k].data = None /\ cache[k].reading = "no"
  BY <1>2 DEF Missing
<1>5. NeverBlank
  BY <1>2, ProfileAndList DEF NeverBlank
<1>6. LiveAt /\ OverrideAt
  BY <1>2, <1>3 DEF LiveAt, OverrideAt, NoOverrides
<1>7. UsedAt /\ GhostAt
  BY <1>3, ButtonsApart DEF UsedAt, GhostAt, OnlyPublish
<1>8. SyncAt
  <2>1. \A c \in Calls : ~Writing(c)
    BY <1>3 DEF Writing, InFlight
  <2>2. \A k \in Slugs : Settled(k)
    BY <1>4 DEF Settled, Keys
  <2>3. QED
    BY <2>1, <2>2 DEF SyncAt, InStep, OneWrites, Undisturbed, AnswersTheWorld, SettledAt
<1>9. QED
  BY <1>1, <1>5, <1>6, <1>7, <1>8 DEF ContentInv

LEMMA StepHolds ==
    ASSUME ContentInv, Step
    PROVE  ContentInv'
<1>1. Base /\ NeverBlank /\ LiveAt /\ OverrideAt /\ UsedAt /\ GhostAt /\ SyncAt
  BY DEF ContentInv
<1>2. Kept /\ FollowKept
  BY <1>1, KeptStep, FollowStep
<1>3. Base' /\ NeverBlank' /\ LiveAt' /\ OverrideAt'
  BY <1>1, <1>2, BaseStep, NeverBlankStep DEF FollowKept
<1>4. UsedAt' /\ GhostAt' /\ SyncAt'
  BY <1>1, <1>2, UsedStep, GhostStep, SyncStep
<1>5. QED
  BY <1>3, <1>4 DEF ContentInv

\* The invariant of the pages of an article, of which the properties follow.
THEOREM Invariance == Spec => []ContentInv
<1>1. ContentInv /\ [Next]_vars => ContentInv'
  BY StepHolds DEF Step
<1>2. QED
  BY <1>1, InitHolds, PTL DEF Spec

\* Values have their types, and an entry that is shown its article.
THEOREM TypeCorrectness == Spec => []TypeOK
<1>1. ContentInv => TypeOK
  BY BaseTypes DEF ContentInv
<1>2. QED
  BY <1>1, Invariance, PTL

\* A renaming that was answered leaves no article under the slug of before
\* (cacheSavedArticle, content-query.ts), whatever reads and clicks cross it.
THEOREM NoGhostHolds == Spec => []NoGhost
<1>1. ContentInv => NoGhost
  BY GhostAtNoGhost DEF ContentInv
<1>2. QED
  BY <1>1, Invariance, PTL

\* An article page at rest shows the article as the API has it, when nothing has
\* crossed (onToggled, cacheSavedArticle and invalidateAuthorCaches).
THEOREM InSyncHolds == Spec => []InSync
<1>1. ContentInv => InSync
  BY SyncAtInSync DEF ContentInv
<1>2. QED
  BY <1>1, Invariance, PTL

\* A page that waits for an article has asked for it.
THEOREM NeverBlankHolds == Spec => []NeverBlank
<1>1. ContentInv => NeverBlank
  BY DEF ContentInv
<1>2. QED
  BY <1>1, Invariance, PTL

\* A step of FreshPropWins: an override of useFollowState goes for good when the
\* prop it was made of is another.
LEMMA FreshPropWinsAt ==
    ASSUME ContentInv, Step
    PROVE  page' = page /\ ShowsArticle(page) /\ ShowsArticle(page)' /\ Shown'.following # Shown.following
           => \A b \in FollowButtons : FollowingOn(b)' = Shown'.following
<1>1. Base /\ Base' /\ OverrideAt /\ FollowKept
  BY BaseStep, FollowStep DEF ContentInv
<1>2. QED
  BY <1>1, FreshPropWinsStep

\* A read that brings another value of following settles both follow buttons.
THEOREM FreshPropWinsHolds == Spec => FreshPropWins
<1>1. ContentInv /\ [Next]_vars =>
        [/\ page' = page /\ ShowsArticle(page) /\ ShowsArticle(page)'
         /\ Shown'.following # Shown.following
         => \A b \in FollowButtons : FollowingOn(b)' = Shown'.following]_vars
  BY FreshPropWinsAt DEF Step
<1>2. QED
  BY <1>1, Invariance, PTL DEF Spec, FreshPropWins

=============================================================================
