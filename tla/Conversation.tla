---------------------------- MODULE Conversation ----------------------------
(***************************************************************************)
(* The comments under the article of Content: the entry of the cache that  *)
(* holds them, the section of the article page, which copies that entry    *)
(* when it mounts and never again (CommentSection.tsx), and the two        *)
(* buttons that write to the copy what the API has confirmed.              *)
(***************************************************************************)
EXTENDS Content, SequencesExt

CONSTANTS
    Earlier,    \* comments written before, by the account unless they are Foreign
    Foreign,
    Threads     \* the comments of the article as the tab may find them

ASSUME CommentAssumption ==
    /\ Earlier \intersect Calls = {} /\ Foreign \subseteq Earlier
    /\ \A s \in Threads : s \in Seq(Earlier) /\ IsInjective(s)

VARIABLES
    thread,     \* comments as the API lists them, the oldest first
    threads,    \* entries of the comments in the QueryClient, by slug
    section     \* section on the page: slug and local copy, the newest first

conversationVars == <<vars, thread, threads, section>>

\* A comment is known by the call that posts it.
Comments == Earlier \union Calls

\* The others, in their order: the filter by identity of a list that has no
\* identity twice (ConversationTypeOK).
Without(s, comment) ==
    IF Contains(s, comment) THEN RemoveAt(s, CHOOSE i \in DOMAIN s : s[i] = comment) ELSE s

NoSection == [slug |-> None, shown |-> <<>>]

Watched == use.buttons \intersect CommentButtons # {}

-----------------------------------------------------------------------------
(* The section *)

\* The queries of the article page: the comments are asked along with the article.
MountThread(store, p) ==
    IF Watched /\ p.name = "article" THEN Refresh(store, p.slug) ELSE store

\* Both queries have succeeded, in the next state.
HasSection ==
    /\ page'.name = "article" /\ Watched
    /\ cache'[page'.slug].state = "loaded" /\ threads'[page'.slug].state = "loaded"

\* Mutant: the copy follows the entry it was made from.
RenderFollowing(copy) ==
    section' = IF ~HasSection THEN NoSection
               ELSE IF threads' = threads /\ section.slug = page'.slug THEN [section EXCEPT !.shown = copy]
               ELSE [slug |-> page'.slug, shown |-> threads'[page'.slug].data]

\* A section that is still there keeps its state, of which copy is the new value.
Render(copy) ==
    section' = IF ~HasSection THEN NoSection
               ELSE IF section.slug = page'.slug THEN [section EXCEPT !.shown = copy]
               ELSE [slug |-> page'.slug, shown |-> threads'[page'.slug].data]

-----------------------------------------------------------------------------
ConversationInit ==
    /\ Init
    /\ thread \in IF Watched THEN Threads ELSE {<<>>}
    /\ threads = [k \in Slugs |-> Missing]
    /\ section = NoSection

\* Actions of Content that leave the queries of the comments alone.
Beside(action) ==
    /\ action
    /\ UNCHANGED <<thread, threads>>
    /\ Render(section.shown)

\* A page opens, with the entries of the comments as store.
Turn(action, store) ==
    /\ action
    /\ threads' = IF page' = page THEN store ELSE MountThread(store, page')
    /\ UNCHANGED thread
    /\ Render(section.shown)

\* invalidateAuthorCaches, for the comments: those that show the account.
InvalidateThreads ==
    [k \in Slugs |->
       IF threads[k].data = None \/ ToSet(threads[k].data) \subseteq Foreign THEN threads[k]
       ELSE IF Watched /\ page = [name |-> "article", slug |-> k]
         THEN Ask([threads[k] EXCEPT !.stale = TRUE])
       ELSE [threads[k] EXCEPT !.stale = TRUE]]

\* Every query on screen is read at once.
Reconnected ==
    /\ threads' = MountThread(threads, page)
    /\ \/ Reconnect
       \/ threads' # threads /\ MountOn(cache, page) = cache /\ UNCHANGED vars
    /\ UNCHANGED thread
    /\ Render(section.shown)

-----------------------------------------------------------------------------
(* Reads *)

ExpireThread(k) ==
    /\ threads[k].state = "loaded" /\ ~threads[k].stale
    /\ threads' = [threads EXCEPT ![k].stale = TRUE]
    /\ UNCHANGED <<vars, thread, section>>

ServeThread(k) ==
    /\ threads[k].reading = "asked"
    /\ threads' = [threads EXCEPT ![k].reading = "answered",
                                  ![k].found = IF k = world.slug THEN thread ELSE None]
    /\ UNCHANGED <<vars, thread, section>>

ReceiveThread(k) ==
    /\ threads[k].reading = "answered" /\ threads[k].found # None
    /\ threads' = [SetData(threads, k, threads[k].found) EXCEPT ![k].reading = "no", ![k].found = None]
    /\ UNCHANGED <<vars, thread>>
    /\ Render(section.shown)

\* The section goes, and the state of its buttons with it.
FailThread(k) ==
    /\ threads[k].reading # "no"
    /\ threads' = [threads EXCEPT ![k].state = "failed", ![k].stale = TRUE,
                                  ![k].reading = "no", ![k].found = None]
    /\ calls' = [c \in Calls |-> IF section.slug = k /\ calls[c].button \in CommentButtons
                                   THEN [calls[c] EXCEPT !.live = FALSE] ELSE calls[c]]
    /\ UNCHANGED <<use, world, cache, page, overrides, alone, thread>>
    /\ Render(section.shown)

-----------------------------------------------------------------------------
(* Buttons *)

\* The form is disabled while its call is in flight.  The button of a comment
\* is not: it may be clicked again.
Press(c, b, comment) ==
    /\ calls[c].stage = "idle"
    /\ b \in use.buttons /\ section.slug # None
    /\ calls' = [calls EXCEPT ![c] = [IdleCall EXCEPT !.stage = "sent", !.button = b, !.live = TRUE,
                                                      !.from = section.slug, !.wish = comment]]
    /\ UNCHANGED <<use, world, cache, page, overrides, alone, thread, threads, section>>

Post(c) == ~Pending("post") /\ Press(c, "post", c)

Withdraw(c) == \E comment \in ToSet(section.shown) \ Foreign : Press(c, "remove", comment)

ServePost(c) ==
    /\ calls[c].stage = "sent" /\ calls[c].button = "post" /\ calls[c].from = world.slug
    /\ thread' = Append(thread, c)
    /\ calls' = [calls EXCEPT ![c].stage = "served"]
    /\ UNCHANGED <<use, world, cache, page, overrides, alone, threads, section>>

\* A comment that is gone is a 404, which Lose answers.
ServeRemove(c) ==
    /\ calls[c].stage = "sent" /\ calls[c].button = "remove" /\ calls[c].from = world.slug
    /\ Contains(thread, calls[c].wish)
    /\ thread' = Without(thread, calls[c].wish)
    /\ calls' = [calls EXCEPT ![c].stage = "served"]
    /\ UNCHANGED <<use, world, cache, page, overrides, alone, threads, section>>

Answer(c, button, copy) ==
    /\ Answered(c, {button})
    /\ calls' = Over(c)
    /\ UNCHANGED <<use, world, cache, page, overrides, alone, thread, threads>>
    /\ Render(IF calls[c].live THEN copy ELSE section.shown)

AnswerPost(c) == Answer(c, "post", <<c>> \o section.shown)

AnswerRemove(c) == Answer(c, "remove", Without(section.shown, calls[c].wish))

\* Withdrawn by its author, from another device when it is the account.
WithdrawElsewhere ==
    /\ "comments" \in use.elsewhere
    /\ \E comment \in ToSet(thread) : thread' = Without(thread, comment)
    /\ UNCHANGED <<vars, threads, section>>

-----------------------------------------------------------------------------
ConversationNext ==
    \/ \E p \in Pages : Turn(Open(p), threads)
    \/ Reconnected
    \/ \E k \in Keys : Beside(Expire(k)) \/ Beside(ServeRead(k)) \/ Beside(ReceiveRead(k)) \/ Beside(FailRead(k))
    \/ \E c \in Calls : \E b \in Buttons : Beside(Click(c, b))
    \/ \E c \in Calls : Beside(Serve(c)) \/ Beside(Lose(c))
    \/ \E c \in Calls : Beside(AnswerFavorite(c)) \/ Beside(AnswerPreview(c)) \/ Beside(AnswerFollow(c))
    \/ \E c \in Calls : Turn(AnswerPublish(c), threads) \/ Turn(AnswerSave(c), InvalidateThreads)
                          \/ Turn(AnswerDelete(c), threads)
    \/ \E f \in {"favorited", "following"} : Beside(Elsewhere(f))
    \/ \E k \in Slugs : ExpireThread(k) \/ ServeThread(k) \/ ReceiveThread(k) \/ FailThread(k)
    \/ \E c \in Calls : Post(c) \/ Withdraw(c) \/ ServePost(c) \/ ServeRemove(c) \/ AnswerPost(c) \/ AnswerRemove(c)
    \/ WithdrawElsewhere

ConversationSpec == ConversationInit /\ [][ConversationNext]_conversationVars

-----------------------------------------------------------------------------
(* Properties *)

\* Values have their types, those of Content included; no list has a comment
\* twice, which React would refuse as two children of one key.
ConversationTypeOK ==
    /\ TypeOK
    /\ thread \in Seq(Comments) /\ IsInjective(thread)
    /\ \A k \in Slugs : threads[k].state = "loaded" => threads[k].data \in Seq(Comments)
    /\ section.slug \in Slugs \union {None}
    /\ section.shown \in Seq(Comments) /\ IsInjective(section.shown)

\* REQ-WEB-013 AC-3, AC-6, AC-7 and content-query.ts ("recharger l'article ne doit
\* pas invalider une liste qu'on vient de compléter"): while a section stays on
\* the page, a comment enters it when the API has confirmed its publication and
\* leaves it when the API has confirmed its removal, and for no other reason:
\* neither a read of the article or of the comments, nor the answer to another
\* click, brings one back or takes one away.
ShowsWhatWasConfirmed ==
    [][section.slug # None /\ section'.slug = section.slug =>
         /\ \A c \in ToSet(section'.shown) \ ToSet(section.shown) :
              c \in Calls /\ Answered(c, {"post"}) /\ calls'[c].stage = "over"
         /\ \A c \in ToSet(section.shown) \ ToSet(section'.shown) :
              \E d \in Calls : /\ Answered(d, {"remove"}) /\ calls'[d].stage = "over"
                               /\ calls[d].wish = c
         /\ \A d \in Calls : Answered(d, {"post"}) /\ calls[d].live /\ calls'[d].stage = "over" =>
              Contains(section'.shown, d)]_conversationVars
=============================================================================
