---------------------------- MODULE MC_Articles ----------------------------
(***************************************************************************)
(* Small worlds for Articles and Lists: two articles published under the   *)
(* same title, and two or three requests among those of a menu.            *)
(***************************************************************************)
EXTENDS Lists

CONSTANTS
    q1, q2, q3,         \* requests
    s1, s2,             \* articles already there
    ann, bob,           \* accounts
    tale, other,        \* titles
    tale2,              \* a title that already ends with a rank: "Tale 2"
    draft1, draft2,     \* texts
    tag

Plain(word) == [word |-> word, ranks |-> <<>>]
Second(word) == [word |-> word, ranks |-> <<2>>]

TitleSlugs == (tale :> Plain("tale")) @@ (other :> Plain("other")) @@ (tale2 :> Second("tale"))

Request(op, user) ==
    [op |-> op, user |-> user, slug |-> None, title |-> None, text |-> None,
     tags |-> None, comment |-> None, url |-> None]

Create(user, title, names) ==
    [Request("create", user) EXCEPT !.title = title, !.text = draft1, !.tags = names]

On(op, user, slug) == [Request(op, user) EXCEPT !.slug = slug]

Rename(user, slug, title) == [On("update", user, slug) EXCEPT !.title = title]

Rewrite(user, slug) == [On("update", user, slug) EXCEPT !.text = draft2]

Read(user, path, of, following, page) ==
    [Request("list", user) EXCEPT
        !.url = [path |-> path, of |-> of, following |-> following, page |-> page]]

Published(slug, title, author) ==
    [slug |-> slug, title |-> title, text |-> draft1, tags |-> {}, author |-> author]

\* Two homonyms by two authors, the second under a suffixed slug.
Homonyms == (s1 :> Published(Plain("tale"), tale, ann)) @@ (s2 :> Published(Second("tale"), tale, bob))

\* s2 came after s1, and at the same instant as some of what is created.
Dates == (s1 :> 0) @@ (s2 :> 1)

Subscriptions == {<<bob, ann>>}

\* Creations, renamings and deletions that fight for two slugs, tags included,
\* a reader around the first article while they do, and lists of every kind.
\* The first one is what "uncomment" is about, when it is there.
WriteMenu ==
    <<On("comment", bob, Plain("tale")),
      [On("uncomment", bob, Plain("tale")) EXCEPT !.comment = q1],
      [On("uncomment", bob, Second("tale")) EXCEPT !.comment = q1],
      On("favorite", bob, Plain("tale")), On("unfavorite", bob, Plain("tale")),
      Create(ann, tale, {}), Create(ann, other, {tag}), Create(bob, tale2, {tag}),
      Rename(ann, Plain("tale"), other), Rename(bob, Second("tale"), tale2),
      [Rewrite(bob, Second("tale")) EXCEPT !.title = tale],
      Rename(bob, Plain("tale"), other), On("delete", ann, Plain("tale"))>>

ListMenu ==
    <<Read(None, "home", None, FALSE, None), Read(bob, "home", None, TRUE, 2),
      Read(None, "tag", tag, FALSE, 0), Read(bob, "favorites", bob, FALSE, None),
      Read(ann, "profile", ann, FALSE, None)>>

ListUrls == {request.url : request \in ToSet(ListMenu)}

\* Requests that do the same are told apart by their order alone, so each mix
\* is taken in one order.  Lists do not see each other: one a mix is enough.
Sorted == {i \in TupleOf(DOMAIN (WriteMenu \o ListMenu), 3) :
             i[1] <= i[2] /\ i[2] <= i[3] /\ i[2] <= Len(WriteMenu)}

WriteMixes ==
    {LET menu == WriteMenu \o ListMenu
     IN  (q1 :> menu[i[1]]) @@ (q2 :> menu[i[2]]) @@ (q3 :> menu[i[3]]) : i \in Sorted}

\* The author of the second homonym edits it from two windows.
EditMixes ==
    [{q1, q2} -> {Rewrite(bob, Second("tale")), Rename(bob, Second("tale"), other),
                  Create(ann, tale, {})}]

=============================================================================
