----------------------------- MODULE MC_Content -----------------------------
(* A reader who favours, one who follows, one who comments, one whose       *)
(* comments others change and an author at work, on an article first seen   *)
(* at one slug and that may move to another.                                *)
EXTENDS Conversation, TLC

CONSTANTS s1, s2, t1, b1, k1, k2

Untouched == [slug: {s1}, text: {t1}, bio: {b1}, favorited: {FALSE}, following: {FALSE}]

Article == [name |-> "article", slug |-> s1]
Other(name) == [name |-> name, slug |-> None]

\* Nobody else favours for the reader: InSync says nothing of a change it missed.
Favouring == [buttons |-> FavoriteButtons, elsewhere |-> {},
              pages |-> {Article, Other("list")}]

Following == [buttons |-> FollowButtons \union {"favoriteTop"}, elsewhere |-> {"following"},
              pages |-> {Article, Other("profile")}]

Authoring == [buttons |-> AuthorButtons, elsewhere |-> {},
              pages |-> [name: {"article", "editor"}, slug: {s1, s2}] \union {Other("settings")}]

Commenting == [buttons |-> CommentButtons \union {"save"}, elsewhere |-> {},
               pages |-> {Article, Other("settings")}]

\* Comments go from another device while the tab stays on the article.
Discussing == [buttons |-> CommentButtons, elsewhere |-> {"comments"}, pages |-> {Article}]

\* One comment, of the account or of another.
Short == {<<k1>>, <<k2>>}

AllUses == {Favouring, Following, Commenting, Discussing, Authoring}
ListUses == {Favouring}

\* Without is the filter of the code on every list without duplicates.
ASSUME WithoutIsFilter ==
    \A s \in UNION {[1..n -> 1..4] : n \in 0..4}, x \in 1..4 :
      IsInjective(s) => Without(s, x) = SelectSeq(s, LAMBDA other : other # x)

Symmetry == Permutations(Calls)
=============================================================================
