------------------------------- MODULE Lists --------------------------------
(***************************************************************************)
(* The lists of articles: the address a page of the browser is opened at,  *)
(* the feed it asks for (pagination.ts, feed-query.ts), and the reading of *)
(* that feed behind the API, while the requests of Articles write.         *)
(*                                                                         *)
(* A list is read by the statements of one transaction: the rows of the    *)
(* page, what relates them to the reader, the count.  The transaction is   *)
(* READ COMMITTED, the default, so a write may commit between any two.     *)
(***************************************************************************)
EXTENDS Articles, FiniteSets, SequencesExt

CONSTANTS
    Followed,       \* table follows, which no request of this module writes
    PageLimit,      \* WEB_PAGE_LIMIT
    Instants,       \* values of createdAt that fall within a run
    SeedInstant     \* createdAt of the articles already there

\* page is None when the parameter is absent or is no integer.
Pages ==
    [path: {"home", "tag", "profile", "favorites"},
     of: Tags \union Users \union {None},
     following: BOOLEAN,
     page: Nat \union {None}]

ASSUME ListAssumption ==
    /\ Urls \subseteq Pages
    /\ None \notin Nat
    /\ Followed \subseteq Users \X Users
    /\ PageLimit \in Nat \ {0}
    /\ Instants \subseteq Nat
    /\ SeedInstant \in [Seeds -> Nat]

VARIABLES
    born,       \* createdAt of each article
    lists       \* what each request has read of the list it asks for

listVars == <<vars, born, lists>>

-----------------------------------------------------------------------------
(* From the address to the request *)

\* requestedFeed, and the tab of a profile.
RequestedFeed(url) ==
    [kind |-> CASE url.path = "tag" -> "tag"
                [] url.path = "profile" -> "author"
                [] url.path = "favorites" -> "favorited"
                [] url.path = "home" -> IF url.following THEN "following" ELSE "global",
     of |-> url.of]

PageFromParam(raw) == IF raw # None /\ raw >= 1 THEN raw ELSE 1

OffsetForPage(page) == (page - 1) * PageLimit

PageCount(total) == (total + PageLimit - 1) \div PageLimit

\* Mutant: the target is made again from the page alone.
PageFormTargetAlone(url, page) ==
    [url EXCEPT !.following = FALSE, !.page = IF page > 1 THEN page ELSE None]

\* pageFormTarget: same path, same filters, and no parameter for page 1.
PageFormTarget(url, page) == [url EXCEPT !.page = IF page > 1 THEN page ELSE None]

\* FeedList and Pagination: the pages a list offers to turn to.
Controls(list) ==
    IF list.rows = <<>> \/ PageCount(list.total) <= 1 THEN {} ELSE 1..PageCount(list.total)

-----------------------------------------------------------------------------
(* The reading *)

\* filterFor, then buildFilters, or the where of the personal feed.
Selects(feed, reader, a) ==
    /\ feed.kind = "tag" => feed.of \in articles[a].tags
    /\ feed.kind = "author" => articles[a].author = feed.of
    /\ feed.kind = "favorited" => <<feed.of, a>> \in favorites
    /\ feed.kind = "following" => <<reader, articles[a].author>> \in Followed

Matching(q) == {a \in Present : Selects(RequestedFeed(sent[q].url), sent[q].user, a)}

Offset(q) == OffsetForPage(PageFromParam(sent[q].url.page))

\* orderBy createdAt desc: rows of one instant come in any order.
Orders(S) == {s \in SetToSeqs(S) : \A i, j \in DOMAIN s : i < j => born[s[i]] >= born[s[j]]}

\* skip and take.
SelectIn(s, offset) == SubSeq(s, offset + 1, Min({offset + PageLimit, Len(s)}))

Unread == [rows |-> <<>>, favorited |-> {}, total |-> 0, steady |-> FALSE]

ListsInit ==
    /\ Init
    /\ born = [a \in Ids |-> IF a \in Seeds THEN SeedInstant[a] ELSE 0]
    /\ lists = [q \in Requests |-> Unread]

Reads(q, list) ==
    /\ lists' = [lists EXCEPT ![q] = list]
    /\ UNCHANGED <<sent, task, tables, born>>

\* findMany.  The skip and take of the query are those the browser sent.
SelectPage(q) ==
    /\ pc[q] = "arrived"
    /\ sent[q].op = "list"
    /\ \E s \in Orders(Matching(q)) :
         Reads(q, [lists[q] EXCEPT !.rows = SelectIn(s, Offset(q)), !.steady = TRUE])
    /\ Goto(q, "relating")
    /\ UNCHANGED answer

\* The relations of the rows, filtered on the reader.
Relate(q) ==
    /\ pc[q] = "relating"
    /\ Reads(q, [lists[q] EXCEPT !.favorited =
                   {a \in ToSet(lists[q].rows) : <<sent[q].user, a>> \in favorites}])
    /\ Goto(q, "counting")
    /\ UNCHANGED answer

\* Mutant: the count forgets the filters.
CountAll(q) ==
    /\ pc[q] = "counting"
    /\ Reads(q, [lists[q] EXCEPT !.total = Cardinality(Present)])
    /\ Reply(q, Done)

\* The count, under the same where as the rows.
Count(q) ==
    /\ pc[q] = "counting"
    /\ Reads(q, [lists[q] EXCEPT !.total = Cardinality(Matching(q))])
    /\ Reply(q, Done)

-----------------------------------------------------------------------------
\* What a write means to the lists: an article that appears has its instant,
\* and a list that is read, or has been, is no longer that of the tables.
Dated ==
    /\ \E i \in Instants :
         born' = [a \in Ids |-> IF articles[a] = None /\ articles'[a] # None THEN i ELSE born[a]]
    /\ lists' = [q \in Requests |-> [lists[q] EXCEPT !.steady = @ /\ tables' = tables]]

ListStep(q) ==
    \/ Step(q) /\ Dated
    \/ SelectPage(q)
    \/ Relate(q)
    \/ Count(q)

ListsNext == \E q \in Requests : ListStep(q)

\* As long as a request waits for a query, the database answers one of those
\* awaited and the event loop resumes its request.
ListsSpec == ListsInit /\ [][ListsNext]_listVars /\ WF_listVars(ListsNext)

-----------------------------------------------------------------------------
(* Type *)

\* Every variable ranges over the states the code can represent: those of
\* Articles, and what a list holds of them.
ListsTypeOK ==
    /\ TypeOK
    /\ born \in [Ids -> Nat]
    /\ \A q \in Requests :
        /\ lists[q].rows \in Seq(Ids)
        /\ lists[q].favorited \subseteq ToSet(lists[q].rows)
        /\ lists[q].total \in 0..Cardinality(Ids)
        /\ lists[q].steady \in BOOLEAN

-----------------------------------------------------------------------------
(* Safety *)

\* A list nothing has been written under since its first statement.
Steady(q) == sent[q].op = "list" /\ pc[q] = "done" /\ lists[q].steady

Newer(S, i) == Cardinality({a \in S : born[a] > i})
AsNew(S, i) == Cardinality({a \in S : born[a] >= i})

\* REQ-ARTICLE-007 and -008, for a list no write commits under: the total is
\* that of the feed, each row stands at the rank its date gives it, however
\* rows of one instant are ordered, the page is full unless it is the last, and
\* favourites are those of the reader.  A commit between the statements breaks
\* each of them.
UndisturbedListAddsUp ==
    \A q \in Requests : Steady(q) =>
        LET list == lists[q]
            feed == Matching(q)
        IN  /\ list.total = Cardinality(feed)
            /\ Cardinality(ToSet(list.rows)) = Len(list.rows)
            /\ Len(list.rows) = Min({PageLimit, Max({0, list.total - Offset(q)})})
            /\ \A i \in DOMAIN list.rows :
                /\ list.rows[i] \in feed
                /\ Newer(feed, born[list.rows[i]]) < Offset(q) + i
                /\ Offset(q) + i <= AsNew(feed, born[list.rows[i]])
            /\ \A a \in ToSet(list.rows) :
                a \in list.favorited <=> <<sent[q].user, a>> \in favorites

\* What the page at this address would show of a feed whose order is s.
Shows(s, url) == SelectIn(s, OffsetForPage(PageFromParam(url.page)))

\* REQ-WEB-010 AC-2, AC-5: whoever turns the pages a list offers, while nothing
\* is written, comes across every article of the feed he was reading, once.
\* Between two articles of one instant the order may differ from page to page,
\* and one of them may be missed: they are left out.
EveryArticleHasItsPage ==
    \A q \in Requests : Steady(q) /\ lists[q].rows # <<>> =>
        LET here == sent[q].url
            offered == IF Controls(lists[q]) = {}
                         THEN {here}
                         ELSE {PageFormTarget(here, page) : page \in Controls(lists[q])}
            there(url) == {a \in Present : Selects(RequestedFeed(url), sent[q].user, a)}
        IN  \A a \in Matching(q) :
                (\A b \in Matching(q) : born[a] = born[b] => a = b) =>
                    \E page \in offered :
                        \A url \in offered : \A s \in Orders(there(url)) :
                            a \in ToSet(Shows(s, url)) <=> url = page

=============================================================================
