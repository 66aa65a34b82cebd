------------------------------ MODULE Articles ------------------------------
(***************************************************************************)
(* Articles, comments and favourites behind the HTTP API: the use-cases of *)
(* application/article and application/comment over the Prisma adapters.   *)
(*                                                                         *)
(* A request is a process.  A use-case is a sequence of awaited queries,   *)
(* and each query is one step: another request may run between any two of  *)
(* them.  PostgreSQL is the tables and the constraints the code counts on: *)
(* unique slug, unique tag name, composite key of a favourite, foreign     *)
(* keys with ON DELETE CASCADE.                                            *)
(*                                                                         *)
(* An article or a comment is named by the request that created it, or is  *)
(* one of the articles present at the start (Seeds).  Its name stands for  *)
(* its database id, which no other row ever has.                           *)
(***************************************************************************)
EXTENDS Naturals, Sequences

CONSTANTS
    Requests,
    Seeds,          \* articles present before the first request
    SeedRow,        \* their rows
    Users,
    Titles,
    Texts,          \* description and body, which change alike
    Tags,
    Words,          \* what slugify makes of a title, its final ranks set apart
    SlugOfTitle,    \* slugify
    Urls,           \* pages that show a list, which Lists reads
    Mixes,          \* what the requests may ask, together
    MaxAttempts,    \* MAX_SLUG_ATTEMPTS
    None

Ids == Seeds \union Requests

\* "mon-titre-2-3" is [word |-> "mon-titre", ranks |-> <<2, 3>>].  The title
\* "Mon titre 2" and the second article titled "Mon titre" share one slug.
Slugs == [word: Words, ranks: Seq(Nat)]

Rows == [slug: Slugs, title: Titles, text: Texts, tags: SUBSET Tags, author: Users]

CommentRows == [article: Ids, author: Users]

\* A field an update does not mention, or an operation does not have, is None.
Inputs == [op: {"create", "update", "delete", "favorite", "unfavorite",
                "comment", "uncomment", "list"},
           user: Users \union {None},
           slug: Slugs \union {None},
           title: Titles \union {None},
           text: Texts \union {None},
           tags: (SUBSET Tags) \union {None},
           comment: Requests \union {None},
           url: Urls \union {None}]

ASSUME InputAssumption ==
    /\ Mixes \subseteq [Requests -> Inputs]
    /\ \A mix \in Mixes, q \in Requests :
        LET input == mix[q]
        IN  /\ input.op = "list" => input.url # None
            /\ input.op # "list" => input.user # None
            /\ input.op = "create" => None \notin {input.title, input.text, input.tags}
            /\ input.op \notin {"create", "list"} => input.slug # None
            /\ input.op = "uncomment" => input.comment # None

ASSUME SeedAssumption ==
    /\ Seeds \intersect Requests = {}
    /\ SeedRow \in [Seeds -> Rows]
    /\ \A a, b \in Seeds : SeedRow[a].slug = SeedRow[b].slug => a = b

ASSUME ConstantAssumption ==
    /\ SlugOfTitle \in [Titles -> Slugs]
    /\ MaxAttempts \in Nat \ {0}
    /\ None \notin Ids \union Users \union Titles \union Texts \union Urls
    /\ None \notin Slugs \union Rows \union CommentRows

VARIABLES
    sent,       \* the operation each request carries
    pc,         \* the await each request stands at
    task,       \* the local variables of its use-case
    articles,   \* table articles, with the tags of each row
    tags,       \* table tags: a name never leaves it
    comments,   \* table comments
    favorites,  \* table favorites
    answer

vars == <<sent, pc, task, articles, tags, comments, favorites, answer>>
tables == <<articles, tags, comments, favorites>>

-----------------------------------------------------------------------------
Present == {a \in Ids : articles[a] # None}

\* The row a query filtered by (id, authorId) finds.
Mine(q, a) == a \in Present /\ articles[a].author = sent[q].user

\* findUnique on the slug.
Under(slug) == {a \in Present : articles[a].slug = slug}

\* withSuffix, and the candidate of the attempts of create and update.
WithSuffix(slug, rank) == [slug EXCEPT !.ranks = Append(@, rank)]

Candidate(slug, attempt) == IF attempt = 1 THEN slug ELSE WithSuffix(slug, attempt)

Given(field, current) == IF field = None THEN current ELSE field

\* Mutant: the slug is derived again whatever the title.
WithChangesRenewingSlug(row, input) ==
    LET title == Given(input.title, row.title)
    IN  [row EXCEPT !.title = title,
                    !.slug = SlugOfTitle[title],
                    !.text = Given(input.text, @),
                    !.tags = Given(input.tags, @)]

\* Mutant: a field that is not sent is read as sent empty.
WithChangesBlanking(row, input) ==
    LET title == Given(input.title, row.title)
    IN  [row EXCEPT !.title = title,
                    !.slug = IF title # row.title THEN SlugOfTitle[title] ELSE @,
                    !.text = input.text,
                    !.tags = Given(input.tags, @)]

\* withChanges: the slug follows the title only when the title changes.
WithChanges(row, input) ==
    LET title == Given(input.title, row.title)
    IN  [row EXCEPT !.title = title,
                    !.slug = IF title # row.title THEN SlugOfTitle[title] ELSE @,
                    !.text = Given(input.text, @),
                    !.tags = Given(input.tags, @)]

NewRow(input) ==
    [slug |-> SlugOfTitle[input.title], title |-> input.title, text |-> input.text,
     tags |-> input.tags, author |-> input.user]

\* target: id the slug resolved to.  read: row found there.  draft: row to
\* write, its slug being the base of the candidates.  known: tags the open
\* transaction found in the table.  written: slug the write settled on.
\* shown: article the last query of the use-case found.
BlankTask == [target |-> None, read |-> None, draft |-> None,
              attempt |-> 1, known |-> {}, written |-> None, shown |-> None]

Pending == [status |-> "pending", article |-> None, favorited |-> FALSE]
Refusal(status) == [status |-> status, article |-> None, favorited |-> FALSE]
Done == [status |-> "ok", article |-> None, favorited |-> FALSE]
Showing(q, a) == [status |-> "ok", article |-> a, favorited |-> <<sent[q].user, a>> \in favorites]

Goto(q, stage) == pc' = [pc EXCEPT ![q] = stage]

Reply(q, a) == /\ Goto(q, "done")
               /\ answer' = [answer EXCEPT ![q] = a]

\* The error of a use-case: 404, 403, or 500 when no filter knows it.
Fail(q, status) == /\ Reply(q, Refusal(status))
                   /\ UNCHANGED <<sent, task, tables>>

-----------------------------------------------------------------------------
Init ==
    /\ sent \in Mixes
    /\ pc = [q \in Requests |-> "arrived"]
    /\ task = [q \in Requests |-> BlankTask]
    /\ articles = [a \in Ids |-> IF a \in Seeds THEN SeedRow[a] ELSE None]
    /\ tags = UNION {SeedRow[a].tags : a \in Seeds}
    /\ comments = [q \in Requests |-> None]
    /\ favorites = {}
    /\ answer = [q \in Requests |-> Pending]

\* create has nothing to look up: the author comes from the token, the slug
\* from the title.
Begin(q) ==
    /\ pc[q] = "arrived"
    /\ sent[q].op = "create"
    /\ task' = [task EXCEPT ![q].draft = NewRow(sent[q])]
    /\ Goto(q, "readingTags")
    /\ UNCHANGED <<sent, tables, answer>>

NextStage == [update |-> "readingOwnTags", delete |-> "deleting",
              favorite |-> "selectingFavorite", unfavorite |-> "deletingFavorite",
              comment |-> "inserting", uncomment |-> "findingComment"]

\* findBySlug of the use-cases that name an article, then assertEditableBy.
\* Its include reads the tags of the article in a second SELECT, which matters
\* to update alone.
Find(q) ==
    /\ pc[q] = "arrived"
    /\ sent[q].op \in DOMAIN NextStage
    /\ \/ /\ Under(sent[q].slug) = {}
          /\ Fail(q, "notFound")
       \/ \E a \in Under(sent[q].slug) :
            \/ /\ sent[q].op \in {"update", "delete"}
               /\ articles[a].author # sent[q].user
               /\ Fail(q, "forbidden")
            \/ /\ sent[q].op \in {"update", "delete"} => articles[a].author = sent[q].user
               /\ task' = [task EXCEPT ![q].target = a, ![q].read = articles[a]]
               /\ Goto(q, NextStage[sent[q].op])
               /\ UNCHANGED <<sent, tables, answer>>

\* That SELECT: the tags may be those of a later row, or none once the article
\* is deleted.  withChanges then makes the row to write.
ReadOwnTags(q) ==
    /\ pc[q] = "readingOwnTags"
    /\ LET a == task[q].target
           read == [task[q].read EXCEPT !.tags = IF a \in Present THEN articles[a].tags ELSE {}]
       IN  task' = [task EXCEPT ![q].read = read, ![q].draft = WithChanges(read, sent[q])]
    /\ Goto(q, "readingTags")
    /\ UNCHANGED <<sent, tables, answer>>

-----------------------------------------------------------------------------
(* The write of an article, by create and by update.  Both are nested      *)
(* writes: one transaction that claims the slug, looks each tag up         *)
(* (connectOrCreate), inserts the missing ones, and commits.  Looking the  *)
(* slug up at the commit is the same as holding it from the claim: a       *)
(* rival that commits in between would have made the claim wait, and fail. *)

\* The transaction looks the tags up.
ReadTags(q) ==
    /\ pc[q] = "readingTags"
    /\ task' = [task EXCEPT ![q].known = tags]
    /\ Goto(q, "storing")
    /\ UNCHANGED <<sent, tables, answer>>

Destination(q) == IF sent[q].op = "create" THEN q ELSE task[q].target

\* update only: no row under (id, authorId) any more, P2025, 404.
Vanished(q) == sent[q].op = "update" /\ ~Mine(q, task[q].target)

\* Mutant: slugs unique among the articles of one author only.
SlugTakenByAuthor(q) ==
    \E a \in Under(Candidate(task[q].draft.slug, task[q].attempt)) \ {Destination(q)} :
        articles[a].author = sent[q].user

\* The unique constraint; a row never conflicts with itself.
SlugTaken(q) == Under(Candidate(task[q].draft.slug, task[q].attempt)) \ {Destination(q)} # {}

\* A tag this transaction did not see has been inserted by another one.
TagTaken(q) == \E t \in task[q].draft.tags : t \notin task[q].known /\ t \in tags

\* Mutant: the retry does not count.
RetryUncounted(q) ==
    /\ pc[q] = "storing"
    /\ ~Vanished(q)
    /\ SlugTaken(q)
    /\ Goto(q, "readingTags")
    /\ UNCHANGED <<sent, task, tables, answer>>

\* Mutant: the last attempt is announced and never made.
RetryOneShort(q) ==
    /\ pc[q] = "storing"
    /\ ~Vanished(q)
    /\ SlugTaken(q)
    /\ IF task[q].attempt + 1 < MaxAttempts
         THEN /\ task' = [task EXCEPT ![q].attempt = @ + 1]
              /\ Goto(q, "readingTags")
              /\ UNCHANGED <<sent, tables, answer>>
         ELSE Fail(q, "failed")

\* P2002 on the slug: the next candidate, from the same base, up to the bound.
Retry(q) ==
    /\ pc[q] = "storing"
    /\ ~Vanished(q)
    /\ SlugTaken(q)
    /\ IF task[q].attempt < MaxAttempts
         THEN /\ task' = [task EXCEPT ![q].attempt = @ + 1]
              /\ Goto(q, "readingTags")
              /\ UNCHANGED <<sent, tables, answer>>
         ELSE Fail(q, "failed")

\* P2025 is a 404; P2002 on the name of a tag is nobody's to translate.
Abandon(q) ==
    /\ pc[q] = "storing"
    /\ \/ /\ Vanished(q)
          /\ Fail(q, "notFound")
       \/ /\ ~Vanished(q) /\ ~SlugTaken(q) /\ TagTaken(q)
          /\ Fail(q, "failed")

Put(q) ==
    LET slug == Candidate(task[q].draft.slug, task[q].attempt)
    IN  /\ articles' = [articles EXCEPT ![Destination(q)] = [task[q].draft EXCEPT !.slug = slug]]
        /\ tags' = tags \union task[q].draft.tags
        /\ task' = [task EXCEPT ![q].target = Destination(q), ![q].written = slug]
        /\ Goto(q, "rereading")
        /\ UNCHANGED <<sent, comments, favorites, answer>>

\* Mutant: an upsert, which brings a deleted article back.
StoreByUpsert(q) ==
    /\ pc[q] = "storing"
    /\ ~SlugTaken(q) /\ ~TagTaken(q)
    /\ Put(q)

\* The transaction commits.
Store(q) ==
    /\ pc[q] = "storing"
    /\ ~Vanished(q) /\ ~SlugTaken(q) /\ ~TagTaken(q)
    /\ Put(q)

\* query.findBySlug at the end of the use-case: the slug just written for
\* create and update, the slug of the URL for the favourites.  The row first.
Reread(q) ==
    /\ pc[q] = "rereading"
    /\ LET slug == IF sent[q].op \in {"create", "update"} THEN task[q].written ELSE sent[q].slug
       IN  \/ /\ Under(slug) = {}
              /\ Fail(q, "notFound")
           \/ \E a \in Under(slug) :
                /\ task' = [task EXCEPT ![q].shown = a]
                /\ Goto(q, "readingFavorites")
                /\ UNCHANGED <<sent, tables, answer>>

\* Then its relations: include is a SELECT for each, outside any transaction.
\* An article deleted in between is answered all the same, without favourites.
ReadFavorites(q) ==
    /\ pc[q] = "readingFavorites"
    /\ Reply(q, Showing(q, task[q].shown))
    /\ UNCHANGED <<sent, task, tables>>

-----------------------------------------------------------------------------
(* Deletion *)

\* delete where (id, authorId); comments and favourites leave by cascade.
Delete(q) ==
    /\ pc[q] = "deleting"
    /\ LET a == task[q].target
       IN  \/ /\ ~Mine(q, a)
              /\ Fail(q, "notFound")
           \/ /\ Mine(q, a)
              /\ articles' = [articles EXCEPT ![a] = None]
              /\ comments' = [c \in Requests |->
                                IF comments[c] # None /\ comments[c].article = a
                                  THEN None ELSE comments[c]]
              /\ favorites' = {f \in favorites : f[2] # a}
              /\ Reply(q, Done)
              /\ UNCHANGED <<sent, task, tags>>

-----------------------------------------------------------------------------
(* Favourites *)

FavoriteOf(q) == <<sent[q].user, task[q].target>>

\* The SELECT of upsert.
SelectFavorite(q) ==
    /\ pc[q] = "selectingFavorite"
    /\ Goto(q, IF FavoriteOf(q) \in favorites THEN "rereading" ELSE "insertingFavorite")
    /\ UNCHANGED <<sent, task, tables, answer>>

\* Mutant: the violation of the composite key is an error like another.
InsertFavoriteOnce(q) ==
    /\ pc[q] = "insertingFavorite"
    /\ \/ /\ articles[task[q].target] = None
          /\ Fail(q, "notFound")
       \/ /\ FavoriteOf(q) \in favorites
          /\ Fail(q, "failed")
       \/ /\ articles[task[q].target] # None
          /\ FavoriteOf(q) \notin favorites
          /\ favorites' = favorites \union {FavoriteOf(q)}
          /\ Goto(q, "rereading")
          /\ UNCHANGED <<sent, task, articles, tags, comments, answer>>

\* Its INSERT: P2003 when the article has gone, P2002 when the row has come,
\* which is the state that was asked for.
InsertFavorite(q) ==
    /\ pc[q] = "insertingFavorite"
    /\ \/ /\ articles[task[q].target] = None
          /\ Fail(q, "notFound")
       \/ /\ articles[task[q].target] # None
          /\ favorites' = favorites \union {FavoriteOf(q)}
          /\ Goto(q, "rereading")
          /\ UNCHANGED <<sent, task, articles, tags, comments, answer>>

\* deleteMany: no row is no error.
DeleteFavorite(q) ==
    /\ pc[q] = "deletingFavorite"
    /\ favorites' = favorites \ {FavoriteOf(q)}
    /\ Goto(q, "rereading")
    /\ UNCHANGED <<sent, task, articles, tags, comments, answer>>

-----------------------------------------------------------------------------
(* Comments *)

\* Mutant: the article was there a moment ago.
InsertCommentUnchecked(q) ==
    /\ pc[q] = "inserting"
    /\ comments' = [comments EXCEPT ![q] = [article |-> task[q].target, author |-> sent[q].user]]
    /\ Goto(q, "rereadingComment")
    /\ UNCHANGED <<sent, task, articles, tags, favorites, answer>>

\* The foreign key decides: P2003 is a 404 on the article.
InsertComment(q) ==
    /\ pc[q] = "inserting"
    /\ \/ /\ articles[task[q].target] = None
          /\ Fail(q, "notFound")
       \/ /\ articles[task[q].target] # None
          /\ comments' = [comments EXCEPT ![q] =
                            [article |-> task[q].target, author |-> sent[q].user]]
          /\ Goto(q, "rereadingComment")
          /\ UNCHANGED <<sent, task, articles, tags, favorites, answer>>

RereadComment(q) ==
    /\ pc[q] = "rereadingComment"
    /\ \/ /\ comments[q] = None
          /\ Fail(q, "notFound")
       \/ /\ comments[q] # None
          /\ Reply(q, Done)
          /\ UNCHANGED <<sent, task, tables>>

MyComment(q, c) == comments[c] # None /\ comments[c].author = sent[q].user

\* Mutant: the id of the comment is enough.
InAnyThread(q, c) == comments[c] # None

\* belongsToArticle: the comment is one of the article the URL led to.
InThread(q, c) == comments[c] # None /\ comments[c].article = task[q].target

\* belongsToArticle, then assertDeletableBy.
FindComment(q) ==
    /\ pc[q] = "findingComment"
    /\ LET c == sent[q].comment
       IN  \/ /\ ~InThread(q, c)
              /\ Fail(q, "notFound")
           \/ /\ InThread(q, c) /\ ~MyComment(q, c)
              /\ Fail(q, "forbidden")
           \/ /\ InThread(q, c) /\ MyComment(q, c)
              /\ Goto(q, "deletingComment")
              /\ UNCHANGED <<sent, task, tables, answer>>

\* delete where (id, authorId).
DeleteComment(q) ==
    /\ pc[q] = "deletingComment"
    /\ LET c == sent[q].comment
       IN  \/ /\ ~MyComment(q, c)
              /\ Fail(q, "notFound")
           \/ /\ MyComment(q, c)
              /\ comments' = [comments EXCEPT ![c] = None]
              /\ Reply(q, Done)
              /\ UNCHANGED <<sent, task, articles, tags, favorites>>

-----------------------------------------------------------------------------
Write(q) ==
    \/ ReadTags(q) \/ Retry(q) \/ Abandon(q) \/ Store(q)
    \/ Reread(q) \/ ReadFavorites(q)

Favor(q) == SelectFavorite(q) \/ InsertFavorite(q) \/ DeleteFavorite(q)

Discuss(q) == InsertComment(q) \/ RereadComment(q) \/ FindComment(q) \/ DeleteComment(q)

Step(q) == Begin(q) \/ Find(q) \/ ReadOwnTags(q) \/ Write(q) \/ Delete(q) \/ Favor(q) \/ Discuss(q)

Next == \E q \in Requests : Step(q)

Spec == Init /\ [][Next]_vars

-----------------------------------------------------------------------------
(* Type *)

Tasks == [target: Ids \union {None},
          read: Rows \union {None},
          draft: Rows \union {None},
          attempt: 1..MaxAttempts,
          known: SUBSET Tags,
          written: Slugs \union {None},
          shown: Ids \union {None}]

Stages == {"arrived", "readingOwnTags", "readingTags", "storing", "rereading", "readingFavorites",
           "deleting", "selectingFavorite", "insertingFavorite", "deletingFavorite",
           "inserting", "rereadingComment", "findingComment", "deletingComment", "done",
           "relating", "counting"}     \* those of a list

Answers == [status: {"pending", "ok", "notFound", "forbidden", "failed"},
            article: Ids \union {None},
            favorited: BOOLEAN]

\* Every variable ranges over the states the code can represent.
TypeOK ==
    /\ sent \in [Requests -> Inputs]
    /\ pc \in [Requests -> Stages]
    /\ task \in [Requests -> Tasks]
    /\ articles \in [Ids -> Rows \union {None}]
    /\ tags \in SUBSET Tags
    /\ comments \in [Requests -> CommentRows \union {None}]
    /\ favorites \in SUBSET (Users \X Ids)
    /\ answer \in [Requests -> Answers]

-----------------------------------------------------------------------------
(* Safety *)

\* ADR 010: whatever is created and renamed at the same time under the same
\* title, a slug designates one article.
OneArticlePerSlug ==
    \A a, b \in Present : articles[a].slug = articles[b].slug => a = b

\* AC-2 of REQ-ARTICLE-006: no comment and no favourite outlives its article,
\* even one whose article was deleted after the use-case had found it.
NoOrphans ==
    /\ \A c \in Requests : comments[c] # None => comments[c].article \in Present
    /\ \A f \in favorites : f[2] \in Present

\* An update whose row is still the one it read changes nothing but the fields
\* it was given.  At its first attempt, when it does not change the title, it
\* keeps the URL too, suffix included, and is never sent to the next candidate:
\* AC-1 and AC-3 of REQ-ARTICLE-005, as far as they hold.  At a later attempt
\* the URL may change: the row has been renamed meanwhile, its slug taken, the
\* row renamed back, and the candidate that follows is the second one.
UndisturbedUpdateIsPartial ==
    [][\A q \in Requests :
        /\ sent[q].op = "update" /\ pc[q] = "storing"
        /\ articles[task[q].target] = task[q].read
        => LET old == task[q].read
               new == articles'[task[q].target]
           IN  /\ pc'[q] = "rereading" =>
                    \A field \in {"title", "text", "tags"} :
                        new[field] = Given(sent[q][field], old[field])
               /\ task[q].attempt = 1 /\ Given(sent[q].title, old.title) = old.title =>
                    /\ pc'[q] # "readingTags"
                    /\ pc'[q] = "rereading" => new.slug = old.slug]_vars

\* AC-4 of REQ-COMMENT-004: a comment leaves with its article, or through the
\* URL of its article at the request of its author.
CommentDeletedInItsThread ==
    [][\A c \in Requests :
        comments[c] # None /\ comments'[c] # comments[c] =>
            \/ articles'[comments[c].article] = None
            \/ \E q \in Requests : /\ pc[q] = "deletingComment"
                                   /\ sent[q].comment = c
                                   /\ sent[q].user = comments[c].author
                                   /\ task[q].target = comments[c].article]_vars

\* REQ-ARTICLE-009: favouring, twice at once included, is never a 500, and an
\* answer that shows the article favoured at the start of the use-case shows it
\* as asked, unless the same reader asked the opposite meanwhile.  There are
\* two exceptions.  Once the slug has changed hands, the answer is about another
\* article; and one deleted between its row and its favourites is shown, to
\* whoever favoured it, unfavoured.
FavoriteAnswersAsAsked ==
    \A q \in Requests :
        /\ sent[q].op \in {"favorite", "unfavorite"}
        /\ ~\E p \in Requests : /\ {sent[p].op, sent[q].op} = {"favorite", "unfavorite"}
                               /\ sent[p].user = sent[q].user
                               /\ task[p].target = task[q].target
        => /\ answer[q].status \in {"pending", "notFound", "ok"}
           /\ answer[q].status = "ok" /\ answer[q].article = task[q].target =>
                /\ answer[q].favorited => sent[q].op = "favorite"
                /\ sent[q].op = "favorite" /\ task[q].target \in Present => answer[q].favorited

\* Two writes that introduce one tag at once.
TagRace(q) ==
    \E p \in Requests \ {q}, t \in Tags :
        /\ task[p].written # None
        /\ t \in task[p].draft.tags
        /\ t \in task[q].draft.tags

\* Another article has, or has had, this slug.
OnceTaken(q, slug) ==
    \/ \E a \in Seeds \ {Destination(q)} : SeedRow[a].slug = slug
    \/ \E p \in Requests : task[p].written = slug /\ task[p].target # Destination(q)

\* ADR 010: a write gives up only once each of the MAX_SLUG_ATTEMPTS candidates
\* of its base has been another article's.  The other 500 is the one of a tag
\* that two writes introduce at once.
FailsOnlyOnTagRaceOrExhaustion ==
    \A q \in Requests :
        answer[q].status = "failed" =>
            \/ TagRace(q)
            \/ \A k \in 1..MaxAttempts : OnceTaken(q, Candidate(task[q].draft.slug, k))

-----------------------------------------------------------------------------
(* What the documents say and the code does not always do *)

\* AC-1 and AC-3 of REQ-ARTICLE-005: a field that is not sent keeps its value,
\* and a URL does not change unless a title is sent.
UpdateIsPartial ==
    [][\A q \in Requests :
        sent[q].op = "update" /\ pc[q] = "storing" /\ pc'[q] = "rereading" =>
            LET old == articles[task[q].target]
                new == articles'[task[q].target]
            IN  \A field \in {"title", "text", "tags"} :
                    sent[q][field] = None => new[field] = old[field]]_vars

-----------------------------------------------------------------------------
(* Liveness *)

\* Every request is answered: no retry goes on for ever.
EveryRequestAnswered == <>(\A q \in Requests : answer[q] # Pending)

-----------------------------------------------------------------------------
(* Refinement *)

Written == {q \in Requests : sent[q].op = "create" /\ task[q].written # None}

Addresses == INSTANCE Directory WITH
    Names     <- Slugs,
    address   <- [a \in Ids |-> IF articles[a] = None THEN None ELSE articles[a].slug],
    published <- Seeds \union Written

\* For whoever holds a link, the articles are a Directory.
KeepsDirectory == Addresses!Spec

=============================================================================
