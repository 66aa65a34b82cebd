# Conduit in TLA+

TLA+ models of the Conduit application of this repository — the NestJS API over
PostgreSQL (`apps/api`) and the Next.js client (`apps/web`) — with TLC runs that
check them on small instances, and TLAPS proofs that what the runs check, liveness apart, holds of any instance.

Run a check with `tlc -config <Run>.cfg <Module>` and the proofs of a module with
`tlapm <Module>Proofs.tla`. `PROJECT.json` maps every definition to the lines
it stands for, and lists the runs, the hazards and the theorems.

## 1. Inventory

| Component | State it keeps | Operations | Talks to |
|---|---|---|---|
| Idempotency of creations (`interface/idempotency`, `prisma-idempotency.store.ts`) | table `idempotency_records`, one row per (account, route pattern, key) | reserve, inspect, complete, release, around `POST /articles` and `POST /articles/:slug/comments` | wraps the handlers of the next row |
| Articles, comments, favourites (`application/article`, `application/comment`, Prisma adapters) | tables of articles, tags, comments, favourites | create, update, delete, favourite, unfavourite, comment, delete a comment | PostgreSQL, query by query |
| Accounts, guards, follows (`application/user`, `application/profile`, `interface/auth`) | tables of users and follows | register, login, current user, update, profile, follow, unfollow | PostgreSQL; the guard reads the account of the token |
| Session of the browser (`lib/session.tsx`, `lib/api-provider.tsx`, `lib/api-client.ts`, login and settings pages) | snapshot (user, status, token) and generation per tab; the token in `localStorage` shared by the tabs | rehydrate with timeout and retries, sign in, sign out, purge on 401, save the account | the API over HTTP |
| Caches and buttons (`lib/content-query.ts`, article page, editor, lists, comment section) | TanStack Query entries; local state of the buttons and of the comment section | read, favourite, follow, publish, delete, save, comment; write, remove or mark entries | the API over HTTP; the router |
| Lists and feed (`prisma-article.query.ts`; `lib/pagination.ts`, `lib/feed-query.ts`, `home-page.tsx`) | none: the address is the state | address to feed, page and offset; rows, relations and count in three statements of one transaction; controls that turn the page | PostgreSQL, while the writes run; the browser |
| Pages that depend on the session (`lib/authenticated-page.ts`, `HomeFeed.tsx`, `AuthForm.tsx`, settings, editor, navigation bar) | page of each tab, account seen there, pending flag of each form | visit, redirect, submit, log out | the session; the router |
| Tags, health, pipes, filters, configuration, shared Zod schemas, server-side loading, pages that only render, scripts | none of their own | pure or wiring | – |

**What is hard.** The API keeps nothing in memory: every await of a use-case is a
place where another request, of the same or of another process, may run, and
the only protection is a constraint of the database. A process may stop between
a reservation and its result. In the browser answers come back late: after the
user signed out, after a page was left, after another call, or never. Several
tabs share one storage. Two buttons on one page stand for one fact.

**What makes each part correct.** Idempotency: one result per key, never that of
another call. Articles: one article per slug at any moment, nothing orphaned, an
update changes what it was given. Accounts: unique names, edits that last,
no error of the database that comes out as a 500. Session: what is shown is what is kept;
no late answer opens or changes a session; outages purge nothing; waiting ends.
Caches: at rest, a page shows what the API has, and the
comments under an article are those the API confirmed. Lists: one that nothing disturbs adds up, and turning the pages it offers
reaches every article. Pages: none of them, of itself, turns away a reader whose token is kept, a form survives its session, no page waits for ever.

The hazards behind those properties are listed in `PROJECT.json`, each at its line.

## 2. Modules

| Module | Models | State ↔ code | Actions ↔ code |
|---|---|---|---|
| `OncePerKey` | abstract promise of an Idempotency-Key | – | take, give back, settle, replay |
| `Idempotency` | interceptor, store, and as much of the two creations as they observe | `ledger` = `idempotency_records`; `pc` = the await a request stands at; `issued` = the slug or id its INSERT returned; `address` = where its resource is now; `shown` = the resource it read back; `answer` | `Receive` (readKey), `Reserve` (INSERT under the unique constraint), `Inspect` (inspectExisting), `Write`, `Reread` (by slug or id), `Complete`, `Release`, `Throw`; `Delete` and `Rename` (the other routes), `Crash`, and one `…Fault` per query, each before or after the database applied it |
| `Directory` | abstract promise of a unique name | – | publish, move, drop |
| `Articles` | every use-case that writes articles, comments and favourites | `articles`, `tags`, `comments`, `favorites` = tables; `task` = locals of the use-case between two queries | one action per query: `Find`, `ReadOwnTags`, `ReadTags`, `Retry`/`Abandon`/`Store` (the slug loop), `Reread` and `ReadFavorites` (the row, then its relations), `Delete`, `SelectFavorite`/`InsertFavorite` (an upsert in two statements), `InsertComment`, `FindComment`, `DeleteComment` … |
| `Lists` | addresses, feeds and the reading of a list, over `Articles` | `born` = `createdAt`; `lists` = rows, relations and count a request has read so far | `SelectPage`, `Relate`, `Count`, beside every step of `Articles`; `RequestedFeed`, `PageFromParam`, `OffsetForPage`, `PageCount`, `PageFormTarget`, `Controls` are the functions of the browser |
| `Accounts` | accounts, guards, profiles, follows | `users`, `follows` = tables | `Register`, `FindByEmail`/`Verify`, `Guard`, `ReadMe`, `Update`, `FindByUsername`, `ReadFollow`, `SelectFollow`/`InsertFollow`, `DeleteFollow`; `Remove` (a row removed in the database, which the guards provide for) |
| `Session` | `SessionProvider` of each tab over one storage, and the calls that open or close a session | `stored` = `localStorage`; `session`, `generation`, `hydration` per tab; `accepted`, `api` = the API as the client meets it | `Mount`, `Resolve`, `Refuse`, `Postpone`, `Retry`, `TimeOut`, `Stale`; `Send`, `AnswerLogin`, `AnswerSave`, `AnswerDenied`, `ClickSignOut`, `Reload` |
| `Screens` | pages that depend on the session, over `Session` | `screen` = page of each tab, account it has seen (`useAuthenticatedAccount`), call its form awaits (`pending`) | `Visit`, `Submit`, `Accepted`, `Told`, `LogOut`, `ClickWithoutUser` (a button that favours or follows), `Rehydrated`, each followed by the redirections the new session asks for (`Settle`) |
| `Content` | query cache of a tab, the pages over one article, their buttons | `cache` = entries of the `QueryClient`; `overrides` = local state of the follow buttons and of the preview; `calls` = promises in flight; `world` = the article as the API has it | `Open`, `Expire` (staleTime), `Reconnect`, `ServeRead`/`ReceiveRead`/`FailRead`, `Click`, `Serve`, `Lose`, `AnswerFavorite`, `AnswerPreview`, `AnswerFollow`, `AnswerPublish`, `AnswerSave`, `AnswerDelete` |
| `Conversation` | comments under the article, over `Content` | `threads` = entries of the comments; `section` = the local copy of `CommentSection`; `thread` = the comments as the API has them | `ServeThread`/`ReceiveThread`/`FailThread`, `Post`, `Withdraw`, `ServePost`, `ServeRemove`, `AnswerPost`, `AnswerRemove`; every action of `Content` with what it means to the section (`Beside`, `Turn`, `Reconnected`) |
| `MC_*` | constants of the runs | | |
| `*Proofs` | theorems about the module of that name (section 4) | | |

**How they compose.** `Idempotency` implements `OncePerKey`; `Articles` implements
`Directory` for slugs, `Accounts` twice, for e-mails and for usernames. The seam
between `Idempotency` and `Articles` is `Write`/`Reread` and `Delete`/`Rename`: the first sees
only what a request wrote, the slug or id it has, and what is there when its creator reads it back. A comment is read by an
id nobody else takes; an article by its slug, so that once it is renamed and another has taken the slug, the 201 shows that
other article, and so does what is recorded under the key (`create-article.use-case.ts:60`).
The seam between `Accounts` and `Session` is the token: an account in the first,
a value that expires in the second. Three modules extend another and run in its place: `Lists` adds the
readers to the writers of `Articles`, `Screens` puts the pages over `Session`, and `Conversation` puts the comments over
`Content`; each action of the lower module is taken whole, with what it means to the upper one. The effects of React run before
the event loop is free again, so they belong to the step that changed the session or the page.

**Data kept abstract.** A resource is named by the request that created it. A
SHA-256 is the canonical form it is taken of, since collisions are not modelled; a password
stands for its hash. A slug is a word and a sequence of ranks, so that the
title "Tale 2" and the second "Tale" do meet. Title and slug set apart, the text of an article is
one value. Bodies of answers are kept as far as a property reads them:
of the relations a `findUnique` loads after the row, each in a SELECT of its own and outside any transaction, `Articles` keeps the
favourites of the reader (`ReadFavorites`) and the tags an update starts from (`ReadOwnTags`).

**Mutants.** A definition commented "Mutant" is not part of the model. It stands above the
definition it replaces and shows the slip one property is there to notice.

## 3. Runs

All runs finish within a few minutes on two workers.

| Run | Question | Instance | Result |
|---|---|---|---|
| `Idempotency_Faults` | under crashes and failing queries, is a key ever held twice, or answered with another call's result? | 3 requests, two of them one call and the third any of its variations: other account, route, body, order of fields, no key, bad key; a slug two articles may have in turn | holds |
| `Idempotency_Contention` | with crashes and a database that answers, is there one result per key, and does everybody get an answer? | 3 requests, two of them one call, the third the same, with another body or without the key; the same slug | holds, refinement of `OncePerKey` included |
| `Idempotency_LostComplete` | is whoever gets a 201 under a key always shown the same? | 3 requests, failing queries | **violated** |
| `Idempotency_OtherArticle` | is a replay the answer to the URL that was called? | 2 comments, one key, two articles | **violated** |
| `Articles_Writes` | writes of every kind around two homonyms, and lists read under them | every mix of 3 requests out of 13 writes and 5 lists, one list at most; 4 attempts; pages of 2 rows, feeds of up to 4 articles | holds, refinement of `Directory` included |
| `Articles_LostUpdate` | does an update leave the fields it was not given alone? | 2 requests on one article | **violated** |
| `Accounts_Races` | registrations, edits, logins, follows, removals at once | 3 requests over 2 accounts | holds |
| `Session_Tabs` | does a late answer open a session, or change one? | 2 tabs, 1 call, 2 accounts, 3 tokens | holds |
| `Screens_Open` | what a tab that stays open shows and keeps while its session comes and goes, and what it comes back to | 1 tab, 5 pages, 2 calls, 2 accounts with a token each | holds |
| `Session_LoginRefused` | does a refused login purge the token that was kept? | 1 tab, 1 call | **violated** |
| `Content_Pages` | do answers that come back late leave the cache right, and the comments those that were confirmed? | 2 slugs, 2 texts, 2 bios, 2 calls, five ways of using a tab | holds |
| `Content_ListFavorite` | does favouring from a list reach the page of the article? | the reader who favours | **violated** |

**Why these bounds.** Three requests under one key: a holder, a rival that met its
reservation, and a third that comes after both; with two no key is freed and
taken again while somebody is still looking at it. Two of the three repeat one call (`RepeatedBut`, which is
part of the specification of those runs): calls that all differ in key, account or route never meet at a row, and a third
body adds nothing to a second one. The call creates an
article, and one slug may pass from one article to the next, beside the one each article has for itself. Two rows of `Articles` are homonyms from
the start, so each write meets a taken slug and its suffix; three writers are the
fewest that leave one of them without a candidate. `MaxAttempts` is 4: the slugs of the seeds are two candidates of
one base, two creations take the other two, and the third is left without any, so that the exhaustion
does happen, without a tag in common; in the code the bound (`MAX_SLUG_ATTEMPTS`, 50) is the same mechanism with a
larger number. Requests differ by what they ask and by nothing else, so a mix is taken in one
order (`Sorted`), a comment coming first because it is what "uncomment" is about. Pages of two rows over two seeds and two creations make a
full page, a partial last one and one beyond the end; `createdAt` has ties, since
`Instants` holds the instant of a seed. Two accounts are enough for a name to be taken, given up and taken
again, with a third name free. Three tokens over two accounts tell "another token of the
same account" from "another account". In `Session` the generation is bounded by the calls,
which are used once, and by the reloads, which start a page afresh. Two calls in `Content` are two
answers in either order; reads are unbounded, at most one per entry at a time as in the library.
`Screens_Open` has one tab because what another tab does to the storage is the subject of `Session_Tabs`, and
because the guarantees on what is kept are those of one tab; two calls are a form awaiting its answer and one that was left.
One earlier comment, of the account or of another, and up to two posts are enough for a removal to cross a post, and for a second click on a removal.
The ways of using a tab (favour, follow, comment, author) are kept apart because the page offers
a reader and the author different buttons, and the comments share no state with the others but the page.
Commenting comes twice: with the settings, whose answer marks the comments for a new read, and on an article whose
comments also go from another device. `Content_Pages` has nobody else favour for the reader, since `InSync` says nothing of a change the tab missed.

**Symmetry** is declared over requests, calls and tabs, in runs with no liveness only.

**Deadlock** is checked in `Content_Pages`, where a reader can always go elsewhere. The other systems may
really stop: every request answered, or a closed session with nothing in flight.

**Fairness.** `Idempotency` assumes weak fairness of the step of each request and of
nothing else: the event loop resumes an await and the database answers. A crash, a fault, a deletion and a
renaming are never forced; a process that stopped is an explicit way out of
the liveness properties. `ListsSpec` (the writers of `Articles` and the readers) assumes less, that some request
moves as long as one can: every request has finitely many queries to make, the slug loop included, so that this is enough for all to be answered. `ScreenSpec` assumes weak fairness of mounting, of the
conclusion of a rehydration (which the timeout of `withTimeout` guarantees, the API silent or not) and of the
retry timer; nothing is asked of the API, of the user or of the expiry of tokens. That the API stays up is a
premise of `PageComesBack` and of no specification.

### What the violations show

1. `Idempotency_LostComplete`: `complete` runs inside the `try` whose `catch` releases the key. When its UPDATE is
   applied and its answer lost, a second call under the key is replayed the 201, the release then deletes the row, and a third
   call writes another resource and is answered another 201, where REQ-IDEM-001 AC-2 has a successful creation replayed
   as it was and no second resource. (A retry that writes again after a failure nobody was answered a success
   for is what AC-6 asks for, and no violation.)
2. `Idempotency_OtherArticle`: the identity of a call holds the route pattern and the fingerprint its body; the
   slug of the URL is in neither.
3. `Articles_LostUpdate`: an update reads, merges and writes every field, so an update of the text undoes a concurrent
   update of the title. `UndisturbedUpdateIsPartial` is the part that holds. Accounts do not have the
   flaw (`ChangesAreKept`): their update writes the given columns only.
4. `Session_LoginRefused`: `POST /users/login` carries the kept token, and its 401 is reported as that of the token.
5. `Content_ListFavorite`: a preview keeps the answer to itself; the entry of the article is not
   written, although sharing that entry is what its key is for.

### Behaviours the models allow and no property forbids

No document settles them, or the one that does is already the subject of a run. A crash leaves a key reserved for good. A favourite may be answered
with the article that took the slug meanwhile, and so may a creation, which then keeps that answer under its key; ADR 011 has the
reread and says nothing of a slug that moves. An article deleted between its row and its favourites is answered with a 200, unfavoured. A slug already suffixed can be suffixed again. A save answered
after signing out opens the session again. Another tab that resolves late writes back what this one purged. A 401 to a call
of an earlier session closes the present one. A read in flight may bring back the state from before a
click (`InSync` speaks of exchanges that do not cross). A deleted article stays in the cache until it is stale.
The follow button that was not clicked, and the page when it is opened again, show the former state. A publication answered after the author
left the form still takes them to the article; so does the answer to a login or to a save.

*Lists.* The docblock of `page` (`prisma-article.query.ts:96-107`) and REQ-ARTICLE-008 AC-5 take one transaction for one coherent
reading. PostgreSQL runs it READ COMMITTED, each statement with a snapshot of its own, and the model lets a commit fall between
any two: the total may then be that of another moment than the rows. `UndisturbedListAddsUp` is what holds. `orderBy: createdAt`
has no tie-breaker, so that two articles of one instant may change places between two pages, which `EveryArticleHasItsPage` leaves
out. A page beyond the end of a feed is empty and offers no controls, whatever its total.

*Pages.* While the session is unavailable, a button that favours or follows takes to the login form a reader whose token is
kept (`FavoriteButton.tsx:69`, `FollowButton.tsx:114`). The comment at `FavoriteButton.tsx:96-98` says why the button is disabled while the session is
`pending`: a reader with a valid session must not be sent there; that reason holds of an unavailable session
as well, which `disabled` does not cover. `TokenSparesLogin` names that click as its exception. The comment form is unmounted by the 401 that purges the session, so the message REQ-WEB-013 AC-7 asks for is not
shown. An editor opened before the session is resolved shows a form that cannot be sent yet; if the session is then refused, the
form goes with what was typed in it, as REQ-WEB-019 AC-2 asks of a page that has seen no account.

*Comments.* Posts and removals write the copy of the section and no entry of the cache: back on the page within the thirty
seconds of `staleTime`, a reader finds the list of before, his comment missing or the deleted one there, and deleting it again is a 404.
The section puts a new comment first and the API lists it last. After a save of the account,
an entry that is marked still holds the former name and picture: the section that mounts on it copies them, and the read that follows does not
reach the copy, where REQ-WEB-004 AC-10 wants them on no screen shown after.
`ShowsWhatWasConfirmed` speaks of a section while it stays on the page.

## 4. Proofs

Every invariant and every action property of the passing runs is also a theorem, for any value of the constants the assumptions
allow: any number of requests, calls, slugs, accounts, tokens and, where nothing is said, tabs.

| Module | Specification | Theorems |
|---|---|---|
| `IdempotencyProofs` | `FaultySpec` | `TypeCorrectness`, `ExclusiveExecutionHolds`, `HolderOwnsRowHolds`, `ServedFromOwnKeyHolds` |
| | `Spec` | `AnsweredBeforeReplyHolds`, `OneResponsePerKeyHolds`, `NoSecondResourceHolds`, `ReservedMeansInProgressHolds`, `AnsweredIsFinalHolds`, `Refinement` (implements `OncePerKey`) |
| `AccountsProofs` | `Spec` | `TypeCorrectness`, `ErrorsAreTranslatedHolds`, `NoDanglingFollowHolds`, `ChangesAreKeptHolds`, `FollowAnswersWhatIsStoredHolds`, `KeepsNamesHolds` (implements `Directory`, twice) |
| `ArticlesProofs` | `Spec` | `TypeCorrectness`, `OneArticlePerSlugHolds`, `NoOrphansHolds`, `FailsOnlyOnTagRaceOrExhaustionHolds`, `FavoriteAnswersAsAskedHolds`, `UndisturbedUpdateHolds`, `CommentDeletedInItsThreadHolds`, `KeepsDirectoryHolds` (implements `Directory`) |
| `ListsProofs` | `ListsSpec` | the same with lists read meanwhile (`Lists…`), `ListsTypeCorrectness`, `UndisturbedListAddsUpHolds`, `EveryArticleHasItsPageHolds` |
| `SessionProofs` | `Spec` | `TypeCorrectness`, `OpensAsAskedHolds`; one tab: `ShownIsStoredHolds`, `OutagePurgesNothingHolds` |
| `ScreensProofs` | `ScreenSpec` | `ScreensTypeCorrectness`, `FormStaysHolds`; one tab: `ScreensShownIsStored`, `ScreensOutagePurgesNothing`, `TokenSparesLoginHolds` |
| `ContentProofs` | `Spec` | `TypeCorrectness`, `NoGhostHolds`, `InSyncHolds`, `NeverBlankHolds`, `FreshPropWinsHolds` |
| `ConversationProofs` | `ConversationSpec` | the same with the comments (`Conversation…`), `ConversationTypeCorrectness`, `ShowsWhatWasConfirmedHolds` |

### Assumptions

The named assumptions of the modules say what the inputs are: what requests carry, that the start has no two articles at one slug nor two accounts
of one name, that routing, canonicalisation and `SlugOfTitle` are functions, and that `None`, which stands for null or undefined, is no value of another kind
(no row, no number, no slug; `Feed`, the key of a list, is no slug either). TLC evaluates each of them on the runs. `MaxAttempts` is any positive number. Two groups of theorems ask for more:

- `ListsTypeCorrectness`, `UndisturbedListAddsUpHolds`, `EveryArticleHasItsPageHolds`: a finite set of articles, since they count them.
- The theorems about one tab assume `Tabs = {tab}`. With two they are false, and section 3 says so: another tab may write or remove the token.

### Arguments

*Idempotency.* `FaultySpec` lets any query fail before or after it was applied and any process stop; `Spec` lets processes stop while the database
answers. The second half of the theorems is false under `FaultySpec`: that is `Idempotency_LostComplete`. `ExclusiveExecution` is not inductive: it needs to know that whoever executes under a key finds a row there
(`HolderOwnsRow`), since it is the presence of that row which makes the next INSERT fail. `FaultyInv` adds which stages have a key (`KeyedStages`), that what is completed was written and read back (`WrittenFirst`),
that a place named after a request is its own (`OwnPlaces`), so that what a request reads back is what it wrote or what had its slug (`ShownGenuine`),
and that an answered row holds a response of its own key (`RowsGenuine`). Four lemmas say once what a step may do to the table, to the resources, to the answers and to the stages,
so that each conjunct is examined against four effects and not against twenty actions. `SafeInv` adds that a holder's row is still
reserved (`HolderReserved`), which a failed query can break and a crash cannot; that rows not answered are blank; and that
each request that leaves a resource behind is about to attach it, stopped with its key reserved, or on its row (`ResourcesAccounted`). The
refinement maps a row to a phase, its body to a result and a created answer to what was served; every step then is a take, a give-back, a settlement, a
replay or a stutter. `AnsweredBeforeReply` and `AnsweredIsFinal` are proved and no run repeats them: on an instance, the refinement
already fails when either does.

*Accounts.* `IInv` adds to the properties what a request that has reached a query is known to be (`Routed`), that a row appears through the
registration of its own request only (`Unregistered`) and that a request has no answer before it ends. A step then is one of few on the tables, which the refinements
of `Directory` read off.

*Articles and lists.* `IInv` relates each task to its stage and to the rows it has read (`Staged`), says that an article there is, or that somebody found, was present
at the start or written by its creation (`Appeared`), and that a comment on its way out stands under the article it was looked for in (`Threaded`); without the last, a
comment could leave through the address of another article. `FavoriteAnswersAsAsked` needs that the table is as an unopposed request asked (`Settled`) at
each of its last two queries, the row and the favourites, and its answer after them (`Favored`); an article deleted in between never returns, which is why the answer is
compared with the request while the article is there. `FailsOnlyOnTagRaceOrExhaustion` needs that each candidate already tried was another article's
(`Retried`): the slug an article has is one it started with or one a request wrote there (`Traced`), and neither is ever forgotten, so that what stood in the way once
stays on record (`OnceTaken`). No bound is asked of the attempts: when they run out, the record is the reason. `LInv` adds what a list has read at each stage, as long as nothing disturbed it.

*Session and pages.* `SInv` relates the stage of a rehydration to the session (one that is resolving shows no account) and says that a call was sent from a tab that had
loaded its token. With one tab, what is shown has the stored token, and a rehydration in progress is about that token (`OneTab`). `PagesInv` adds that a page has seen an account only
where one is needed, and the account of the session when there is one.

*Article in the browser.* `Base` has the types, and that an entry has nothing of another slug; `LiveAt` and `OverrideAt` that the follow buttons in use are those of the article
shown, and that an override is made of what it shows (`FreshPropWins`); `GhostAt` that when there is one publication, the entry of the former slug holds neither an article nor the answer to
a read that would bring it back; `SyncAt` that while nothing crosses there is one call at a time, its answer is the article as it is, and an entry that no answer is due to is
that article or marked stale. All of it is proved of a step of `Content` or of one that moves calls of comments only (`Chat`), so that `ConversationProofs` has only to show that its steps are such.

*Comments.* `Talk` says that every list of comments, the API's, those of the cache and the copy of the section, has each comment once and no post that was not served; that
a section stands where both entries are loaded; that a live call of a section has its section; and that what a live post has published is not yet in the copy. The last one makes the
answer the only way in: no read can bring the comment to the copy before it. `Without` removes the one occurrence of a comment, which is the filter of `CommentSection.tsx` on lists that have each
comment once; TLC compares the two on short lists (`WithoutIsFilter`) and the proof gives the rest, a definition by cases being within the reach of the provers where `SelectSeq`, which is recursive, is not.

### What a proof corrected

`UndisturbedUpdateIsPartial` used to say that an update whose row is the one it read keeps the address unless the title changes, at any attempt. The inductive step failed, and TLC found
why with five requests: an update loses its slug to a creation because its row was renamed meanwhile, and while it prepares the second candidate the creation is deleted and the row
renamed back. The row is again the one it read, the address is free again, and the update moves the article to the second candidate without a change of title
(`prisma-article.repository.ts:105-143`). The property now speaks of the first attempt for the address, and of every attempt for the fields. The instances of three requests are too
small for that history.

### Left to the model checker

Liveness: `EveryRequestAnswered` (of `Idempotency` and of `Lists`), `PendingEnds`, `PageComesBack`; the provers do not reason about fairness and ENABLED. The equality of `Without` with a filter, which
takes an induction on lists. The violations, each of which is one behaviour. Every invariant named above was checked on the instance of its run before it was proved.

## 5. Not modelled

- Tags: one read-only query.
- In lists: the table of follows, which stays what it is during a run; the limit and the offset a client other than
  this one may ask for, and their validation.
- In the browser: the profile page and its follow button; the lists the server prefetches anonymously and the hydration that
  replaces an entry; what is typed in a field (a form that stays keeps it, one that goes loses it); comments others publish while the tab is open.
- One slug has its comments on screen at a time; a deletion of the article takes them with it in `Articles` and is not crossed with them in `Conversation`.
- The order of parameters, limits and messages of validation; hashing; signing; HTTP wiring; start-up.
- Retries that TanStack Query makes after a failed read: a read that fails and is retried is one longer read.
- The removal of accounts has no route in the API; `Accounts` has it because the guards and adapters handle it.

## 6. Plan

1. Done: idempotency, articles and the lists read under them, accounts, session and the pages over it, caches and the comments over them; every safety property of the runs proved.
2. Next proofs: what two tabs may still rely on (the parts of `OneTab` that hold of each tab on its own); the lemmas behind the liveness properties that are plain invariants
   (what an unanswered request can always do next).
3. Next models: the profile page over `Content`; hydration of prefetched lists; `slugify` as a function against a reference definition.
4. No module declares a RECURSIVE operator, so that all of them stay open to proof.
