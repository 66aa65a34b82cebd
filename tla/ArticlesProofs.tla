---------------------------- MODULE ArticlesProofs ----------------------------
(***************************************************************************)
(* What holds of Articles for every set of requests, articles, titles and  *)
(* tags, whatever the requests ask for.                                    *)
(*                                                                         *)
(* The step lemmas allow one step more than Articles has, that of a list   *)
(* (Looks): it moves its own request and writes no table.  They serve for  *)
(* Lists as well, where such steps exist.                                  *)
(***************************************************************************)
EXTENDS Articles, TLAPS

-----------------------------------------------------------------------------
(* Lemmas on the operators *)

\* A slug with a rank more is a slug.
LEMMA CandidateType ==
    ASSUME NEW slug \in Slugs, NEW k \in Nat
    PROVE  Candidate(slug, k) \in Slugs
<1>1. slug.ranks \in Seq(Nat) /\ Append(slug.ranks, k) \in Seq(Nat)
  BY DEF Slugs
<1>2. [slug EXCEPT !.ranks = Append(slug.ranks, k)] \in Slugs
  BY <1>1 DEF Slugs
<1>3. QED
  BY <1>2 DEF Candidate, WithSuffix

\* What the use-cases count on in a request.
LEMMA MixTypes ==
    ASSUME NEW mix \in Mixes, NEW q \in Requests
    PROVE  /\ mix \in [Requests -> Inputs] /\ mix[q] \in Inputs
           /\ mix[q].op # "list" => mix[q].user \in Users
           /\ mix[q].op = "create" => /\ mix[q].title \in Titles
                                      /\ mix[q].text \in Texts
                                      /\ mix[q].tags \in SUBSET Tags
           /\ mix[q].op \notin {"create", "list"} => mix[q].slug \in Slugs
           /\ mix[q].op = "uncomment" => mix[q].comment \in Requests
BY InputAssumption DEF Inputs

\* A new article has every column.
LEMMA NewRowType ==
    ASSUME NEW mix \in Mixes, NEW q \in Requests, mix[q].op = "create"
    PROVE  NewRow(mix[q]) \in Rows
BY MixTypes, ConstantAssumption DEF NewRow, Rows

\* An update leaves a row with every column, and the same author.
LEMMA WithChangesType ==
    ASSUME NEW row \in Rows, NEW input \in Inputs
    PROVE  WithChanges(row, input) \in Rows
<1> DEFINE title == Given(input.title, row.title)
<1>1. /\ row.title \in Titles /\ row.slug \in Slugs /\ row.text \in Texts
      /\ row.tags \in SUBSET Tags
  BY DEF Rows
<1>2. title \in Titles /\ Given(input.text, row.text) \in Texts
  BY <1>1 DEF Given, Inputs
<1>3. Given(input.tags, row.tags) \in SUBSET Tags
  BY <1>1 DEF Given, Inputs
<1>4. SlugOfTitle[title] \in Slugs
  BY <1>2, ConstantAssumption
<1>5. QED
  BY <1>1, <1>2, <1>3, <1>4 DEF WithChanges, Rows

\* What an update makes of each column.
LEMMA WithChangesFields ==
    ASSUME NEW row \in Rows, NEW input \in Inputs
    PROVE  LET new == WithChanges(row, input)
           IN  /\ new.title = Given(input.title, row.title)
               /\ new.text = Given(input.text, row.text)
               /\ new.tags = Given(input.tags, row.tags)
               /\ new.title = row.title => new.slug = row.slug
BY DEF WithChanges, Rows

\* The row written is the draft under the candidate of the attempt.
LEMMA WrittenRowType ==
    ASSUME NEW row \in Rows, NEW slug \in Slugs
    PROVE  /\ [row EXCEPT !.slug = slug] \in Rows
           /\ [row EXCEPT !.slug = slug].slug = slug
           /\ \A field \in {"title", "text", "tags"} :
                [row EXCEPT !.slug = slug][field] = row[field]
BY DEF Rows

\* The slug and the tags of a row, and an absent row is none.
LEMMA RowFields ==
    ASSUME NEW row \in Rows
    PROVE  row # None /\ row.slug \in Slugs /\ row.slug # None /\ row.tags \in SUBSET Tags
BY ConstantAssumption DEF Rows

-----------------------------------------------------------------------------
(* The inductive invariant *)

\* A step of a list, which Lists details: it reads.
Looks(q) ==
    /\ sent[q].op = "list"
    /\ pc[q] \in {"arrived", "relating", "counting"}
    /\ UNCHANGED <<sent, task, tables>>
    /\ \/ \E stage \in {"relating", "counting"} : Goto(q, stage) /\ UNCHANGED answer
       \/ Reply(q, Done)

Requested == sent \in Mixes

Composing(q) == pc[q] \in {"readingTags", "storing"}

Rereading(q) == pc[q] \in {"rereading", "readingFavorites"}

\* Where each operation may stand, and what its use-case holds there.
StagedAt(q) ==
    /\ pc[q] = "arrived" => task[q] = BlankTask
    /\ pc[q] \in {"relating", "counting"} => sent[q].op = "list"
    /\ Composing(q) => /\ sent[q].op \in {"create", "update"}
                       /\ sent[q].op = "create" => task[q].draft = NewRow(sent[q])
                       /\ sent[q].op = "update" =>
                            /\ task[q].target \in Ids
                            /\ task[q].read \in Rows
                            /\ task[q].draft = WithChanges(task[q].read, sent[q])
    /\ pc[q] = "readingOwnTags" => /\ sent[q].op = "update"
                                   /\ task[q].target \in Ids
                                   /\ task[q].read \in Rows
                                   /\ task[q].attempt = 1
    /\ Rereading(q) => \/ sent[q].op \in {"create", "update"} /\ task[q].written # None
                       \/ sent[q].op \in {"favorite", "unfavorite"}
    /\ pc[q] = "readingFavorites" => task[q].shown \in Ids
    /\ pc[q] = "deleting" => sent[q].op = "delete"
    /\ pc[q] \in {"selectingFavorite", "insertingFavorite"} => sent[q].op = "favorite"
    /\ pc[q] = "deletingFavorite" => sent[q].op = "unfavorite"
    /\ pc[q] \in {"inserting", "rereadingComment"} => sent[q].op = "comment"
    /\ pc[q] \in {"findingComment", "deletingComment"} => sent[q].op = "uncomment"
    /\ pc[q] \notin {"arrived", "done"} /\ sent[q].op \notin {"create", "list"} =>
         task[q].target \in Ids
    /\ task[q].written # None => /\ sent[q].op \in {"create", "update"}
                                 /\ Rereading(q) \/ pc[q] = "done"
    /\ sent[q].op = "create" /\ task[q].target # None => task[q].written # None
    /\ pc[q] # "done" => answer[q] = Pending

Staged == \A q \in Requests : StagedAt(q)

\* An article that was not there at the start has been written by its creation,
\* and so has one that a use-case holds the id of, even once it is deleted.
Appeared ==
    \A q \in Requests :
        \/ articles[q] # None
        \/ \E p \in Requests : task[p].target = q
        => sent[q].op = "create" /\ task[q].written # None

\* A comment is written once, and one about to be deleted is one of the
\* article that the URL led to.
Threaded ==
    /\ \A c \in Requests : comments[c] # None => pc[c] \in {"rereadingComment", "done"}
    /\ \A q \in Requests :
        pc[q] = "deletingComment" =>
            LET c == sent[q].comment
            IN  /\ pc[c] \in {"rereadingComment", "done"}
                /\ comments[c] # None => comments[c].article = task[q].target

IInv ==
    /\ TypeOK
    /\ Requested
    /\ Staged
    /\ Appeared
    /\ Threaded
    /\ OneArticlePerSlug
    /\ NoOrphans

-----------------------------------------------------------------------------
(* What a step does *)

\* The writes of the tables, success alone.
Erases(q) ==
    /\ pc[q] = "deleting"
    /\ Mine(q, task[q].target)
    /\ articles' = [articles EXCEPT ![task[q].target] = None]
    /\ comments' = [c \in Requests |->
                      IF comments[c] # None /\ comments[c].article = task[q].target
                        THEN None ELSE comments[c]]
    /\ favorites' = {f \in favorites : f[2] # task[q].target}
    /\ Reply(q, Done)
    /\ UNCHANGED <<sent, task, tags>>

Favors(q) ==
    /\ pc[q] = "insertingFavorite"
    /\ articles[task[q].target] # None
    /\ favorites' = favorites \union {FavoriteOf(q)}
    /\ Goto(q, "rereading")
    /\ UNCHANGED <<sent, task, articles, tags, comments, answer>>

Comments(q) ==
    /\ pc[q] = "inserting"
    /\ articles[task[q].target] # None
    /\ comments' = [comments EXCEPT ![q] = [article |-> task[q].target, author |-> sent[q].user]]
    /\ Goto(q, "rereadingComment")
    /\ UNCHANGED <<sent, task, articles, tags, favorites, answer>>

Withdraws(q) ==
    /\ pc[q] = "deletingComment"
    /\ MyComment(q, sent[q].comment)
    /\ comments' = [comments EXCEPT ![sent[q].comment] = None]
    /\ Reply(q, Done)
    /\ UNCHANGED <<sent, task, articles, tags, favorites>>

\* A step writes no table or is one of these.
LEMMA TablesEffect ==
    ASSUME NEW q \in Requests, Step(q) \/ Looks(q)
    PROVE  \/ UNCHANGED tables
           \/ Store(q) \/ Erases(q)
           \/ Favors(q) \/ DeleteFavorite(q)
           \/ Comments(q) \/ Withdraws(q)
<1> USE DEF tables, Fail
<1>1. CASE Begin(q) \/ Find(q) \/ ReadOwnTags(q) \/ Looks(q)
  BY <1>1 DEF Begin, Find, ReadOwnTags, Looks
<1>2. CASE ReadTags(q) \/ Retry(q) \/ Abandon(q) \/ Reread(q) \/ ReadFavorites(q)
  BY <1>2 DEF ReadTags, Retry, Abandon, Reread, ReadFavorites
<1>3. CASE Delete(q)
  BY <1>3 DEF Delete, Erases
<1>4. CASE SelectFavorite(q) \/ InsertFavorite(q)
  BY <1>4 DEF SelectFavorite, InsertFavorite, Favors
<1>5. CASE InsertComment(q) \/ RereadComment(q)
  BY <1>5 DEF InsertComment, RereadComment, Comments
<1>6. CASE FindComment(q) \/ DeleteComment(q)
  BY <1>6 DEF FindComment, DeleteComment, Withdraws
<1>7. QED
  BY <1>1, <1>2, <1>3, <1>4, <1>5, <1>6 DEF Step, Write, Favor, Discuss

\* A step moves one request and touches nothing of the others.
LEMMA StepFrame ==
    ASSUME TypeOK, NEW q \in Requests, Step(q) \/ Looks(q)
    PROVE  /\ sent' = sent
           /\ \A h \in Requests : h # q => /\ pc'[h] = pc[h]
                                           /\ task'[h] = task[h]
                                           /\ answer'[h] = answer[h]
<1> USE DEF TypeOK, Fail, Reply, Goto
<1>1. CASE Begin(q) \/ Find(q) \/ ReadOwnTags(q) \/ Looks(q)
  BY <1>1 DEF Begin, Find, ReadOwnTags, Looks
<1>2. CASE ReadTags(q) \/ Retry(q) \/ Abandon(q) \/ Reread(q) \/ ReadFavorites(q)
  BY <1>2 DEF ReadTags, Retry, Abandon, Reread, ReadFavorites
<1>3. CASE Store(q)
  BY <1>3 DEF Store, Put
<1>4. CASE Delete(q)
  BY <1>4 DEF Delete
<1>5. CASE SelectFavorite(q) \/ InsertFavorite(q) \/ DeleteFavorite(q)
  BY <1>5 DEF SelectFavorite, InsertFavorite, DeleteFavorite
<1>6. CASE InsertComment(q) \/ RereadComment(q)
  BY <1>6 DEF InsertComment, RereadComment
<1>7. CASE FindComment(q) \/ DeleteComment(q)
  BY <1>7 DEF FindComment, DeleteComment
<1>8. QED
  BY <1>1, <1>2, <1>3, <1>4, <1>5, <1>6, <1>7 DEF Step, Write, Favor, Discuss

\* Where a reply, an error or a passage leads.
LEMMA Moves ==
    ASSUME pc \in [Requests -> Stages], answer \in [Requests -> Answers], NEW q \in Requests
    PROVE  /\ \A a : Reply(q, a) => pc'[q] = "done" /\ answer'[q] = a
           /\ \A status : Fail(q, status) => /\ pc'[q] = "done"
                                             /\ answer'[q].status = status
                                             /\ answer'[q].article = None
                                             /\ task' = task
           /\ \A stage : Goto(q, stage) => pc'[q] = stage
BY DEF Reply, Fail, Goto, Refusal

-----------------------------------------------------------------------------
(* Favourites, and the attempts at a slug: what the two properties need *)

Favoring(q) == sent[q].op \in {"favorite", "unfavorite"}

\* The same reader asks the opposite of the same article.
Opposed(q) ==
    \E p \in Requests : /\ {sent[p].op, sent[q].op} = {"favorite", "unfavorite"}
                        /\ sent[p].user = sent[q].user
                        /\ task[p].target = task[q].target

\* The table is as the request asked, while the article is there.
Settled(q) ==
    /\ FavoriteOf(q) \in favorites => sent[q].op = "favorite"
    /\ sent[q].op = "favorite" /\ articles[task[q].target] # None => FavoriteOf(q) \in favorites

\* So it is before the last queries, and so is the answer.
FavoredAt(q) ==
    /\ answer[q].status \in {"pending", "notFound", "ok"}
    /\ answer[q].status = "ok" => task[q].target \in Ids
    /\ Rereading(q) /\ ~Opposed(q) => Settled(q)
    /\ ~Opposed(q) /\ answer[q].status = "ok" /\ answer[q].article = task[q].target =>
         /\ answer[q].favorited => sent[q].op = "favorite"
         /\ sent[q].op = "favorite" /\ articles[task[q].target] # None => answer[q].favorited

Favored == \A q \in Requests : Favoring(q) => FavoredAt(q)

Writers == {p \in Requests : task[p].written # None}

\* The slug of an article is the one it had at the start, or the one a request
\* has written there.
Traced(a) ==
    \/ a \in Seeds /\ SeedRow[a].slug = articles[a].slug
    \/ \E p \in Writers : task[p].target = a /\ task[p].written = articles[a].slug

\* What stood in the way of an attempt is another article, and a tag that a
\* transaction has not seen was written by another request since.
RetriedAt(q) ==
    /\ Composing(q) =>
         \A k \in 1..(task[q].attempt - 1) : OnceTaken(q, Candidate(task[q].draft.slug, k))
    /\ pc[q] = "storing" =>
         \A t \in tags : t \in task[q].known \/ \E p \in Writers : t \in task[p].draft.tags
    /\ answer[q].status = "failed" => task[q].draft \in Rows

Retried ==
    /\ \A a \in Present : Traced(a)
    /\ \A q \in Requests : RetriedAt(q)

-----------------------------------------------------------------------------
(* Types *)

LEMMA AnswerTypes ==
    /\ \A status \in {"notFound", "forbidden", "failed"} : Refusal(status) \in Answers
    /\ Done \in Answers
    /\ \A q \in Requests, a \in Ids : Showing(q, a) \in Answers
<1>1. \A q \in Requests, a \in Ids : (<<sent[q].user, a>> \in favorites) \in BOOLEAN
  OBVIOUS
<1>2. QED
  BY <1>1 DEF Refusal, Done, Showing, Answers

\* The variables of the requests have their types.
OwnTyped ==
    /\ pc \in [Requests -> Stages]
    /\ task \in [Requests -> Tasks]
    /\ answer \in [Requests -> Answers]

LEMMA ReplyTyped ==
    ASSUME OwnTyped, NEW q \in Requests, NEW a \in Answers, Reply(q, a), task' = task
    PROVE  OwnTyped'
BY DEF OwnTyped, Reply, Goto, Stages

LEMMA FailTyped ==
    ASSUME OwnTyped, NEW q \in Requests, NEW status \in {"notFound", "forbidden", "failed"},
           Fail(q, status)
    PROVE  OwnTyped'
<1>1. Refusal(status) \in Answers
  BY AnswerTypes
<1>2. QED
  BY <1>1, ReplyTyped DEF Fail

LEMMA GotoTyped ==
    ASSUME OwnTyped, NEW q \in Requests, NEW stage \in Stages, NEW own \in Tasks,
           Goto(q, stage), task' = [task EXCEPT ![q] = own], answer' = answer
    PROVE  OwnTyped'
BY DEF OwnTyped, Goto

\* Passing on to another query with the same local variables.
LEMMA PassTyped ==
    ASSUME OwnTyped, NEW q \in Requests, NEW stage \in Stages,
           Goto(q, stage), task' = task, answer' = answer
    PROVE  OwnTyped'
BY DEF OwnTyped, Goto

\* What Find gathers: the article, and its row as it is.
Found(q, a) == [task[q] EXCEPT !.target = a, !.read = articles[a]]

\* What ReadOwnTags makes of it: the row as two queries show it, and the row to
\* write.
OwnRead(q) ==
    [task[q].read EXCEPT !.tags = IF task[q].target \in Present
                                    THEN articles[task[q].target].tags ELSE {}]

Composed(q) ==
    [task[q] EXCEPT !.read = OwnRead(q), !.draft = WithChanges(OwnRead(q), sent[q])]

\* The ways out of Find.
LEMMA FindCases ==
    ASSUME TypeOK, NEW q \in Requests, Find(q)
    PROVE  \/ Fail(q, "notFound")
           \/ Fail(q, "forbidden") /\ sent[q].op \in {"update", "delete"}
           \/ \E a \in Under(sent[q].slug) :
                /\ sent[q].op \in {"update", "delete"} => articles[a].author = sent[q].user
                /\ task' = [task EXCEPT ![q] = Found(q, a)]
                /\ Goto(q, NextStage[sent[q].op])
                /\ UNCHANGED <<sent, tables, answer>>
BY DEF Find, Found, TypeOK

LEMMA OwnTagsEffect ==
    ASSUME TypeOK, Staged, NEW q \in Requests, ReadOwnTags(q)
    PROVE  /\ task' = [task EXCEPT ![q] = Composed(q)]
           /\ task'[q] = Composed(q) /\ Composed(q) \in Tasks
           /\ pc[q] = "readingOwnTags" /\ Goto(q, "readingTags") /\ answer' = answer
           /\ sent[q].op = "update"
           /\ OwnRead(q) \in Rows
           /\ task'[q].read = OwnRead(q)
           /\ task'[q].draft = WithChanges(OwnRead(q), sent[q])
           /\ task'[q].target = task[q].target /\ task[q].target \in Ids
           /\ task[q].written = None /\ task'[q].written = None
           /\ task'[q].attempt = 1
<1>1. pc[q] = "readingOwnTags" /\ Goto(q, "readingTags") /\ answer' = answer
  BY DEF ReadOwnTags
<1>2. /\ sent[q].op = "update" /\ task[q].target \in Ids /\ task[q].read \in Rows
      /\ task[q].attempt = 1 /\ task[q].written = None
      /\ task[q] \in Tasks /\ sent[q] \in Inputs
  BY <1>1 DEF Staged, StagedAt, Rereading, TypeOK
<1>3. task' = [task EXCEPT ![q] = Composed(q)]
  BY DEF ReadOwnTags, Composed, OwnRead, TypeOK
<1>4. OwnRead(q) \in Rows
  <2>1. task[q].target \in Present => articles[task[q].target].tags \in SUBSET Tags
    BY RowFields DEF Present, TypeOK
  <2>2. QED
    BY <1>2, <2>1 DEF OwnRead, Rows
<1>5. WithChanges(OwnRead(q), sent[q]) \in Rows
  BY <1>2, <1>4, WithChangesType
<1>6. /\ Composed(q) \in Tasks
      /\ Composed(q).read = OwnRead(q)
      /\ Composed(q).draft = WithChanges(OwnRead(q), sent[q])
      /\ Composed(q).target = task[q].target
      /\ Composed(q).written = None /\ Composed(q).attempt = 1
  BY <1>2, <1>4, <1>5 DEF Composed, Tasks
<1>7. task'[q] = Composed(q)
  BY <1>3 DEF TypeOK
<1>8. QED
  BY <1>1, <1>2, <1>3, <1>4, <1>6, <1>7

\* The row that the last queries show.
LEMMA RereadEffect ==
    ASSUME TypeOK, NEW q \in Requests, Reread(q)
    PROVE  \/ Fail(q, "notFound")
           \/ \E a \in Present :
                LET own == [task[q] EXCEPT !.shown = a]
                IN  /\ task' = [task EXCEPT ![q] = own]
                    /\ task'[q] = own /\ own \in Tasks
                    /\ Goto(q, "readingFavorites") /\ answer' = answer
<1>1. task[q] \in Tasks /\ \A a \in Present : a \in Ids
  BY DEF TypeOK, Present
<1>2. \A a \in Present : [task[q] EXCEPT !.shown = a] \in Tasks
  BY <1>1 DEF Tasks
<1>3. QED
  BY <1>1, <1>2 DEF Reread, Under, TypeOK

LEMMA PutTask ==
    ASSUME TypeOK, NEW q \in Requests, Put(q)
    PROVE  task' = [task EXCEPT ![q] = [task[q] EXCEPT
                        !.target = Destination(q),
                        !.written = Candidate(task[q].draft.slug, task[q].attempt)]]
BY DEF Put, TypeOK

\* Whoever composes has a row to write, and a place for it.
LEMMA ComposingTypes ==
    ASSUME TypeOK, Requested, Staged, NEW q \in Requests, Composing(q)
    PROVE  /\ task[q].draft \in Rows
           /\ Destination(q) \in Ids
           /\ task[q].draft.slug \in Slugs
           /\ task[q].attempt \in 1..MaxAttempts
           /\ Candidate(task[q].draft.slug, task[q].attempt) \in Slugs
<1>1. StagedAt(q) /\ sent[q] \in Inputs /\ task[q] \in Tasks
  BY DEF Staged, TypeOK
<1>2. task[q].draft \in Rows
  <2>1. CASE sent[q].op = "create"
    BY <1>1, <2>1, NewRowType DEF StagedAt, Requested
  <2>2. CASE sent[q].op = "update"
    BY <1>1, <2>2, WithChangesType DEF StagedAt
  <2>3. QED
    BY <1>1, <2>1, <2>2 DEF StagedAt
<1>3. Destination(q) \in Ids
  BY <1>1 DEF StagedAt, Destination, Ids
<1>4. task[q].attempt \in 1..MaxAttempts /\ MaxAttempts \in Nat
  BY <1>1, ConstantAssumption DEF Tasks
<1>5. task[q].draft.slug \in Slugs
  BY <1>2, RowFields
<1>6. QED
  BY <1>2, <1>3, <1>4, <1>5, CandidateType

\* Where each operation goes once its article is found.
LEMMA NextStages ==
    /\ DOMAIN NextStage = {"update", "delete", "favorite", "unfavorite", "comment", "uncomment"}
    /\ \A op \in DOMAIN NextStage : NextStage[op] \in Stages
BY DEF NextStage, Stages

LEMMA OwnTypeStep ==
    ASSUME TypeOK, Requested, Staged, NEW q \in Requests, Step(q) \/ Looks(q)
    PROVE  OwnTyped'
<1>1. OwnTyped /\ StagedAt(q) /\ sent[q] \in Inputs /\ q \in Ids /\ task[q] \in Tasks
  BY DEF OwnTyped, TypeOK, Staged, Ids
<1>2. \A a \in Present : a \in Ids /\ articles[a] \in Rows
  BY DEF Present, TypeOK
<1>3. CASE Begin(q)
  <2> DEFINE own == [task[q] EXCEPT !.draft = NewRow(sent[q])]
  <2>1. NewRow(sent[q]) \in Rows
    BY <1>3, NewRowType DEF Begin, Requested
  <2>2. own \in Tasks /\ "readingTags" \in Stages
    BY <1>1, <2>1 DEF Tasks, Stages
  <2>3. task' = [task EXCEPT ![q] = own]
    BY <1>1, <1>3 DEF Begin, OwnTyped
  <2>4. QED
    BY <1>1, <1>3, <2>2, <2>3, GotoTyped DEF Begin
<1>4. CASE Find(q)
  <2>1. ASSUME NEW a \in Under(sent[q].slug),
               task' = [task EXCEPT ![q] = Found(q, a)],
               Goto(q, NextStage[sent[q].op]),
               answer' = answer
        PROVE  OwnTyped'
    <3>1. a \in Ids /\ articles[a] \in Rows
      BY <1>2 DEF Under
    <3>3. Found(q, a) \in Tasks
      BY <1>1, <3>1 DEF Found, Tasks
    <3>4. NextStage[sent[q].op] \in Stages
      BY <1>4, NextStages DEF Find
    <3>5. QED
      BY <1>1, <2>1, <3>3, <3>4, GotoTyped
  <2>2. CASE Fail(q, "notFound") \/ Fail(q, "forbidden")
    BY <1>1, <2>2, FailTyped
  <2>3. QED
    BY <1>4, <2>1, <2>2, FindCases
<1>5. CASE ReadTags(q)
  <2> DEFINE own == [task[q] EXCEPT !.known = tags]
  <2>1. own \in Tasks /\ "storing" \in Stages
    BY <1>1 DEF Tasks, Stages, TypeOK
  <2>2. task' = [task EXCEPT ![q] = own]
    BY <1>1, <1>5 DEF ReadTags, OwnTyped
  <2>3. QED
    BY <1>1, <1>5, <2>1, <2>2, GotoTyped DEF ReadTags
<1>6. CASE Retry(q)
  <2>1. CASE task[q].attempt < MaxAttempts
    <3> DEFINE own == [task[q] EXCEPT !.attempt = task[q].attempt + 1]
    <3>1. task[q].attempt + 1 \in 1..MaxAttempts
      BY <1>1, <2>1, ConstantAssumption DEF Tasks
    <3>2. own \in Tasks /\ "readingTags" \in Stages
      BY <1>1, <3>1 DEF Tasks, Stages
    <3>3. task' = [task EXCEPT ![q] = own]
      BY <1>1, <1>6, <2>1 DEF Retry, OwnTyped
    <3>4. QED
      BY <1>1, <1>6, <2>1, <3>2, <3>3, GotoTyped DEF Retry
  <2>2. CASE ~(task[q].attempt < MaxAttempts)
    BY <1>1, <1>6, <2>2, FailTyped DEF Retry
  <2>3. QED
    BY <2>1, <2>2
<1>7. CASE Abandon(q)
  BY <1>1, <1>7, FailTyped DEF Abandon
<1>8. CASE Store(q)
  <2> DEFINE own == [task[q] EXCEPT !.target = Destination(q),
                                    !.written = Candidate(task[q].draft.slug, task[q].attempt)]
  <2>1. Destination(q) \in Ids /\ Candidate(task[q].draft.slug, task[q].attempt) \in Slugs
    BY <1>8, ComposingTypes DEF Store, Composing
  <2>2. own \in Tasks /\ "rereading" \in Stages
    BY <1>1, <2>1 DEF Tasks, Stages
  <2>3. Goto(q, "rereading") /\ answer' = answer /\ task' = [task EXCEPT ![q] = own]
    BY <1>8, PutTask DEF Store, Put
  <2>4. QED
    BY <1>1, <2>2, <2>3, GotoTyped
<1>9. CASE Reread(q)
  <2>1. "readingFavorites" \in Stages
    BY DEF Stages
  <2>2. QED
    BY <1>1, <1>9, <2>1, RereadEffect, FailTyped, GotoTyped
<1>10. Done \in Answers
  BY AnswerTypes
<1>11. CASE Delete(q)
  BY <1>1, <1>10, <1>11, ReplyTyped, FailTyped DEF Delete
<1>12. CASE SelectFavorite(q) \/ DeleteFavorite(q)
  <2>1. {"rereading", "insertingFavorite"} \subseteq Stages
    BY DEF Stages
  <2>2. QED
    BY <1>1, <1>12, <2>1, PassTyped DEF SelectFavorite, DeleteFavorite
<1>13. CASE InsertFavorite(q)
  <2>1. "rereading" \in Stages
    BY DEF Stages
  <2>2. QED
    BY <1>1, <1>13, <2>1, PassTyped, FailTyped DEF InsertFavorite
<1>14. CASE InsertComment(q)
  <2>1. "rereadingComment" \in Stages
    BY DEF Stages
  <2>2. QED
    BY <1>1, <1>14, <2>1, PassTyped, FailTyped DEF InsertComment
<1>15. CASE RereadComment(q)
  BY <1>1, <1>10, <1>15, ReplyTyped, FailTyped DEF RereadComment
<1>16. CASE FindComment(q)
  <2>1. "deletingComment" \in Stages
    BY DEF Stages
  <2>2. QED
    BY <1>1, <1>16, <2>1, PassTyped, FailTyped DEF FindComment
<1>17. CASE DeleteComment(q)
  BY <1>1, <1>10, <1>17, ReplyTyped, FailTyped DEF DeleteComment
<1>18. CASE Looks(q)
  <2>1. {"relating", "counting"} \subseteq Stages
    BY DEF Stages
  <2>2. QED
    BY <1>1, <1>10, <1>18, <2>1, PassTyped, ReplyTyped DEF Looks
<1>19. CASE ReadOwnTags(q)
  <2>1. "readingTags" \in Stages
    BY DEF Stages
  <2>2. QED
    BY <1>1, <1>19, <2>1, OwnTagsEffect, GotoTyped
<1>20. CASE ReadFavorites(q)
  <2>1. Showing(q, task[q].shown) \in Answers
    BY <1>1, <1>20, AnswerTypes DEF ReadFavorites, StagedAt
  <2>2. QED
    BY <1>1, <1>20, <2>1, ReplyTyped DEF ReadFavorites
<1>21. QED
  BY <1>3, <1>4, <1>5, <1>6, <1>7, <1>8, <1>9, <1>11, <1>12, <1>13, <1>14, <1>15, <1>16,
     <1>17, <1>18, <1>19, <1>20 DEF Step, Write, Favor, Discuss

-----------------------------------------------------------------------------
(* The tables *)

\* The row a commit writes.
Stored(q) == [task[q].draft EXCEPT !.slug = Candidate(task[q].draft.slug, task[q].attempt)]

LEMMA StoreEffect ==
    ASSUME TypeOK, Requested, Staged, NEW q \in Requests, Store(q)
    PROVE  /\ Destination(q) \in Ids /\ Stored(q) \in Rows
           /\ Stored(q).slug = Candidate(task[q].draft.slug, task[q].attempt)
           /\ articles' = [articles EXCEPT ![Destination(q)] = Stored(q)]
           /\ \A a \in Ids : articles'[a] = IF a = Destination(q) THEN Stored(q) ELSE articles[a]
           /\ tags' = tags \union task[q].draft.tags
           /\ UNCHANGED <<sent, comments, favorites>>
           /\ \A a \in Present : articles[a].slug = Stored(q).slug => a = Destination(q)
           /\ sent[q].op = "create" => Destination(q) = q
           /\ sent[q].op # "create" => /\ sent[q].op = "update"
                                       /\ Destination(q) = task[q].target
                                       /\ Mine(q, task[q].target)
<1>1. /\ task[q].draft \in Rows /\ Destination(q) \in Ids
      /\ Candidate(task[q].draft.slug, task[q].attempt) \in Slugs
  BY ComposingTypes DEF Store, Composing
<1>2. /\ Stored(q) \in Rows
      /\ Stored(q).slug = Candidate(task[q].draft.slug, task[q].attempt)
  BY <1>1, WrittenRowType DEF Stored
<1>3. /\ articles' = [articles EXCEPT ![Destination(q)] = Stored(q)]
      /\ tags' = tags \union task[q].draft.tags
      /\ UNCHANGED <<sent, comments, favorites>>
  BY DEF Store, Put, Stored
<1>4. \A a \in Present : articles[a].slug = Stored(q).slug => a = Destination(q)
  BY <1>2 DEF Store, SlugTaken, Under
<1>5. \A a \in Ids : articles'[a] = IF a = Destination(q) THEN Stored(q) ELSE articles[a]
  BY <1>3 DEF TypeOK
<1>6. pc[q] = "storing" /\ StagedAt(q)
  BY DEF Store, Staged
<1>7. /\ sent[q].op = "create" => Destination(q) = q
      /\ sent[q].op # "create" => /\ sent[q].op = "update"
                                  /\ Destination(q) = task[q].target
                                  /\ Mine(q, task[q].target)
  BY <1>6 DEF Store, Vanished, Destination, StagedAt, Composing
<1>8. QED
  BY <1>1, <1>2, <1>3, <1>4, <1>5, <1>7

\* Rows disappear by a deletion, which takes what hangs on them.
LEMMA EraseEffect ==
    ASSUME TypeOK, NEW q \in Requests, Erases(q)
    PROVE  /\ task[q].target \in Present
           /\ \A a \in Ids : articles'[a] = IF a = task[q].target THEN None ELSE articles[a]
           /\ Present' = Present \ {task[q].target}
           /\ \A c \in Requests : comments'[c] # None =>
                /\ comments'[c] = comments[c]
                /\ comments[c].article # task[q].target
           /\ \A f \in favorites' : f \in favorites /\ f[2] # task[q].target
<1>1. task[q].target \in Present /\ articles' = [articles EXCEPT ![task[q].target] = None]
  BY DEF Erases, Mine
<1>2. \A a \in Ids : articles'[a] = IF a = task[q].target THEN None ELSE articles[a]
  BY <1>1 DEF TypeOK, Present
<1>3. Present' = Present \ {task[q].target}
  BY <1>2 DEF Present
<1>4. \A c \in Requests : comments'[c] # None =>
        comments'[c] = comments[c] /\ comments[c].article # task[q].target
  BY DEF Erases
<1>5. \A f \in favorites' : f \in favorites /\ f[2] # task[q].target
  BY DEF Erases
<1>6. QED
  BY <1>1, <1>2, <1>3, <1>4, <1>5

\* The user of a request that is about to write, and its target.
LEMMA AboutTypes ==
    ASSUME TypeOK, Requested, Staged, NEW q \in Requests,
           pc[q] \notin {"arrived", "done"}, sent[q].op \notin {"create", "list"}
    PROVE  sent[q].user \in Users /\ task[q].target \in Ids
BY MixTypes DEF Requested, Staged, StagedAt

LEMMA TablesTypeStep ==
    ASSUME TypeOK, Requested, Staged, NEW q \in Requests, Step(q) \/ Looks(q)
    PROVE  /\ articles' \in [Ids -> Rows \union {None}]
           /\ tags' \in SUBSET Tags
           /\ comments' \in [Requests -> CommentRows \union {None}]
           /\ favorites' \in SUBSET (Users \X Ids)
<1> USE DEF TypeOK
<1>1. StagedAt(q)
  BY DEF Staged
<1>2. CASE UNCHANGED tables
  BY <1>2 DEF tables
<1>3. CASE Store(q)
  <2>1. task[q].draft \in Rows
    BY <1>3, ComposingTypes DEF Store, Composing
  <2>2. task[q].draft.tags \in SUBSET Tags
    BY <2>1, RowFields
  <2>3. QED
    BY <1>3, <2>2, StoreEffect
<1>4. CASE Erases(q)
  BY <1>4 DEF Erases
<1>5. CASE Favors(q) \/ DeleteFavorite(q)
  <2>1. FavoriteOf(q) \in Users \X Ids
    BY <1>1, <1>5, AboutTypes DEF Favors, DeleteFavorite, StagedAt, FavoriteOf
  <2>2. QED
    BY <1>5, <2>1 DEF Favors, DeleteFavorite
<1>6. CASE Comments(q)
  <2>1. [article |-> task[q].target, author |-> sent[q].user] \in CommentRows
    BY <1>1, <1>6, AboutTypes DEF Comments, StagedAt, CommentRows
  <2>2. QED
    BY <1>6, <2>1 DEF Comments
<1>7. CASE Withdraws(q)
  BY <1>7 DEF Withdraws
<1>8. QED
  BY <1>2, <1>3, <1>4, <1>5, <1>6, <1>7, TablesEffect

LEMMA TypeStep ==
    ASSUME TypeOK, Requested, Staged, NEW q \in Requests, Step(q) \/ Looks(q)
    PROVE  TypeOK' /\ Requested'
<1>1. sent' = sent
  BY StepFrame
<1>2. QED
  BY <1>1, OwnTypeStep, TablesTypeStep DEF TypeOK, OwnTyped, Requested

\* ADR 010: the constraint decides at the commit.
LEMMA UniqueStep ==
    ASSUME IInv, NEW q \in Requests, Step(q) \/ Looks(q)
    PROVE  OneArticlePerSlug'
<1>1. TypeOK /\ Requested /\ Staged /\ OneArticlePerSlug
  BY DEF IInv
<1>2. CASE articles' = articles
  BY <1>1, <1>2 DEF OneArticlePerSlug, Present
<1>3. CASE Store(q)
  <2>1. /\ \A a \in Ids : articles'[a] = IF a = Destination(q) THEN Stored(q) ELSE articles[a]
        /\ \A a \in Present : articles[a].slug = Stored(q).slug => a = Destination(q)
    BY <1>1, <1>3, StoreEffect
  <2>2. QED
    BY <1>1, <2>1 DEF OneArticlePerSlug, Present
<1>4. CASE Erases(q)
  <2>1. \A a \in Present' : a \in Present /\ articles'[a] = articles[a]
    BY <1>1, <1>4, EraseEffect DEF Present
  <2>2. QED
    BY <1>1, <2>1 DEF OneArticlePerSlug
<1>5. QED
  BY <1>2, <1>3, <1>4, TablesEffect
     DEF tables, Favors, DeleteFavorite, Comments, Withdraws

\* The cascade: what hangs on an article leaves with it.
LEMMA OrphanStep ==
    ASSUME IInv, NEW q \in Requests, Step(q) \/ Looks(q)
    PROVE  NoOrphans'
<1>1. TypeOK /\ Requested /\ Staged /\ NoOrphans /\ StagedAt(q)
  BY DEF IInv, Staged
<1>2. CASE UNCHANGED tables
  BY <1>1, <1>2 DEF NoOrphans, Present, tables
<1>3. CASE Store(q)
  <2>1. /\ Stored(q) # None
        /\ \A a \in Ids : articles'[a] = IF a = Destination(q) THEN Stored(q) ELSE articles[a]
        /\ UNCHANGED <<comments, favorites>>
    BY <1>1, <1>3, StoreEffect, RowFields
  <2>2. \A a \in Present : a \in Present'
    BY <2>1 DEF Present
  <2>3. QED
    BY <1>1, <2>1, <2>2 DEF NoOrphans
<1>4. CASE Erases(q)
  BY <1>1, <1>4, EraseEffect DEF NoOrphans
<1>5. CASE Favors(q)
  <2>1. task[q].target \in Present /\ Present' = Present
    BY <1>1, <1>5, AboutTypes DEF Favors, StagedAt, Present
  <2>2. QED
    BY <1>1, <1>5, <2>1 DEF Favors, FavoriteOf, NoOrphans
<1>6. CASE DeleteFavorite(q)
  BY <1>1, <1>6 DEF DeleteFavorite, NoOrphans, Present
<1>7. CASE Comments(q)
  <2>1. task[q].target \in Present /\ Present' = Present
    BY <1>1, <1>7, AboutTypes DEF Comments, StagedAt, Present
  <2>2. \A c \in Requests : c # q => comments'[c] = comments[c]
    BY <1>1, <1>7 DEF Comments, TypeOK
  <2>3. comments'[q].article = task[q].target /\ favorites' = favorites
    BY <1>1, <1>7 DEF Comments, TypeOK
  <2>4. QED
    BY <1>1, <2>1, <2>2, <2>3 DEF NoOrphans
<1>8. CASE Withdraws(q)
  <2>1. \A c \in Requests : comments'[c] = comments[c] \/ comments'[c] = None
    BY <1>1, <1>8 DEF Withdraws, TypeOK
  <2>2. Present' = Present /\ favorites' = favorites
    BY <1>8 DEF Withdraws, Present
  <2>3. QED
    BY <1>1, <2>1, <2>2 DEF NoOrphans
<1>9. QED
  BY <1>2, <1>3, <1>4, <1>5, <1>6, <1>7, <1>8, TablesEffect

-----------------------------------------------------------------------------
(* The stages *)

\* An error or an answer leaves the local variables as they are.
LEMMA EndsStaged ==
    ASSUME TypeOK, NEW q \in Requests, StagedAt(q), sent' = sent, task' = task, pc'[q] = "done",
           sent[q].op = "create" /\ task[q].target # None => task[q].written # None
    PROVE  StagedAt(q)'
BY DEF StagedAt, Composing, Rereading

LEMMA StagedStep ==
    ASSUME TypeOK, Requested, Staged, NEW q \in Requests, Step(q) \/ Looks(q)
    PROVE  Staged'
<1>1. /\ pc \in [Requests -> Stages] /\ answer \in [Requests -> Answers] /\ StagedAt(q)
      /\ sent[q] \in Inputs /\ task[q] \in Tasks
  BY DEF TypeOK, Staged
<1>2. /\ sent' = sent
      /\ \A h \in Requests : h # q => /\ pc'[h] = pc[h]
                                      /\ task'[h] = task[h]
                                      /\ answer'[h] = answer[h]
  BY StepFrame
<1>3. \A h \in Requests : h # q => StagedAt(h)'
  BY <1>2 DEF Staged, StagedAt, Composing, Rereading
<1>4. SUFFICES StagedAt(q)'
  BY <1>3 DEF Staged
<1>5. /\ \A a : Reply(q, a) => pc'[q] = "done"
      /\ \A status : Fail(q, status) => pc'[q] = "done" /\ task' = task
      /\ \A stage : Goto(q, stage) => pc'[q] = stage
  BY <1>1, Moves
<1>6. ASSUME pc'[q] = "done", task' = task
      PROVE  StagedAt(q)'
  BY <1>1, <1>2, <1>6, EndsStaged DEF StagedAt
<1>7. \A status : Fail(q, status) => StagedAt(q)'
  BY <1>5, <1>6
<1>8. CASE Begin(q)
  <2>1. /\ task'[q] = [task[q] EXCEPT !.draft = NewRow(sent[q])]
        /\ pc[q] = "arrived" /\ sent[q].op = "create" /\ pc'[q] = "readingTags"
        /\ answer' = answer
    BY <1>5, <1>8 DEF Begin, TypeOK
  <2>2. task[q] = BlankTask
    BY <1>1, <2>1 DEF StagedAt
  <2>3. /\ task'[q].target = None /\ task'[q].written = None
        /\ task'[q].draft = NewRow(sent[q])
    BY <1>1, <2>1, <2>2 DEF BlankTask
  <2>4. QED
    BY <1>1, <1>2, <2>1, <2>3 DEF StagedAt, Composing, Rereading
<1>9. CASE Find(q)
  <2>1. ASSUME NEW a \in Under(sent[q].slug),
               task' = [task EXCEPT ![q] = Found(q, a)],
               Goto(q, NextStage[sent[q].op]),
               answer' = answer
        PROVE  StagedAt(q)'
    <3>1. a \in Ids /\ articles[a] \in Rows
      BY DEF Under, Present, TypeOK
    <3>2. pc[q] = "arrived" /\ sent[q].op \in DOMAIN NextStage /\ task[q] = BlankTask
      BY <1>1, <1>9 DEF Find, StagedAt
    <3>3. pc'[q] = NextStage[sent[q].op] /\ task'[q] = Found(q, a)
      BY <1>5, <2>1 DEF TypeOK
    <3>4. /\ task'[q].target = a /\ task'[q].read = articles[a] /\ task'[q].written = None
          /\ task'[q].attempt = 1
      BY <1>1, <3>2, <3>3 DEF Found, BlankTask
    <3>5. /\ sent[q].op = "update" => pc'[q] = "readingOwnTags"
          /\ sent[q].op = "delete" => pc'[q] = "deleting"
          /\ sent[q].op = "favorite" => pc'[q] = "selectingFavorite"
          /\ sent[q].op = "unfavorite" => pc'[q] = "deletingFavorite"
          /\ sent[q].op = "comment" => pc'[q] = "inserting"
          /\ sent[q].op = "uncomment" => pc'[q] = "findingComment"
          /\ sent[q].op \in {"update", "delete", "favorite", "unfavorite", "comment", "uncomment"}
      BY <3>2, <3>3 DEF NextStage
    <3>6. answer'[q] = Pending
      BY <1>1, <2>1, <3>2 DEF StagedAt
    <3>7. QED
      BY <1>2, <3>1, <3>4, <3>5, <3>6 DEF StagedAt, Composing, Rereading
  <2>2. QED
    BY <1>7, <1>9, <2>1, FindCases
<1>10. CASE ReadTags(q)
  <2>1. /\ task'[q] = [task[q] EXCEPT !.known = tags]
        /\ pc[q] = "readingTags" /\ pc'[q] = "storing" /\ answer' = answer
    BY <1>5, <1>10 DEF ReadTags, TypeOK
  <2>2. /\ task'[q].target = task[q].target /\ task'[q].written = task[q].written
        /\ task'[q].draft = task[q].draft /\ task'[q].read = task[q].read
    BY <1>1, <2>1 DEF Tasks
  <2>3. QED
    BY <1>1, <1>2, <2>1, <2>2 DEF StagedAt, Composing, Rereading
<1>11. CASE Retry(q)
  <2>1. CASE task[q].attempt < MaxAttempts
    <3>1. /\ task'[q] = [task[q] EXCEPT !.attempt = task[q].attempt + 1]
          /\ pc[q] = "storing" /\ pc'[q] = "readingTags" /\ answer' = answer
      BY <1>5, <1>11, <2>1 DEF Retry, TypeOK
    <3>2. /\ task'[q].target = task[q].target /\ task'[q].written = task[q].written
          /\ task'[q].draft = task[q].draft /\ task'[q].read = task[q].read
      BY <1>1, <3>1 DEF Tasks
    <3>3. QED
      BY <1>1, <1>2, <3>1, <3>2 DEF StagedAt, Composing, Rereading
  <2>2. QED
    BY <1>7, <1>11, <2>1 DEF Retry
<1>12. CASE Abandon(q)
  BY <1>7, <1>12 DEF Abandon
<1>13. CASE Store(q)
  <2>1. /\ task'[q] = [task[q] EXCEPT !.target = Destination(q),
                                      !.written = Candidate(task[q].draft.slug, task[q].attempt)]
        /\ pc[q] = "storing" /\ pc'[q] = "rereading" /\ answer' = answer
    BY <1>5, <1>13, PutTask DEF Store, Put, TypeOK
  <2>2. task'[q].written # None /\ task'[q].target \in Ids
    BY <1>1, <1>13, <2>1, ComposingTypes, ConstantAssumption DEF Store, Composing, Tasks
  <2>3. QED
    BY <1>1, <1>2, <2>1, <2>2 DEF StagedAt, Composing, Rereading
<1>14. CASE Reread(q)
  <2>1. ASSUME NEW a \in Present,
               task'[q] = [task[q] EXCEPT !.shown = a],
               Goto(q, "readingFavorites"), answer' = answer
        PROVE  StagedAt(q)'
    <3>1. pc[q] = "rereading" /\ pc'[q] = "readingFavorites" /\ a \in Ids
      BY <1>5, <1>14, <2>1 DEF Reread, Present
    <3>2. /\ task'[q].target = task[q].target /\ task'[q].written = task[q].written
          /\ task'[q].shown = a
      BY <1>1, <2>1 DEF Tasks
    <3>3. QED
      BY <1>1, <1>2, <2>1, <3>1, <3>2 DEF StagedAt, Composing, Rereading
  <2>2. QED
    BY <1>7, <1>14, <2>1, RereadEffect
<1>15. CASE Delete(q)
  BY <1>5, <1>6, <1>7, <1>15 DEF Delete
<1>16. CASE SelectFavorite(q)
  <2>1. /\ pc[q] = "selectingFavorite" /\ task' = task /\ answer' = answer
        /\ pc'[q] \in {"rereading", "insertingFavorite"}
    BY <1>5, <1>16 DEF SelectFavorite
  <2>2. QED
    BY <1>1, <1>2, <2>1 DEF StagedAt, Composing, Rereading
<1>17. CASE InsertFavorite(q)
  <2>1. CASE Goto(q, "rereading") /\ task' = task /\ answer' = answer
    BY <1>1, <1>2, <1>5, <1>17, <2>1 DEF InsertFavorite, StagedAt, Composing, Rereading
  <2>2. QED
    BY <1>7, <1>17, <2>1 DEF InsertFavorite
<1>18. CASE DeleteFavorite(q)
  <2>1. /\ pc[q] = "deletingFavorite" /\ task' = task /\ answer' = answer
        /\ pc'[q] = "rereading"
    BY <1>5, <1>18 DEF DeleteFavorite
  <2>2. QED
    BY <1>1, <1>2, <2>1 DEF StagedAt, Composing, Rereading
<1>19. CASE InsertComment(q)
  <2>1. CASE Goto(q, "rereadingComment") /\ task' = task /\ answer' = answer
    BY <1>1, <1>2, <1>5, <1>19, <2>1 DEF InsertComment, StagedAt, Composing, Rereading
  <2>2. QED
    BY <1>7, <1>19, <2>1 DEF InsertComment
<1>20. CASE RereadComment(q)
  BY <1>5, <1>6, <1>7, <1>20 DEF RereadComment
<1>21. CASE FindComment(q)
  <2>1. CASE Goto(q, "deletingComment") /\ task' = task /\ answer' = answer
    BY <1>1, <1>2, <1>5, <1>21, <2>1 DEF FindComment, StagedAt, Composing, Rereading
  <2>2. QED
    BY <1>7, <1>21, <2>1 DEF FindComment
<1>22. CASE DeleteComment(q)
  BY <1>5, <1>6, <1>7, <1>22 DEF DeleteComment
<1>23. CASE Looks(q)
  <2>1. CASE pc'[q] \in {"relating", "counting"} /\ answer' = answer
    BY <1>1, <1>2, <1>23, <2>1 DEF Looks, StagedAt, Composing, Rereading
  <2>2. QED
    BY <1>5, <1>6, <1>23, <2>1 DEF Looks
<1>24. CASE ReadOwnTags(q)
  <2>1. pc'[q] = "readingTags" /\ pc[q] = "readingOwnTags" /\ answer' = answer
    BY <1>5, <1>24 DEF ReadOwnTags
  <2>2. QED
    BY <1>1, <1>2, <1>24, <2>1, OwnTagsEffect DEF StagedAt, Composing, Rereading
<1>25. CASE ReadFavorites(q)
  BY <1>5, <1>6, <1>25 DEF ReadFavorites
<1>26. QED
  BY <1>8, <1>9, <1>10, <1>11, <1>12, <1>13, <1>14, <1>15, <1>16, <1>17, <1>18, <1>19, <1>20,
     <1>21, <1>22, <1>23, <1>24, <1>25 DEF Step, Write, Favor, Discuss

\* What the use-case holds once its row is written.
LEMMA StoreTask ==
    ASSUME TypeOK, Requested, Staged, NEW q \in Requests, Store(q)
    PROVE  /\ task[q].written = None /\ task'[q].written = Stored(q).slug
           /\ task'[q].target = Destination(q) /\ task'[q].draft = task[q].draft
<1>1. task[q] \in Tasks /\ StagedAt(q)
  BY DEF TypeOK, Staged
<1>2. /\ task'[q] = [task[q] EXCEPT !.target = Destination(q),
                                    !.written = Candidate(task[q].draft.slug, task[q].attempt)]
      /\ pc[q] = "storing"
  BY PutTask DEF Store, TypeOK
<1>3. /\ task'[q].target = Destination(q) /\ task'[q].draft = task[q].draft
      /\ task'[q].written = Candidate(task[q].draft.slug, task[q].attempt)
  BY <1>1, <1>2 DEF Tasks
<1>4. task[q].written = None
  BY <1>1, <1>2 DEF StagedAt, Rereading
<1>5. QED
  BY <1>3, <1>4, StoreEffect

\* What a step does to the article its use-case holds and to the slug it wrote:
\* nothing, Find, or the commit.
LEMMA TaskEffect ==
    ASSUME TypeOK, Requested, Staged, NEW q \in Requests, Step(q) \/ Looks(q)
    PROVE  \/ /\ task'[q].target = task[q].target
              /\ task'[q].written = task[q].written
              /\ task'[q].draft = task[q].draft
           \/ /\ sent[q].op \in {"create", "update"}
              /\ task[q].written = None /\ task'[q].written = None
              /\ task'[q].target = task[q].target
           \/ /\ pc[q] = "arrived" /\ task[q] = BlankTask
              /\ task'[q].written = None /\ task'[q].target \in Present
           \/ /\ Store(q)
              /\ task[q].written = None /\ task'[q].written = Stored(q).slug
              /\ task'[q].target = Destination(q) /\ task'[q].draft = task[q].draft
<1>1. StagedAt(q) /\ task[q] \in Tasks
  BY DEF TypeOK, Staged
<1>2. CASE Begin(q)
  <2>1. /\ task'[q] = [task[q] EXCEPT !.draft = NewRow(sent[q])]
        /\ pc[q] = "arrived" /\ sent[q].op = "create"
    BY <1>2 DEF Begin, TypeOK
  <2>2. QED
    BY <1>1, <2>1 DEF StagedAt, BlankTask, Tasks
<1>3. CASE Find(q)
  <2>1. CASE task' = task
    BY <2>1
  <2>2. ASSUME NEW a \in Under(sent[q].slug), task' = [task EXCEPT ![q] = Found(q, a)]
        PROVE  /\ pc[q] = "arrived" /\ task[q] = BlankTask
               /\ task'[q].written = None /\ task'[q].target \in Present
    <3>1. pc[q] = "arrived" /\ task[q] = BlankTask
      BY <1>1, <1>3 DEF Find, StagedAt
    <3>2. task'[q] = Found(q, a)
      BY <2>2 DEF TypeOK
    <3>3. QED
      BY <3>1, <3>2 DEF Found, BlankTask, Under
  <2>3. QED
    BY <1>3, <2>1, <2>2, FindCases DEF Fail
<1>4. CASE ReadTags(q)
  <2>1. task'[q] = [task[q] EXCEPT !.known = tags] /\ pc[q] = "readingTags"
    BY <1>4 DEF ReadTags, TypeOK
  <2>2. QED
    BY <1>1, <2>1 DEF StagedAt, Composing, Rereading, Tasks
<1>5. CASE Retry(q)
  <2>1. CASE task[q].attempt < MaxAttempts
    <3>1. task'[q] = [task[q] EXCEPT !.attempt = task[q].attempt + 1] /\ pc[q] = "storing"
      BY <1>5, <2>1 DEF Retry, TypeOK
    <3>2. QED
      BY <1>1, <3>1 DEF StagedAt, Composing, Rereading, Tasks
  <2>2. QED
    BY <1>5, <2>1 DEF Retry, Fail
<1>6. CASE Store(q)
  BY <1>6, StoreTask
<1>7. CASE Abandon(q) \/ ReadFavorites(q) \/ Delete(q) \/ SelectFavorite(q)
           \/ InsertFavorite(q) \/ DeleteFavorite(q)
  BY <1>7 DEF Abandon, ReadFavorites, Delete, SelectFavorite, InsertFavorite, DeleteFavorite, Fail
<1>8. CASE InsertComment(q) \/ RereadComment(q) \/ FindComment(q) \/ DeleteComment(q) \/ Looks(q)
  BY <1>8 DEF InsertComment, RereadComment, FindComment, DeleteComment, Looks, Fail
<1>9. CASE ReadOwnTags(q)
  BY <1>9, OwnTagsEffect
<1>10. CASE Reread(q)
  BY <1>1, <1>10, RereadEffect DEF Tasks, Fail
<1>11. QED
  BY <1>2, <1>3, <1>4, <1>5, <1>6, <1>7, <1>8, <1>9, <1>10 DEF Step, Write, Favor, Discuss

\* What has been written stays so.
LEMMA WrittenStays ==
    ASSUME TypeOK, Requested, Staged, NEW q \in Requests, Step(q) \/ Looks(q),
           NEW p \in Requests, task[p].written # None
    PROVE  task'[p].written = task[p].written
BY StepFrame, TaskEffect DEF BlankTask

LEMMA AppearedStep ==
    ASSUME IInv, NEW q \in Requests, Step(q) \/ Looks(q)
    PROVE  Appeared'
<1>1. TypeOK /\ Requested /\ Staged /\ Appeared
  BY DEF IInv
<1>2. SUFFICES ASSUME NEW p \in Requests,
                      articles'[p] # None \/ \E r \in Requests : task'[r].target = p
               PROVE  sent'[p].op = "create" /\ task'[p].written # None
  BY DEF Appeared
<1>3. sent' = sent /\ \A h \in Requests : h # q => task'[h] = task[h]
  BY <1>1, StepFrame
<1>4. CASE \/ articles[p] # None
           \/ \E r \in Requests : task[r].target = p
  <2>1. sent[p].op = "create" /\ task[p].written # None
    BY <1>1, <1>4 DEF Appeared
  <2>2. QED
    BY <1>1, <1>3, <2>1, WrittenStays
<1>5. CASE /\ articles[p] = None
           /\ ~\E r \in Requests : task[r].target = p
  <2>1. p \in Ids /\ p \notin Present
    BY <1>5 DEF Ids, Present
  <2>2. CASE Store(q)
    <3>1. Destination(q) = p /\ task'[q].written = Stored(q).slug
      <4>1. task'[q].target = Destination(q) /\ task'[q].written = Stored(q).slug
        BY <1>1, <2>2, StoreTask
      <4>2. articles'[p] # None => Destination(q) = p
        BY <1>1, <1>5, <2>1, <2>2, StoreEffect
      <4>3. QED
        BY <1>2, <1>3, <1>5, <4>1, <4>2
    <3>2. sent[q].op = "create" /\ q = p
      BY <1>1, <1>5, <2>1, <2>2, <3>1, StoreEffect
    <3>3. Stored(q).slug # None
      BY <1>1, <2>2, StoreEffect, RowFields
    <3>4. QED
      BY <1>3, <3>1, <3>2, <3>3
  <2>3. CASE ~Store(q)
    <3>1. articles'[p] = None
      BY <1>1, <1>5, <2>1, <2>3, TablesEffect, EraseEffect
         DEF tables, Favors, DeleteFavorite, Comments, Withdraws
    <3>2. \A r \in Requests : task'[r].target # p
      BY <1>1, <1>3, <1>5, <2>1, <2>3, TaskEffect
    <3>3. QED
      BY <1>2, <3>1, <3>2
  <2>4. QED
    BY <2>2, <2>3
<1>6. QED
  BY <1>4, <1>5

\* A comment that has been written is not written again, nor moves.
LEMMA ThreadedStep ==
    ASSUME IInv, NEW q \in Requests, Step(q) \/ Looks(q)
    PROVE  Threaded'
<1>1. TypeOK /\ Requested /\ Staged /\ Threaded /\ StagedAt(q)
  BY DEF IInv, Staged
<1>2. /\ sent' = sent
      /\ \A h \in Requests : h # q => pc'[h] = pc[h] /\ task'[h] = task[h]
  BY <1>1, StepFrame
<1>3. /\ \A a : Reply(q, a) => pc'[q] = "done"
      /\ \A status : Fail(q, status) => pc'[q] = "done"
      /\ \A stage : Goto(q, stage) => pc'[q] = stage
  BY <1>1, Moves DEF TypeOK
<1>4. pc[q] \in {"rereadingComment", "done"} => pc'[q] \in {"rereadingComment", "done"}
  <2>1. CASE RereadComment(q)
    BY <1>3, <2>1 DEF RereadComment
  <2>2. CASE ~RereadComment(q)
    BY <2>2
       DEF Step, Write, Favor, Discuss, Begin, Find, ReadOwnTags, ReadTags, Retry, Abandon,
           Store, Reread, ReadFavorites, Delete, SelectFavorite, InsertFavorite,
           DeleteFavorite, InsertComment, FindComment, DeleteComment, Looks
  <2>3. QED
    BY <2>1, <2>2
<1>5. \A c \in Requests : pc[c] \in {"rereadingComment", "done"} =>
        pc'[c] \in {"rereadingComment", "done"}
  BY <1>2, <1>4
<1>6. \A c \in Requests :
        \/ comments'[c] = comments[c] \/ comments'[c] = None
        \/ c = q /\ pc[q] = "inserting" /\ pc'[q] = "rereadingComment"
  <2>1. CASE Erases(q)
    BY <2>1 DEF Erases
  <2>2. CASE Comments(q)
    BY <1>1, <1>3, <2>2 DEF Comments, TypeOK
  <2>3. CASE Withdraws(q)
    BY <1>1, <2>3 DEF Withdraws, TypeOK
  <2>4. CASE comments' = comments
    BY <2>4
  <2>5. QED
    BY <1>1, <2>1, <2>2, <2>3, <2>4, TablesEffect, StoreEffect
       DEF tables, Favors, DeleteFavorite
<1>7. \A c \in Requests : comments'[c] # None => pc'[c] \in {"rereadingComment", "done"}
  BY <1>1, <1>5, <1>6 DEF Threaded
<1>8. ASSUME NEW r \in Requests, pc'[r] = "deletingComment"
      PROVE  /\ pc'[sent[r].comment] \in {"rereadingComment", "done"}
             /\ comments'[sent[r].comment] # None =>
                  comments'[sent[r].comment].article = task'[r].target
  <2> DEFINE c == sent[r].comment
  <2>1. CASE pc[r] = "deletingComment"
    <3>1. StagedAt(r) /\ c \in Requests
      BY <1>1, <2>1, MixTypes DEF Staged, StagedAt, Requested
    <3>2. /\ pc[c] \in {"rereadingComment", "done"}
          /\ comments[c] # None => comments[c].article = task[r].target
      BY <1>1, <2>1 DEF Threaded
    <3>3. comments'[c] = comments[c] \/ comments'[c] = None
      BY <1>6, <3>1, <3>2
    <3>4. task'[r].target = task[r].target
      <4>1. sent[r].op = "uncomment"
        BY <2>1, <3>1 DEF StagedAt
      <4>2. CASE r = q
        BY <1>1, <2>1, <4>1, <4>2, TaskEffect DEF Store
      <4>3. QED
        BY <1>2, <4>2
    <3>5. QED
      BY <1>5, <3>1, <3>2, <3>3, <3>4
  <2>2. CASE pc[r] # "deletingComment"
    <3>1. r = q
      BY <1>2, <1>8, <2>2
    <3>2. FindComment(q)
      <4>1. CASE \/ Begin(q) \/ ReadOwnTags(q) \/ ReadTags(q) \/ Retry(q) \/ Abandon(q)
                 \/ Store(q) \/ Reread(q) \/ ReadFavorites(q)
        BY <1>3, <1>8, <3>1, <4>1
           DEF Begin, ReadOwnTags, ReadTags, Retry, Abandon, Store, Put, Reread, ReadFavorites
      <4>2. CASE Find(q)
        <5>1. sent[q].op \in DOMAIN NextStage
          BY <4>2 DEF Find
        <5>2. pc'[q] = NextStage[sent[q].op] \/ pc'[q] = "done"
          BY <1>1, <1>3, <4>2, FindCases
        <5>3. QED
          BY <1>8, <3>1, <5>1, <5>2 DEF NextStage
      <4>3. CASE Delete(q) \/ SelectFavorite(q) \/ InsertFavorite(q) \/ DeleteFavorite(q)
        BY <1>3, <1>8, <3>1, <4>3 DEF Delete, SelectFavorite, InsertFavorite, DeleteFavorite
      <4>4. CASE InsertComment(q) \/ RereadComment(q) \/ DeleteComment(q) \/ Looks(q)
        BY <1>3, <1>8, <3>1, <4>4 DEF InsertComment, RereadComment, DeleteComment, Looks
      <4>5. QED
        BY <4>1, <4>2, <4>3, <4>4 DEF Step, Write, Favor, Discuss
    <3>3. /\ InThread(q, c) /\ UNCHANGED <<task, comments>>
          /\ pc[q] = "findingComment"
      BY <1>3, <1>8, <3>1, <3>2 DEF FindComment, tables
    <3>4. c \in Requests
      BY <1>1, <3>1, <3>3, MixTypes DEF StagedAt, Requested
    <3>5. QED
      BY <1>1, <1>5, <3>1, <3>3, <3>4 DEF InThread, Threaded
  <2>3. QED
    BY <2>1, <2>2
<1>9. QED
  BY <1>2, <1>7, <1>8 DEF Threaded

LEMMA InitIInv == Init => IInv
<1> SUFFICES ASSUME Init PROVE IInv
  OBVIOUS
<1>1. Requested /\ sent \in [Requests -> Inputs]
  BY InputAssumption DEF Init, Requested
<1>2. \A a \in Seeds : SeedRow[a] \in Rows /\ SeedRow[a].tags \in SUBSET Tags
  BY SeedAssumption, RowFields
<1>3. TypeOK
  <2>1. BlankTask \in Tasks /\ Pending \in Answers /\ "arrived" \in Stages
    BY ConstantAssumption DEF BlankTask, Tasks, Pending, Answers, Stages
  <2>2. articles \in [Ids -> Rows \union {None}]
    BY <1>2 DEF Init
  <2>3. tags \in SUBSET Tags
    BY <1>2 DEF Init
  <2>4. QED
    BY <1>1, <2>1, <2>2, <2>3 DEF Init, TypeOK
<1>4. Staged
  BY DEF Init, Staged, StagedAt, Composing, Rereading, BlankTask
<1>5. Appeared
  BY SeedAssumption, ConstantAssumption DEF Init, Appeared, BlankTask, Ids
<1>6. Threaded
  BY DEF Init, Threaded
<1>7. OneArticlePerSlug
  <2>1. \A a \in Present : a \in Seeds /\ articles[a] = SeedRow[a]
    BY DEF Init, Present
  <2>2. QED
    BY <2>1, SeedAssumption DEF OneArticlePerSlug
<1>8. NoOrphans
  BY DEF Init, NoOrphans
<1>9. QED
  BY <1>1, <1>3, <1>4, <1>5, <1>6, <1>7, <1>8 DEF IInv

LEMMA IInvStep ==
    ASSUME IInv, NEW q \in Requests, Step(q) \/ Looks(q)
    PROVE  IInv'
<1>1. TypeOK' /\ Requested' /\ Staged'
  BY TypeStep, StagedStep DEF IInv
<1>2. QED
  BY <1>1, AppearedStep, ThreadedStep, UniqueStep, OrphanStep DEF IInv

LEMMA IInvStutter ==
    ASSUME IInv, UNCHANGED vars
    PROVE  IInv'
<1> USE DEF vars
<1>1. TypeOK' /\ Requested'
  BY DEF IInv, TypeOK, Requested
<1>2. Staged'
  BY DEF IInv, Staged, StagedAt, Composing, Rereading
<1>3. Appeared' /\ Threaded'
  BY DEF IInv, Appeared, Threaded
<1>4. OneArticlePerSlug' /\ NoOrphans'
  BY DEF IInv, OneArticlePerSlug, NoOrphans, Present
<1>5. QED
  BY <1>1, <1>2, <1>3, <1>4 DEF IInv

\* The invariant holds of every run.
THEOREM Invariance == Spec => []IInv
<1>1. IInv /\ [Next]_vars => IInv'
  BY IInvStep, IInvStutter DEF Next
<1>2. QED
  BY InitIInv, <1>1, PTL DEF Spec

\* Every variable ranges over the states the code can represent.
THEOREM TypeCorrectness == Spec => []TypeOK
<1>1. IInv => TypeOK
  BY DEF IInv
<1>2. QED
  BY <1>1, Invariance, PTL

\* ADR 010: a slug designates one article, whatever is created, renamed and
\* deleted at the same time.
THEOREM OneArticlePerSlugHolds == Spec => []OneArticlePerSlug
<1>1. IInv => OneArticlePerSlug
  BY DEF IInv
<1>2. QED
  BY <1>1, Invariance, PTL

\* AC-2 of REQ-ARTICLE-006: no comment and no favourite outlives its article.
THEOREM NoOrphansHolds == Spec => []NoOrphans
<1>1. IInv => NoOrphans
  BY DEF IInv
<1>2. QED
  BY <1>1, Invariance, PTL

-----------------------------------------------------------------------------
(* What a step may not do *)

\* The update that commits at its first attempt.
LEMMA UpdateStep ==
    ASSUME IInv, NEW p \in Requests, Step(p) \/ Looks(p),
           NEW q \in Requests, sent[q].op = "update", pc[q] = "storing",
           articles[task[q].target] = task[q].read
    PROVE  LET old == task[q].read
               new == articles'[task[q].target]
           IN  /\ pc'[q] = "rereading" =>
                    \A field \in {"title", "text", "tags"} :
                        new[field] = Given(sent[q][field], old[field])
               /\ task[q].attempt = 1 /\ Given(sent[q].title, old.title) = old.title =>
                    /\ pc'[q] # "readingTags"
                    /\ pc'[q] = "rereading" => new.slug = old.slug
<1> DEFINE old == task[q].read
           new == articles'[task[q].target]
<1>1. TypeOK /\ Requested /\ Staged /\ OneArticlePerSlug /\ StagedAt(q) /\ sent[q] \in Inputs
  BY DEF IInv, Staged, TypeOK
<1>2. /\ task[q].target \in Ids /\ old \in Rows
      /\ task[q].draft = WithChanges(old, sent[q]) /\ task[q].draft \in Rows
  BY <1>1, ComposingTypes DEF StagedAt, Composing
<1>3. /\ task[q].draft.title = Given(sent[q].title, old.title)
      /\ task[q].draft.text = Given(sent[q].text, old.text)
      /\ task[q].draft.tags = Given(sent[q].tags, old.tags)
      /\ task[q].draft.title = old.title => task[q].draft.slug = old.slug
  BY <1>1, <1>2, WithChangesFields
<1>4. CASE p # q
  BY <1>1, <1>4, StepFrame
<1>5. CASE p = q /\ Store(q)
  <2>1. new = Stored(q) /\ Stored(q).slug = Candidate(task[q].draft.slug, task[q].attempt)
    BY <1>1, <1>2, <1>5, StoreEffect
  <2>2. \A field \in {"title", "text", "tags"} : new[field] = task[q].draft[field]
    <3>1. Candidate(task[q].draft.slug, task[q].attempt) \in Slugs
      BY <1>1, ComposingTypes DEF Composing
    <3>2. \A field \in {"title", "text", "tags"} : Stored(q)[field] = task[q].draft[field]
      BY <1>2, <3>1, WrittenRowType DEF Stored
    <3>3. QED
      BY <2>1, <3>2
  <2>3. \A field \in {"title", "text", "tags"} : new[field] = Given(sent[q][field], old[field])
    BY <1>3, <2>2
  <2>4. pc'[q] = "rereading"
    BY <1>1, <1>5, Moves DEF Store, Put, TypeOK
  <2>5. task[q].attempt = 1 /\ Given(sent[q].title, old.title) = old.title => new.slug = old.slug
    BY <1>3, <2>1 DEF Candidate
  <2>6. QED
    BY <2>3, <2>4, <2>5
<1>6. CASE p = q /\ Retry(q)
  <2>1. pc'[q] \in {"readingTags", "done"}
    BY <1>1, <1>6, Moves DEF Retry, TypeOK
  <2>2. ASSUME task[q].attempt = 1, Given(sent[q].title, old.title) = old.title
        PROVE  FALSE
    <3>1. Candidate(task[q].draft.slug, task[q].attempt) = old.slug
      BY <1>3, <2>2 DEF Candidate
    <3>2. Destination(q) = task[q].target /\ task[q].target \in Present
      BY <1>2, RowFields DEF Destination, Present
    <3>3. Under(old.slug) \ {task[q].target} = {}
      BY <1>1, <3>2 DEF Under, OneArticlePerSlug
    <3>4. QED
      BY <1>6, <3>1, <3>2, <3>3 DEF Retry, SlugTaken
  <2>3. QED
    BY <2>1, <2>2
<1>7. CASE p = q /\ Abandon(q)
  <2>1. pc'[q] = "done"
    BY <1>1, <1>7, Moves DEF Abandon, TypeOK
  <2>2. QED
    BY <2>1
<1>8. QED
  BY <1>4, <1>5, <1>6, <1>7
     DEF Step, Write, Favor, Discuss, Begin, Find, ReadOwnTags, ReadTags, Reread, ReadFavorites,
         Delete, SelectFavorite, InsertFavorite, DeleteFavorite, InsertComment, RereadComment,
         FindComment, DeleteComment, Looks

\* AC-1 and AC-3 of REQ-ARTICLE-005, as far as they hold: an update whose row is
\* the one it read changes the fields it was given and no other, and at its
\* first attempt keeps the URL unless the title changes.
THEOREM UndisturbedUpdateHolds == Spec => UndisturbedUpdateIsPartial
<1>1. IInv /\ [Next]_vars
        => [\A q \in Requests :
              /\ sent[q].op = "update" /\ pc[q] = "storing"
              /\ articles[task[q].target] = task[q].read
              => LET old == task[q].read
                     new == articles'[task[q].target]
                 IN  /\ pc'[q] = "rereading" =>
                          \A field \in {"title", "text", "tags"} :
                              new[field] = Given(sent[q][field], old[field])
                     /\ task[q].attempt = 1 /\ Given(sent[q].title, old.title) = old.title =>
                          /\ pc'[q] # "readingTags"
                          /\ pc'[q] = "rereading" => new.slug = old.slug]_vars
  BY UpdateStep DEF Next
<1>2. QED
  BY <1>1, Invariance, PTL DEF Spec, UndisturbedUpdateIsPartial

\* A comment leaves by the cascade, or by the query that names it.
LEMMA CommentStep ==
    ASSUME IInv, NEW p \in Requests, Step(p) \/ Looks(p),
           NEW c \in Requests, comments[c] # None, comments'[c] # comments[c]
    PROVE  \/ articles'[comments[c].article] = None
           \/ \E q \in Requests : /\ pc[q] = "deletingComment"
                                  /\ sent[q].comment = c
                                  /\ sent[q].user = comments[c].author
                                  /\ task[q].target = comments[c].article
<1>1. TypeOK /\ Requested /\ Staged /\ Threaded /\ NoOrphans /\ StagedAt(p)
  BY DEF IInv, Staged
<1>2. CASE Erases(p)
  <2>1. comments[c].article = task[p].target
    BY <1>2 DEF Erases
  <2>2. articles'[task[p].target] = None
    BY <1>1, <1>2, EraseEffect DEF Present
  <2>3. QED
    BY <2>1, <2>2
<1>3. CASE Comments(p)
  <2>1. c = p
    BY <1>1, <1>3 DEF Comments, TypeOK
  <2>2. QED
    BY <1>1, <1>3, <2>1 DEF Comments, Threaded
<1>4. CASE Withdraws(p)
  <2>1. c = sent[p].comment /\ pc[p] = "deletingComment" /\ MyComment(p, c)
    BY <1>1, <1>4 DEF Withdraws, TypeOK
  <2>2. comments[c].article = task[p].target
    BY <1>1, <2>1 DEF Threaded
  <2>3. QED
    BY <2>1, <2>2 DEF MyComment
<1>5. CASE Store(p)
  BY <1>1, <1>5, StoreEffect
<1>6. QED
  BY <1>2, <1>3, <1>4, <1>5, TablesEffect DEF tables, Favors, DeleteFavorite

\* AC-4 of REQ-COMMENT-004: a comment leaves with its article, or through the
\* URL of its article at the request of its author.
THEOREM CommentDeletedInItsThreadHolds == Spec => CommentDeletedInItsThread
<1>1. IInv /\ [Next]_vars
        => [\A c \in Requests :
              comments[c] # None /\ comments'[c] # comments[c] =>
                  \/ articles'[comments[c].article] = None
                  \/ \E q \in Requests : /\ pc[q] = "deletingComment"
                                         /\ sent[q].comment = c
                                         /\ sent[q].user = comments[c].author
                                         /\ task[q].target = comments[c].article]_vars
  BY CommentStep DEF Next
<1>2. QED
  BY <1>1, Invariance, PTL DEF Spec, CommentDeletedInItsThread

-----------------------------------------------------------------------------
(* The refinement: the slugs of the articles are a Directory *)

Address == [a \in Ids |-> IF articles[a] = None THEN None ELSE articles[a].slug]

\* Article a takes an address that no article had.
Takes(a) ==
    /\ Address'[a] \in Slugs
    /\ \A b \in Ids : Address[b] # Address'[a]
    /\ Address' = [Address EXCEPT ![a] = Address'[a]]

\* What a step does to the addresses and to those published.
LEMMA AddressStep ==
    ASSUME IInv, NEW q \in Requests, Step(q) \/ Looks(q)
    PROVE  \/ Address' = Address /\ Written' = Written
           \/ \E a \in Ids : /\ a \notin Seeds \union Written
                             /\ Takes(a)
                             /\ Written' = Written \union {a}
           \/ \E a \in Ids : /\ Address[a] # None
                             /\ Takes(a)
                             /\ Written' = Written
           \/ \E a \in Ids : /\ Address[a] # None
                             /\ Address' = [Address EXCEPT ![a] = None]
                             /\ Written' = Written
<1>1. TypeOK /\ Requested /\ Staged /\ StagedAt(q)
  BY DEF IInv, Staged
<1>2. sent' = sent /\ \A h \in Requests : h # q => task'[h] = task[h]
  BY <1>1, StepFrame
<1>3. ASSUME ~Store(q)
      PROVE  Written' = Written
  <2>1. task'[q].written = task[q].written
    BY <1>1, <1>3, TaskEffect DEF BlankTask
  <2>2. QED
    BY <1>2, <2>1 DEF Written
<1>4. CASE Store(q)
  <2> DEFINE a == Destination(q)
             row == Stored(q)
  <2>1. /\ a \in Ids /\ row \in Rows /\ row # None /\ row.slug \in Slugs /\ row.slug # None
        /\ \A b \in Ids : articles'[b] = IF b = a THEN row ELSE articles[b]
        /\ \A b \in Present : articles[b].slug = row.slug => b = a
    BY <1>1, <1>4, StoreEffect, RowFields
  <2>2. /\ Address'[a] = row.slug
        /\ \A b \in Ids : b # a => Address'[b] = Address[b]
    BY <2>1 DEF Address
  <2>3. Address = [b \in Ids |-> Address[b]] /\ Address' = [b \in Ids |-> Address'[b]]
    BY DEF Address
  <2>4. ASSUME Address[a] # row.slug
        PROVE  Takes(a)
    <3>1. ASSUME NEW b \in Ids
          PROVE  Address[b] # row.slug
      <4>1. CASE articles[b] = None
        BY <2>1, <4>1 DEF Address
      <4>2. CASE articles[b] # None
        <5>1. b \in Present /\ Address[b] = articles[b].slug
          BY <4>2 DEF Present, Address
        <5>2. QED
          BY <2>1, <2>4, <5>1
      <4>3. QED
        BY <4>1, <4>2
    <3>2. Address' = [Address EXCEPT ![a] = Address'[a]]
      BY <2>2, <2>3
    <3>3. QED
      BY <2>1, <2>2, <3>1, <3>2 DEF Takes
  <2>5. task[q].written = None /\ task'[q].written # None
    BY <1>1, <1>4, <2>1, StoreTask
  <2>6. CASE sent[q].op = "create"
    <3>1. a = q /\ q \notin Seeds \union Written
      BY <1>1, <1>4, <2>5, <2>6, StoreEffect, SeedAssumption DEF Written
    <3>2. Address[a] = None
      BY <2>1, <2>5, <3>1 DEF IInv, Appeared, Address
    <3>3. Written' = Written \union {a}
      BY <1>2, <2>5, <2>6, <3>1 DEF Written
    <3>4. QED
      BY <2>1, <2>4, <3>1, <3>2, <3>3
  <2>7. CASE sent[q].op # "create"
    <3>1. Written' = Written
      BY <1>2, <2>7 DEF Written
    <3>2. a \in Present /\ articles[a] \in Rows
      BY <1>1, <1>4, <2>7, StoreEffect DEF Mine, Present, TypeOK
    <3>3. Address[a] # None
      BY <2>1, <3>2, RowFields DEF Address, Present
    <3>4. CASE Address[a] = row.slug
      BY <2>2, <2>3, <3>1, <3>4
    <3>5. CASE Address[a] # row.slug
      BY <2>1, <2>4, <3>1, <3>3, <3>5
    <3>6. QED
      BY <3>4, <3>5
  <2>8. QED
    BY <2>6, <2>7
<1>5. CASE Erases(q)
  <2> DEFINE a == task[q].target
  <2>1. /\ a \in Present
        /\ \A b \in Ids : articles'[b] = IF b = a THEN None ELSE articles[b]
    BY <1>1, <1>5, EraseEffect
  <2>2. a \in Ids /\ articles[a] \in Rows
    BY <1>1, <2>1 DEF Present, TypeOK
  <2>3. Address[a] # None
    BY <2>2, RowFields DEF Address
  <2>4. Address' = [Address EXCEPT ![a] = None]
    BY <2>1 DEF Address
  <2>5. ~Store(q)
    BY <1>5 DEF Erases, Store
  <2>6. QED
    BY <1>3, <2>2, <2>3, <2>4, <2>5
<1>6. CASE articles' = articles /\ ~Store(q)
  BY <1>3, <1>6 DEF Address
<1>7. QED
  BY <1>4, <1>5, <1>6, TablesEffect DEF tables, Favors, DeleteFavorite, Comments, Withdraws

LEMMA DirectoryInit == Init => Addresses!Init
<1> SUFFICES ASSUME Init PROVE Addresses!Init
  OBVIOUS
<1>1. Seeds \union Written = Seeds
  BY DEF Init, Written, BlankTask
<1>2. ASSUME NEW a \in Seeds
      PROVE  a \in Ids /\ Address[a] = SeedRow[a].slug /\ SeedRow[a].slug \in Slugs
  <2>1. SeedRow[a] \in Rows
    BY SeedAssumption
  <2>2. QED
    BY <2>1, RowFields DEF Init, Address, Ids
<1>3. \A a \in Ids : a \notin Seeds => Address[a] = None
  BY DEF Init, Address
<1>4. \A a, b \in Seeds : Address[a] = Address[b] => a = b
  BY <1>2, SeedAssumption
<1>5. QED
  BY <1>1, <1>2, <1>3, <1>4 DEF Addresses!Init, Address

LEMMA DirectoryStep ==
    ASSUME IInv, NEW q \in Requests, Step(q) \/ Looks(q)
    PROVE  [Addresses!Next]_(Addresses!vars)
<1>1. \A a \in Ids : Takes(a) => Addresses!Settle(a)
  BY DEF Takes, Address, Addresses!Settle, Addresses!Free
<1>2. CASE Address' = Address /\ Written' = Written
  BY <1>2 DEF Address, Addresses!vars
<1>3. CASE \E a \in Ids : /\ a \notin Seeds \union Written
                          /\ Takes(a)
                          /\ Written' = Written \union {a}
  BY <1>1, <1>3 DEF Addresses!Next, Addresses!Publish
<1>4. CASE \E a \in Ids : Address[a] # None /\ Takes(a) /\ Written' = Written
  BY <1>1, <1>4 DEF Addresses!Next, Addresses!Move, Address
<1>5. CASE \E a \in Ids : /\ Address[a] # None
                          /\ Address' = [Address EXCEPT ![a] = None]
                          /\ Written' = Written
  BY <1>5 DEF Addresses!Next, Addresses!Drop, Address
<1>6. QED
  BY <1>2, <1>3, <1>4, <1>5, AddressStep

LEMMA DirectoryStutter ==
    ASSUME UNCHANGED vars
    PROVE  UNCHANGED (Addresses!vars)
BY DEF vars, Addresses!vars, Written

\* For whoever holds a link, the articles implement a Directory: one article at
\* an address, moves to free addresses only, and no return of what was removed.
THEOREM KeepsDirectoryHolds == Spec => KeepsDirectory
<1>1. IInv /\ [Next]_vars => [Addresses!Next]_(Addresses!vars)
  BY DirectoryStep, DirectoryStutter DEF Next
<1>2. QED
  BY DirectoryInit, <1>1, Invariance, PTL DEF Spec, KeepsDirectory, Addresses!Spec

-----------------------------------------------------------------------------
(* Favourites *)

\* The article of a favourite, once found, stays the same.
LEMMA FavorTargetStays ==
    ASSUME IInv, NEW q \in Requests, Step(q) \/ Looks(q),
           NEW r \in Requests, Favoring(r), task[r].target \in Ids
    PROVE  task'[r].target = task[r].target
<1>1. TypeOK /\ Requested /\ Staged /\ \A p \in Requests : StagedAt(p)
  BY DEF IInv, Staged
<1>2. CASE r # q
  BY <1>1, <1>2, StepFrame
<1>3. CASE r = q
  <2>1. sent[q].op \notin {"create", "update"}
    BY <1>3 DEF Favoring
  <2>2. task[q] # BlankTask
    BY <1>3, ConstantAssumption DEF BlankTask
  <2>3. ~Store(q)
    BY <1>1, <2>1 DEF Store, StagedAt, Composing
  <2>4. QED
    BY <1>1, <1>3, <2>1, <2>2, <2>3, TaskEffect
<1>4. QED
  BY <1>2, <1>3

\* Whoever asks the opposite goes on asking it.
LEMMA OpposedStays ==
    ASSUME IInv, NEW q \in Requests, Step(q) \/ Looks(q),
           NEW r \in Requests, Favoring(r), task[r].target \in Ids, Opposed(r)
    PROVE  Opposed(r)'
<1>1. sent' = sent
  BY StepFrame DEF IInv
<1>2. PICK p \in Requests : /\ {sent[p].op, sent[r].op} = {"favorite", "unfavorite"}
                            /\ sent[p].user = sent[r].user
                            /\ task[p].target = task[r].target
  BY DEF Opposed
<1>3. Favoring(p)
  BY <1>2 DEF Favoring
<1>4. task'[p].target = task[p].target /\ task'[r].target = task[r].target
  BY <1>2, <1>3, FavorTargetStays
<1>5. QED
  BY <1>1, <1>2, <1>4 DEF Opposed

\* An article that a use-case holds the id of and that is gone does not return.
LEMMA GoneForGood ==
    ASSUME IInv, NEW q \in Requests, Step(q) \/ Looks(q),
           NEW r \in Requests, task[r].target \in Ids, articles[task[r].target] = None
    PROVE  articles'[task[r].target] = None
<1> DEFINE a == task[r].target
<1>1. TypeOK /\ Requested /\ Staged /\ Appeared
  BY DEF IInv
<1>2. CASE Store(q)
  <2>1. \A b \in Ids : articles'[b] = IF b = Destination(q) THEN Stored(q) ELSE articles[b]
    BY <1>1, <1>2, StoreEffect
  <2>2. ASSUME a = Destination(q)
        PROVE  FALSE
    <3>1. CASE sent[q].op = "create"
      <4>1. task[r].target = q
        BY <1>1, <1>2, <2>2, <3>1, StoreEffect
      <4>2. task[q].written # None
        BY <1>1, <4>1 DEF Appeared
      <4>3. QED
        BY <1>1, <1>2, <4>2, StoreTask
    <3>2. CASE sent[q].op # "create"
      BY <1>1, <1>2, <2>2, <3>2, StoreEffect DEF Mine, Present
    <3>3. QED
      BY <3>1, <3>2
  <2>3. QED
    BY <2>1, <2>2
<1>3. CASE Erases(q)
  BY <1>1, <1>3, EraseEffect
<1>4. QED
  BY <1>2, <1>3, TablesEffect DEF tables, Favors, DeleteFavorite, Comments, Withdraws

\* Between the write of a favourite and the last query of its use-case, nobody
\* but an opponent undoes it.
LEMMA FavoriteStays ==
    ASSUME IInv, NEW q \in Requests, Step(q) \/ Looks(q),
           NEW r \in Requests, r # q, Favoring(r), Rereading(r), ~Opposed(r), Settled(r)
    PROVE  /\ FavoriteOf(r) \in favorites' => sent[r].op = "favorite"
           /\ sent[r].op = "favorite" /\ articles'[task[r].target] # None =>
                FavoriteOf(r) \in favorites'
<1>1. TypeOK /\ Requested /\ Staged /\ StagedAt(q) /\ StagedAt(r)
  BY DEF IInv, Staged
<1>2. /\ task[r].target \in Ids
      /\ articles[task[r].target] = None => articles'[task[r].target] = None
  BY <1>1, GoneForGood DEF StagedAt, Favoring, Rereading
<1>3. ASSUME FavoriteOf(q) = FavoriteOf(r), Favoring(q)
      PROVE  sent[q].op = sent[r].op
  BY <1>3 DEF Opposed, FavoriteOf, Favoring
<1>4. CASE Favors(q)
  <2>1. sent[q].op = "favorite" /\ favorites' = favorites \union {FavoriteOf(q)}
    BY <1>1, <1>4 DEF Favors, StagedAt
  <2>2. QED
    BY <1>2, <1>3, <2>1 DEF Favoring, Settled
<1>5. CASE DeleteFavorite(q)
  <2>1. sent[q].op = "unfavorite" /\ favorites' = favorites \ {FavoriteOf(q)}
    BY <1>1, <1>5 DEF DeleteFavorite, StagedAt
  <2>2. QED
    BY <1>2, <1>3, <2>1 DEF Favoring, Settled
<1>6. CASE Erases(q)
  <2>1. favorites' = {f \in favorites : f[2] # task[q].target}
    BY <1>6 DEF Erases
  <2>2. FavoriteOf(r)[2] = task[r].target
    BY DEF FavoriteOf
  <2>3. articles'[task[r].target] # None => task[r].target # task[q].target
    BY <1>1, <1>2, <1>6, EraseEffect
  <2>4. QED
    BY <1>2, <2>1, <2>2, <2>3 DEF Settled
<1>7. CASE favorites' = favorites
  BY <1>2, <1>7 DEF Settled
<1>8. QED
  BY <1>1, <1>4, <1>5, <1>6, <1>7, TablesEffect, StoreEffect DEF tables, Comments, Withdraws

LEMMA FavoredStep ==
    ASSUME IInv, Favored, NEW q \in Requests, Step(q) \/ Looks(q)
    PROVE  Favored'
<1>1. /\ TypeOK /\ Requested /\ Staged /\ \A r \in Requests : StagedAt(r)
      /\ pc \in [Requests -> Stages] /\ answer \in [Requests -> Answers]
  BY DEF IInv, Staged, TypeOK
<1>2. /\ sent' = sent
      /\ \A h \in Requests : h # q => /\ pc'[h] = pc[h]
                                      /\ task'[h] = task[h]
                                      /\ answer'[h] = answer[h]
  BY <1>1, StepFrame
<1>3. SUFFICES ASSUME NEW r \in Requests, Favoring(r)
               PROVE  FavoredAt(r)'
  BY <1>2 DEF Favored, Favoring
<1>4. FavoredAt(r)
  BY <1>3 DEF Favored
<1>5. task[r].target \in Ids =>
        /\ Opposed(r) => Opposed(r)'
        /\ task'[r].target = task[r].target
        /\ articles[task[r].target] = None => articles'[task[r].target] = None
  BY <1>3, OpposedStays, FavorTargetStays, GoneForGood
<1>6. CASE r # q
  <2>1. /\ answer'[r].status \in {"pending", "notFound", "ok"}
        /\ answer'[r].status = "ok" => task'[r].target \in Ids
    BY <1>2, <1>4, <1>6 DEF FavoredAt
  <2>2. ASSUME Rereading(r)', ~Opposed(r)'
        PROVE  Settled(r)'
    <3>1. Rereading(r) /\ task'[r] = task[r] /\ task[r].target \in Ids
      BY <1>1, <1>2, <1>3, <1>6, <2>2 DEF StagedAt, Favoring, Rereading
    <3>2. ~Opposed(r)
      BY <1>5, <2>2, <3>1
    <3>3. FavoriteOf(r)' = FavoriteOf(r)
      BY <1>2, <3>1 DEF FavoriteOf
    <3>4. Settled(r)
      BY <1>4, <3>1, <3>2 DEF FavoredAt
    <3>5. /\ FavoriteOf(r) \in favorites' => sent[r].op = "favorite"
          /\ sent[r].op = "favorite" /\ articles'[task[r].target] # None =>
               FavoriteOf(r) \in favorites'
      BY <1>3, <1>6, <3>1, <3>2, <3>4, FavoriteStays
    <3>6. QED
      BY <1>2, <3>1, <3>3, <3>5 DEF Settled
  <2>3. ASSUME ~Opposed(r)', answer'[r].status = "ok", answer'[r].article = task'[r].target
        PROVE  /\ answer'[r].favorited => sent[r].op = "favorite"
               /\ sent[r].op = "favorite" /\ articles'[task'[r].target] # None =>
                    answer'[r].favorited
    <3>1. answer'[r] = answer[r] /\ task'[r] = task[r] /\ task[r].target \in Ids
      BY <1>2, <1>4, <1>6, <2>3 DEF FavoredAt
    <3>2. ~Opposed(r) /\ (articles'[task[r].target] # None => articles[task[r].target] # None)
      BY <1>5, <2>3, <3>1
    <3>3. QED
      BY <1>4, <2>3, <3>1, <3>2 DEF FavoredAt
  <2>4. QED
    BY <1>2, <2>1, <2>2, <2>3 DEF FavoredAt
<1>7. CASE r = q
  <2>1. /\ \A a : Reply(q, a) => pc'[q] = "done" /\ answer'[q] = a
        /\ \A status : Fail(q, status) => /\ pc'[q] = "done"
                                          /\ answer'[q].status = status
                                          /\ answer'[q].article = None
                                          /\ task' = task
        /\ \A stage : Goto(q, stage) => pc'[q] = stage
    BY <1>1, Moves
  <2>2. sent[q].op \in {"favorite", "unfavorite"} /\ StagedAt(q)
    BY <1>1, <1>3, <1>7 DEF Favoring
  <2>3. ASSUME Fail(q, "notFound")
        PROVE  FavoredAt(r)'
    BY <1>7, <2>1, <2>3 DEF FavoredAt, Rereading
  <2>4. ASSUME answer' = answer, pc[q] # "done", ~Rereading(q)'
        PROVE  FavoredAt(r)'
    BY <1>7, <2>2, <2>4 DEF FavoredAt, StagedAt, Pending
  <2>5. ASSUME answer' = answer, pc[q] # "done", UNCHANGED <<sent, task>>,
               FavoriteOf(q) \in favorites' <=> sent[q].op = "favorite"
        PROVE  FavoredAt(r)'
    <3>1. answer'[q].status = "pending"
      BY <2>2, <2>5 DEF StagedAt, Pending
    <3>2. FavoriteOf(q)' = FavoriteOf(q)
      BY <2>5 DEF FavoriteOf
    <3>3. QED
      BY <1>7, <2>5, <3>1, <3>2 DEF FavoredAt, Settled
  <2>6. CASE Find(q)
    <3>1. ASSUME NEW a \in Under(sent[q].slug), Goto(q, NextStage[sent[q].op]), answer' = answer
          PROVE  FavoredAt(r)'
      <4>1. ~Rereading(q)' /\ pc[q] # "done"
        <5>1. pc[q] = "arrived" /\ pc'[q] = NextStage[sent[q].op]
          BY <2>1, <2>6, <3>1 DEF Find
        <5>2. pc'[q] \in {"selectingFavorite", "deletingFavorite"}
          BY <2>2, <5>1 DEF NextStage
        <5>3. QED
          BY <5>1, <5>2 DEF Rereading
      <4>2. QED
        BY <2>4, <3>1, <4>1
    <3>2. QED
      BY <1>1, <2>2, <2>3, <2>6, <3>1, FindCases
  <2>7. CASE SelectFavorite(q)
    <3>1. /\ pc[q] = "selectingFavorite" /\ UNCHANGED <<sent, task, tables, answer>>
          /\ FavoriteOf(q) \notin favorites => ~Rereading(q)'
      BY <2>1, <2>7 DEF SelectFavorite, Rereading
    <3>2. CASE FavoriteOf(q) \in favorites
      BY <2>2, <2>5, <3>1, <3>2 DEF StagedAt, tables
    <3>3. CASE FavoriteOf(q) \notin favorites
      BY <2>4, <3>1, <3>3
    <3>4. QED
      BY <3>2, <3>3
  <2>8. CASE InsertFavorite(q)
    <3>1. CASE Favors(q)
      <4>1. /\ answer' = answer /\ pc[q] = "insertingFavorite" /\ UNCHANGED <<sent, task>>
            /\ FavoriteOf(q) \in favorites'
        BY <3>1 DEF Favors
      <4>2. sent[q].op = "favorite"
        BY <2>2, <4>1 DEF StagedAt
      <4>3. QED
        BY <2>5, <4>1, <4>2
    <3>2. QED
      BY <2>3, <2>8, <3>1 DEF InsertFavorite, Favors
  <2>9. CASE DeleteFavorite(q)
    <3>1. /\ answer' = answer /\ pc[q] = "deletingFavorite" /\ UNCHANGED <<sent, task>>
          /\ FavoriteOf(q) \notin favorites'
      BY <2>9 DEF DeleteFavorite
    <3>2. sent[q].op = "unfavorite"
      BY <2>2, <3>1 DEF StagedAt
    <3>3. QED
      BY <2>5, <3>1, <3>2
  <2>10. CASE Reread(q)
    <3>1. ASSUME NEW a \in Present,
                 task'[q] = [task[q] EXCEPT !.shown = a],
                 Goto(q, "readingFavorites"), answer' = answer
          PROVE  FavoredAt(r)'
      <4>1. /\ pc[q] = "rereading" /\ pc'[q] = "readingFavorites"
            /\ UNCHANGED <<favorites, articles>>
        BY <2>1, <2>10, <3>1 DEF Reread, Fail, tables
      <4>2. /\ answer'[q].status = "pending" /\ task[q].target \in Ids
            /\ task'[q].target = task[q].target
        BY <1>1, <2>2, <3>1, <4>1 DEF StagedAt, Pending, TypeOK, Tasks
      <4>3. FavoriteOf(q)' = FavoriteOf(q)
        BY <1>2, <4>2 DEF FavoriteOf
      <4>4. ~Opposed(q)' => Settled(q)
        BY <1>4, <1>5, <1>7, <4>1, <4>2 DEF FavoredAt, Rereading
      <4>5. Settled(q) => Settled(q)'
        BY <1>2, <4>1, <4>2, <4>3 DEF Settled
      <4>6. QED
        BY <1>7, <4>2, <4>4, <4>5 DEF FavoredAt
    <3>2. QED
      BY <1>1, <2>3, <2>10, <3>1, RereadEffect
  <2>13. CASE ReadFavorites(q)
    <3> DEFINE a == task[q].shown
    <3>1. /\ pc[q] = "readingFavorites" /\ pc'[q] = "done" /\ answer'[q] = Showing(q, a)
          /\ UNCHANGED <<task, articles, favorites>>
      BY <2>1, <2>13 DEF ReadFavorites, tables
    <3>2. /\ answer'[q].status = "ok" /\ answer'[q].article = a
          /\ answer'[q].favorited = (<<sent[q].user, a>> \in favorites)
      BY <3>1 DEF Showing
    <3>3. Rereading(q) /\ task[q].target \in Ids
      BY <2>2, <3>1 DEF Rereading, StagedAt
    <3>4. ASSUME ~Opposed(q)', a = task[q].target
          PROVE  /\ answer'[q].favorited => sent[q].op = "favorite"
                 /\ sent[q].op = "favorite" /\ articles[task[q].target] # None =>
                      answer'[q].favorited
      <4>1. Settled(q)
        BY <1>4, <1>5, <1>7, <3>3, <3>4 DEF FavoredAt
      <4>2. FavoriteOf(q) = <<sent[q].user, a>>
        BY <3>4 DEF FavoriteOf
      <4>3. QED
        BY <3>2, <4>1, <4>2 DEF Settled
    <3>5. ~Rereading(q)'
      BY <3>1 DEF Rereading
    <3>6. QED
      BY <1>2, <1>7, <3>1, <3>2, <3>3, <3>4, <3>5 DEF FavoredAt
  <2>11. CASE \/ Begin(q) \/ ReadOwnTags(q) \/ ReadTags(q) \/ Retry(q) \/ Abandon(q)
              \/ Store(q) \/ Delete(q)
    BY <2>2, <2>11
       DEF Begin, ReadOwnTags, ReadTags, Retry, Abandon, Store, Delete, StagedAt, Composing
  <2>12. CASE InsertComment(q) \/ RereadComment(q) \/ FindComment(q) \/ DeleteComment(q) \/ Looks(q)
    BY <2>2, <2>12 DEF InsertComment, RereadComment, FindComment, DeleteComment, Looks, StagedAt
  <2>14. QED
    BY <2>6, <2>7, <2>8, <2>9, <2>10, <2>11, <2>12, <2>13 DEF Step, Write, Favor, Discuss
<1>8. QED
  BY <1>6, <1>7

LEMMA InitFavored == Init => Favored
BY ConstantAssumption DEF Init, Favored, FavoredAt, Pending, Rereading

LEMMA FavoredStutter ==
    ASSUME Favored, UNCHANGED vars
    PROVE  Favored'
BY DEF Favored, FavoredAt, Favoring, Opposed, FavoriteOf, Settled, Rereading, vars

\* What the property says follows from the invariant.
LEMMA FavoredAnswers == Favored => FavoriteAnswersAsAsked
BY DEF Favored, FavoredAt, Favoring, Opposed, FavoriteAnswersAsAsked, Present

\* REQ-ARTICLE-009: favouring is never a 500, and the answer shows the article
\* as asked, while it is there, unless the same reader asked the opposite
\* meanwhile.
THEOREM FavoriteAnswersAsAskedHolds == Spec => []FavoriteAnswersAsAsked
<1>1. IInv /\ Favored /\ [Next]_vars => Favored'
  BY FavoredStep, FavoredStutter DEF Next
<1>2. QED
  BY InitFavored, <1>1, FavoredAnswers, Invariance, PTL DEF Spec

-----------------------------------------------------------------------------
(* The attempts at a slug *)

\* A request that has written is done with its draft.
LEMMA WritersStay ==
    ASSUME IInv, NEW q \in Requests, Step(q) \/ Looks(q), NEW p \in Writers
    PROVE  /\ p \in Writers'
           /\ task'[p].target = task[p].target
           /\ task'[p].written = task[p].written
           /\ task'[p].draft = task[p].draft
<1>1. TypeOK /\ Requested /\ Staged /\ p \in Requests /\ task[p].written # None
  BY DEF IInv, Writers
<1>2. CASE p # q
  BY <1>1, <1>2, StepFrame DEF Writers
<1>3. CASE p = q
  BY <1>1, <1>3, TaskEffect DEF Writers, BlankTask
<1>4. QED
  BY <1>2, <1>3

\* An article that has had a slug has had it for good.
LEMMA TakenStays ==
    ASSUME IInv, NEW q \in Requests, Step(q) \/ Looks(q),
           NEW r \in Requests, task'[r].target = task[r].target,
           NEW slug \in Slugs, OnceTaken(r, slug)
    PROVE  OnceTaken(r, slug)'
<1>1. Destination(r)' = Destination(r)
  BY StepFrame DEF IInv, Destination
<1>2. \A p \in Requests : task[p].written = slug => p \in Writers
  BY ConstantAssumption DEF Writers
<1>3. QED
  BY <1>1, <1>2, WritersStay DEF OnceTaken, Writers

\* Whoever stands in the way now.
LEMMA TakenNow ==
    ASSUME Retried, NEW q \in Requests, SlugTaken(q)
    PROVE  OnceTaken(q, Candidate(task[q].draft.slug, task[q].attempt))
<1>1. PICK a \in Present : /\ articles[a].slug = Candidate(task[q].draft.slug, task[q].attempt)
                           /\ a # Destination(q)
  BY DEF SlugTaken, Under
<1>2. Traced(a)
  BY DEF Retried
<1>3. QED
  BY <1>1, <1>2 DEF Traced, OnceTaken, Writers

\* What a 500 comes from: the last candidate is taken, or a tag is.
LEMMA FailureStep ==
    ASSUME IInv, NEW q \in Requests, Step(q) \/ Looks(q), answer'[q].status = "failed"
    PROVE  /\ pc[q] = "storing" /\ task' = task
           /\ \/ Retry(q) /\ task[q].attempt = MaxAttempts
              \/ Abandon(q) /\ TagTaken(q)
<1>1. /\ TypeOK /\ Requested /\ Staged /\ StagedAt(q)
      /\ pc \in [Requests -> Stages] /\ answer \in [Requests -> Answers]
  BY DEF IInv, Staged, TypeOK
<1>2. /\ \A a : Reply(q, a) => answer'[q] = a
      /\ \A status : Fail(q, status) => answer'[q].status = status
  BY <1>1, Moves
<1>3. pc[q] # "done"
  BY DEF Step, Write, Favor, Discuss, Begin, Find, ReadOwnTags, ReadTags, Retry, Abandon,
     Store, Reread, ReadFavorites, Delete, SelectFavorite, InsertFavorite, DeleteFavorite,
     InsertComment, RereadComment, FindComment, DeleteComment, Looks
<1>4. answer' # answer
  BY <1>1, <1>3 DEF StagedAt, Pending
<1>5. /\ ~Fail(q, "notFound") /\ ~Fail(q, "forbidden") /\ ~Reply(q, Done)
      /\ \A a : ~Reply(q, Showing(q, a))
  BY <1>2 DEF Done, Showing
<1>6. CASE Retry(q)
  <2>1. ~(task[q].attempt < MaxAttempts) /\ task' = task /\ pc[q] = "storing"
    BY <1>4, <1>6 DEF Retry, Fail
  <2>2. task[q].attempt \in 1..MaxAttempts /\ MaxAttempts \in Nat
    BY <1>1, <2>1, ComposingTypes, ConstantAssumption DEF Composing
  <2>3. QED
    BY <1>6, <2>1, <2>2
<1>7. CASE Abandon(q)
  BY <1>5, <1>7 DEF Abandon, Fail
<1>8. CASE Begin(q) \/ ReadOwnTags(q) \/ ReadTags(q) \/ Store(q) \/ ReadFavorites(q)
  BY <1>4, <1>5, <1>8 DEF Begin, ReadOwnTags, ReadTags, Store, Put, ReadFavorites
<1>9. CASE Find(q) \/ Reread(q)
  BY <1>1, <1>4, <1>5, <1>9, FindCases, RereadEffect
<1>10. CASE Delete(q) \/ SelectFavorite(q) \/ InsertFavorite(q) \/ DeleteFavorite(q)
  BY <1>4, <1>5, <1>10 DEF Delete, SelectFavorite, InsertFavorite, DeleteFavorite
<1>11. CASE InsertComment(q) \/ RereadComment(q) \/ FindComment(q) \/ DeleteComment(q) \/ Looks(q)
  BY <1>4, <1>5, <1>11 DEF InsertComment, RereadComment, FindComment, DeleteComment, Looks
<1>12. QED
  BY <1>6, <1>7, <1>8, <1>9, <1>10, <1>11 DEF Step, Write, Favor, Discuss

LEMMA RetriedStep ==
    ASSUME IInv, Retried, NEW q \in Requests, Step(q) \/ Looks(q)
    PROVE  Retried'
<1>1. /\ TypeOK /\ Requested /\ Staged /\ StagedAt(q) /\ task[q] \in Tasks
      /\ pc \in [Requests -> Stages] /\ answer \in [Requests -> Answers]
  BY DEF IInv, Staged, TypeOK
<1>2. /\ sent' = sent
      /\ \A h \in Requests : h # q => pc'[h] = pc[h] /\ task'[h] = task[h]
  BY <1>1, StepFrame
<1>3. Store(q) => /\ q \in Writers' /\ task'[q].written = Stored(q).slug
                  /\ task'[q].target = Destination(q) /\ task'[q].draft = task[q].draft
  BY <1>1, StoreTask, StoreEffect, RowFields DEF Writers
<1>4. ASSUME NEW a \in Present'
      PROVE  Traced(a)'
  <2>1. a \in Ids /\ articles'[a] # None
    BY DEF Present
  <2>2. CASE articles'[a] = articles[a]
    <3>1. Traced(a)
      BY <2>1, <2>2 DEF Retried, Present
    <3>2. QED
      BY <2>2, <3>1, WritersStay DEF Traced
  <2>3. CASE Store(q) /\ articles'[a] = Stored(q) /\ a = Destination(q)
    BY <1>3, <2>3 DEF Traced
  <2>4. CASE Store(q)
    BY <1>1, <2>1, <2>2, <2>3, <2>4, StoreEffect
  <2>5. CASE Erases(q)
    BY <1>1, <2>1, <2>2, <2>5, EraseEffect
  <2>6. QED
    BY <2>2, <2>4, <2>5, TablesEffect DEF tables, Favors, DeleteFavorite, Comments, Withdraws
<1>5. ASSUME NEW t \in tags'
      PROVE  t \in tags \/ \E p \in Writers' : t \in task'[p].draft.tags
  <2>1. CASE Store(q)
    BY <1>1, <1>3, <2>1, StoreEffect
  <2>2. CASE tags' = tags
    BY <2>2
  <2>3. QED
    BY <2>1, <2>2, TablesEffect DEF tables, Erases, Favors, DeleteFavorite, Comments, Withdraws
<1>6. ASSUME NEW r \in Requests, r # q
      PROVE  RetriedAt(r)'
  <2>1. pc'[r] = pc[r] /\ task'[r] = task[r] /\ answer'[r] = answer[r] /\ RetriedAt(r)
    BY <1>1, <1>6, StepFrame DEF Retried
  <2>2. ASSUME Composing(r)', NEW k \in 1..(task'[r].attempt - 1)
        PROVE  OnceTaken(r, Candidate(task[r].draft.slug, k))'
    <3>1. OnceTaken(r, Candidate(task[r].draft.slug, k)) /\ Composing(r)
      BY <2>1, <2>2 DEF RetriedAt, Composing
    <3>2. PICK slug : slug = Candidate(task[r].draft.slug, k)
      OBVIOUS
    <3>3. slug \in Slugs
      BY <1>1, <3>1, <3>2, ComposingTypes, CandidateType
    <3>4. OnceTaken(r, slug)'
      BY <2>1, <3>1, <3>2, <3>3, TakenStays
    <3>5. QED
      BY <2>1, <3>2, <3>4 DEF OnceTaken, Destination
  <2>3. ASSUME pc'[r] = "storing", NEW t \in tags'
        PROVE  t \in task'[r].known \/ \E p \in Writers' : t \in task'[p].draft.tags
    BY <1>5, <2>1, <2>3, WritersStay DEF RetriedAt
  <2>4. answer'[r].status = "failed" => task'[r].draft \in Rows
    BY <2>1 DEF RetriedAt
  <2>5. QED
    BY <2>2, <2>3, <2>4 DEF RetriedAt
<1>7. RetriedAt(q)'
  <2>1. /\ \A a : Reply(q, a) => pc'[q] = "done"
        /\ \A status : Fail(q, status) => pc'[q] = "done"
        /\ \A stage : Goto(q, stage) => pc'[q] = stage
    BY <1>1, Moves
  <2>2. answer'[q].status = "failed" => task'[q].draft \in Rows
    BY <1>1, FailureStep, ComposingTypes DEF Composing
  <2>3. ASSUME Composing(q), NEW k \in Nat,
                OnceTaken(q, Candidate(task[q].draft.slug, k)),
                task'[q].target = task[q].target, task'[q].draft = task[q].draft
         PROVE  OnceTaken(q, Candidate(task[q].draft.slug, k))'
    <3>1. PICK slug : slug = Candidate(task[q].draft.slug, k)
      OBVIOUS
    <3>2. slug \in Slugs
      BY <1>1, <2>3, <3>1, ComposingTypes, CandidateType
    <3>3. OnceTaken(q, slug)'
      BY <2>3, <3>1, <3>2, TakenStays
    <3>4. slug = Candidate(task'[q].draft.slug, k)
      BY <2>3, <3>1
    <3>5. QED
      BY <3>3, <3>4 DEF OnceTaken, Destination
  <2>4. CASE pc'[q] \notin {"readingTags", "storing"}
    BY <2>4, <2>2 DEF RetriedAt, Composing
  <2>5. CASE Begin(q) \/ Find(q)
    <3>1. pc[q] = "arrived" /\ task[q].attempt = 1
      <4>1. pc[q] = "arrived"
        BY <2>5 DEF Begin, Find
      <4>2. QED
        BY <1>1, <4>1 DEF StagedAt, BlankTask
    <3>2. task'[q].attempt = 1 \/ pc'[q] = "done"
      <4>1. CASE Begin(q)
        BY <1>1, <3>1, <4>1 DEF Begin, TypeOK, Tasks
      <4>2. CASE Find(q)
        <5>1. \A a : Found(q, a).attempt = 1
          BY <1>1, <3>1 DEF Found, Tasks
        <5>2. \A a : task' = [task EXCEPT ![q] = Found(q, a)] => task'[q].attempt = 1
          BY <1>1, <5>1 DEF TypeOK
        <5>3. QED
          BY <1>1, <2>1, <4>2, <5>2, FindCases
      <4>3. QED
        BY <2>5, <4>1, <4>2
    <3>3. pc'[q] # "storing"
      <4>1. CASE Begin(q)
        BY <2>1, <4>1 DEF Begin
      <4>2. CASE Find(q)
        <5>1. sent[q].op \in DOMAIN NextStage
          BY <4>2 DEF Find
        <5>2. NextStage[sent[q].op] # "storing"
          BY <5>1 DEF NextStage
        <5>3. QED
          BY <1>1, <2>1, <4>2, <5>2, FindCases
      <4>3. QED
        BY <2>5, <4>1, <4>2
    <3>4. QED
      BY <2>2, <3>2, <3>3 DEF RetriedAt, Composing
  <2>6. CASE ReadTags(q)
    <3>1. /\ pc[q] = "readingTags" /\ tags' = tags
          /\ task'[q] = [task[q] EXCEPT !.known = tags]
      BY <1>1, <2>6 DEF ReadTags, TypeOK, tables
    <3>2. /\ task'[q].known = tags /\ task'[q].attempt = task[q].attempt
          /\ task'[q].draft = task[q].draft /\ task'[q].target = task[q].target
          /\ Composing(q) /\ 1..(task[q].attempt - 1) \subseteq Nat
      BY <1>1, <3>1 DEF Tasks, Composing
    <3>3. \A k \in 1..(task[q].attempt - 1) : OnceTaken(q, Candidate(task[q].draft.slug, k))
      BY <3>1 DEF Retried, RetriedAt, Composing
    <3>4. \A k \in 1..(task[q].attempt - 1) : OnceTaken(q, Candidate(task[q].draft.slug, k))'
      BY <2>3, <3>2, <3>3
    <3>5. QED
      BY <2>2, <3>1, <3>2, <3>4 DEF RetriedAt
  <2>7. CASE Retry(q) /\ task[q].attempt < MaxAttempts
    <3>1. /\ pc[q] = "storing" /\ pc'[q] = "readingTags" /\ SlugTaken(q)
          /\ task'[q] = [task[q] EXCEPT !.attempt = task[q].attempt + 1]
      BY <1>1, <2>1, <2>7 DEF Retry, TypeOK
    <3>2. /\ task'[q].attempt = task[q].attempt + 1 /\ task[q].attempt \in Nat
          /\ task'[q].draft = task[q].draft /\ task'[q].target = task[q].target
          /\ Composing(q) /\ 1..task[q].attempt \subseteq Nat
      BY <1>1, <3>1, ConstantAssumption DEF Tasks, Composing
    <3>3. \A k \in 1..(task[q].attempt - 1) : OnceTaken(q, Candidate(task[q].draft.slug, k))
      BY <3>1 DEF Retried, RetriedAt, Composing
    <3>4. OnceTaken(q, Candidate(task[q].draft.slug, task[q].attempt))
      BY <3>1, TakenNow
    <3>5. \A k \in 1..task[q].attempt : OnceTaken(q, Candidate(task[q].draft.slug, k))
      <4>1. \A k \in 1..task[q].attempt : k = task[q].attempt \/ k \in 1..(task[q].attempt - 1)
        BY <3>2
      <4>2. QED
        BY <3>3, <3>4, <4>1
    <3>6. task'[q].attempt - 1 = task[q].attempt
      BY <3>2
    <3>7. \A k \in 1..task[q].attempt : OnceTaken(q, Candidate(task[q].draft.slug, k))'
      BY <2>3, <3>2, <3>5
    <3>8. QED
      BY <2>2, <3>1, <3>2, <3>6, <3>7 DEF RetriedAt
  <2>8. CASE \/ Abandon(q) \/ Store(q) \/ Reread(q) \/ ReadFavorites(q)
             \/ Retry(q) /\ ~(task[q].attempt < MaxAttempts)
    BY <2>1, <2>4, <2>8 DEF Abandon, Store, Put, Reread, ReadFavorites, Retry
  <2>9. CASE Delete(q) \/ SelectFavorite(q) \/ InsertFavorite(q) \/ DeleteFavorite(q)
    BY <2>1, <2>4, <2>9 DEF Delete, SelectFavorite, InsertFavorite, DeleteFavorite
  <2>10. CASE InsertComment(q) \/ RereadComment(q) \/ FindComment(q) \/ DeleteComment(q) \/ Looks(q)
    BY <2>1, <2>4, <2>10 DEF InsertComment, RereadComment, FindComment, DeleteComment, Looks
  <2>11. CASE ReadOwnTags(q)
    <3>1. task'[q].attempt = 1 /\ pc'[q] = "readingTags"
      BY <1>1, <2>1, <2>11, OwnTagsEffect
    <3>2. QED
      BY <2>2, <3>1 DEF RetriedAt, Composing
  <2>12. QED
    BY <2>5, <2>6, <2>7, <2>8, <2>9, <2>10, <2>11 DEF Step, Write, Favor, Discuss
<1>8. QED
  BY <1>4, <1>6, <1>7 DEF Retried

LEMMA InitRetried == Init => Retried
<1> SUFFICES ASSUME Init PROVE Retried
  OBVIOUS
<1>1. \A a \in Present : a \in Seeds /\ articles[a] = SeedRow[a]
  BY DEF Init, Present
<1>2. QED
  BY <1>1 DEF Init, Retried, RetriedAt, Composing, Traced, Pending

LEMMA RetriedStutter ==
    ASSUME Retried, UNCHANGED vars
    PROVE  Retried'
BY DEF Retried, RetriedAt, Composing, OnceTaken, Destination, Traced, Writers, Present, vars

LEMMA FailsOnlyStep ==
    ASSUME IInv, Retried, FailsOnlyOnTagRaceOrExhaustion, NEW q \in Requests, Step(q) \/ Looks(q)
    PROVE  FailsOnlyOnTagRaceOrExhaustion'
<1>1. TypeOK /\ Requested /\ Staged /\ StagedAt(q)
  BY DEF IInv, Staged
<1>2. SUFFICES ASSUME NEW r \in Requests, answer'[r].status = "failed"
               PROVE  \/ TagRace(r)'
                      \/ \A k \in 1..MaxAttempts : OnceTaken(r, Candidate(task[r].draft.slug, k))'
  BY DEF FailsOnlyOnTagRaceOrExhaustion
<1>3. ASSUME TagRace(r), task'[r].draft = task[r].draft
      PROVE  TagRace(r)'
  <2>1. PICK p \in Requests \ {r}, t \in Tags :
                task[p].written # None /\ t \in task[p].draft.tags /\ t \in task[r].draft.tags
    BY <1>3 DEF TagRace
  <2>2. p \in Writers
    BY <2>1 DEF Writers
  <2>3. task'[p].written # None /\ task'[p].draft = task[p].draft
    BY <2>1, <2>2, WritersStay
  <2>4. QED
    BY <1>3, <2>1, <2>3 DEF TagRace
<1>4. ASSUME \A k \in 1..MaxAttempts : OnceTaken(r, Candidate(task[r].draft.slug, k)),
             task[r].draft \in Rows, task'[r] = task[r]
      PROVE  \A k \in 1..MaxAttempts : OnceTaken(r, Candidate(task[r].draft.slug, k))'
  <2>1. SUFFICES ASSUME NEW k \in 1..MaxAttempts
                 PROVE  OnceTaken(r, Candidate(task[r].draft.slug, k))'
    OBVIOUS
  <2>2. PICK slug : slug = Candidate(task[r].draft.slug, k)
    OBVIOUS
  <2>3. slug \in Slugs
    BY <1>4, <2>2, RowFields, CandidateType, ConstantAssumption
  <2>4. OnceTaken(r, slug)'
    BY <1>4, <2>2, <2>3, TakenStays
  <2>5. slug = Candidate(task'[r].draft.slug, k)
    BY <1>4, <2>2
  <2>6. QED
    BY <2>4, <2>5 DEF OnceTaken, Destination
<1>5. CASE r # q
  <2>1. answer[r].status = "failed" /\ task'[r] = task[r]
    BY <1>1, <1>2, <1>5, StepFrame
  <2>2. task[r].draft \in Rows
    BY <2>1 DEF Retried, RetriedAt
  <2>3. QED
    BY <1>3, <1>4, <2>1, <2>2 DEF FailsOnlyOnTagRaceOrExhaustion
<1>6. CASE r = q
  <2>1. pc[q] = "storing" /\ task' = task /\ Composing(q)
    BY <1>2, <1>6, FailureStep DEF Composing
  <2>2. /\ task[q].draft \in Rows /\ task[q].written = None
        /\ task[q].attempt \in Nat /\ MaxAttempts \in Nat
    BY <1>1, <2>1, ComposingTypes, ConstantAssumption DEF StagedAt, Rereading
  <2>3. CASE Retry(q) /\ task[q].attempt = MaxAttempts
    <3>1. OnceTaken(q, Candidate(task[q].draft.slug, MaxAttempts))
      BY <2>3, TakenNow DEF Retry
    <3>2. \A k \in 1..(MaxAttempts - 1) : OnceTaken(q, Candidate(task[q].draft.slug, k))
      BY <2>1, <2>3 DEF Retried, RetriedAt
    <3>3. \A k \in 1..MaxAttempts : k = MaxAttempts \/ k \in 1..(MaxAttempts - 1)
      BY <2>2
    <3>4. \A k \in 1..MaxAttempts : OnceTaken(q, Candidate(task[q].draft.slug, k))
      BY <3>1, <3>2, <3>3
    <3>5. QED
      BY <1>4, <1>6, <2>1, <2>2, <3>4
  <2>4. CASE Abandon(q) /\ TagTaken(q)
    <3>1. PICK t \in task[q].draft.tags : t \notin task[q].known /\ t \in tags
      BY <2>4 DEF TagTaken
    <3>2. PICK p \in Writers : t \in task[p].draft.tags
      BY <2>1, <3>1 DEF Retried, RetriedAt
    <3>3. t \in Tags /\ p \in Requests \ {q} /\ task[p].written # None
      BY <1>1, <2>2, <3>1, <3>2 DEF TypeOK, Writers
    <3>4. TagRace(q)
      BY <3>1, <3>2, <3>3 DEF TagRace
    <3>5. QED
      BY <1>3, <1>6, <2>1, <3>4
  <2>5. QED
    BY <1>2, <1>6, <2>3, <2>4, FailureStep
<1>7. QED
  BY <1>5, <1>6

LEMMA InitFailsOnly == Init => FailsOnlyOnTagRaceOrExhaustion
BY DEF Init, FailsOnlyOnTagRaceOrExhaustion, Pending

LEMMA FailsOnlyStutter ==
    ASSUME FailsOnlyOnTagRaceOrExhaustion, UNCHANGED vars
    PROVE  FailsOnlyOnTagRaceOrExhaustion'
BY DEF FailsOnlyOnTagRaceOrExhaustion, TagRace, OnceTaken, Destination, vars

\* ADR 010: a write gives up only once each of the MAX_SLUG_ATTEMPTS candidates
\* of its base has been another article's, however many articles there are; its
\* other 500 is the one of a tag that two writes introduce at once.
THEOREM FailsOnlyOnTagRaceOrExhaustionHolds == Spec => []FailsOnlyOnTagRaceOrExhaustion
<1>1. Init => IInv /\ Retried /\ FailsOnlyOnTagRaceOrExhaustion
  BY InitIInv, InitRetried, InitFailsOnly
<1>2. IInv /\ Retried /\ FailsOnlyOnTagRaceOrExhaustion /\ [Next]_vars
        => IInv' /\ Retried' /\ FailsOnlyOnTagRaceOrExhaustion'
  BY IInvStep, IInvStutter, RetriedStep, RetriedStutter, FailsOnlyStep, FailsOnlyStutter DEF Next
<1>3. QED
  BY <1>1, <1>2, PTL DEF Spec

=============================================================================
