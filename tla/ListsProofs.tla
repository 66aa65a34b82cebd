------------------------------ MODULE ListsProofs -----------------------------
(***************************************************************************)
(* What holds of Lists, and so of the whole of the articles: the theorems  *)
(* of ArticlesProofs once lists are read between the writes, and what a    *)
(* list that no write disturbs adds up to.                                 *)
(***************************************************************************)
EXTENDS Lists, ArticlesProofs, FiniteSetTheorems, SequenceTheorems

-----------------------------------------------------------------------------
(* Lists and the invariants of Articles *)

\* To Articles, a step of Lists is one of its own or one that writes no table.
LEMMA ListStepLooks ==
    ASSUME IInv, NEW q \in Requests, ListStep(q)
    PROVE  Step(q) \/ Looks(q)
<1>1. StagedAt(q)
  BY DEF IInv, Staged
<1>2. CASE SelectPage(q)
  BY <1>2 DEF SelectPage, Reads, Looks
<1>3. CASE Relate(q)
  BY <1>1, <1>3 DEF Relate, Reads, Looks, StagedAt
<1>4. CASE Count(q)
  BY <1>1, <1>4 DEF Count, Reads, Looks, StagedAt
<1>5. QED
  BY <1>2, <1>3, <1>4 DEF ListStep

LEMMA ListsStep ==
    ASSUME IInv, [ListsNext]_listVars
    PROVE  (\E q \in Requests : Step(q) \/ Looks(q)) \/ UNCHANGED vars
BY ListStepLooks DEF ListsNext, listVars

\* The invariant of Articles holds while lists are read.
THEOREM ListsInvariance == ListsSpec => []IInv
<1>1. ListsInit => IInv
  BY InitIInv DEF ListsInit
<1>2. IInv /\ [ListsNext]_listVars => IInv'
  BY ListsStep, IInvStep, IInvStutter
<1>3. QED
  BY <1>1, <1>2, PTL DEF ListsSpec

\* ADR 010: a slug designates one article.
THEOREM ListsOneArticlePerSlug == ListsSpec => []OneArticlePerSlug
<1>1. IInv => OneArticlePerSlug
  BY DEF IInv
<1>2. QED
  BY <1>1, ListsInvariance, PTL

\* AC-2 of REQ-ARTICLE-006: no comment and no favourite outlives its article.
THEOREM ListsNoOrphans == ListsSpec => []NoOrphans
<1>1. IInv => NoOrphans
  BY DEF IInv
<1>2. QED
  BY <1>1, ListsInvariance, PTL

\* REQ-ARTICLE-009: an answer shows the favourite as it was asked.
THEOREM ListsFavoriteAnswersAsAsked == ListsSpec => []FavoriteAnswersAsAsked
<1>1. ListsInit => Favored
  BY InitFavored DEF ListsInit
<1>2. IInv /\ Favored /\ [ListsNext]_listVars => Favored'
  BY ListsStep, FavoredStep, FavoredStutter
<1>3. QED
  BY <1>1, <1>2, FavoredAnswers, ListsInvariance, PTL DEF ListsSpec

\* ADR 010: a write gives up only once each candidate of its base has been
\* another article's, or on a tag that two writes introduce at once.
THEOREM ListsFailsOnly == ListsSpec => []FailsOnlyOnTagRaceOrExhaustion
<1>1. ListsInit => Retried /\ FailsOnlyOnTagRaceOrExhaustion
  BY InitRetried, InitFailsOnly DEF ListsInit
<1>2. IInv /\ Retried /\ FailsOnlyOnTagRaceOrExhaustion /\ [ListsNext]_listVars
        => Retried' /\ FailsOnlyOnTagRaceOrExhaustion'
  BY ListsStep, RetriedStep, RetriedStutter, FailsOnlyStep, FailsOnlyStutter
<1>3. QED
  BY <1>1, <1>2, ListsInvariance, PTL DEF ListsSpec

\* AC-1 and AC-3 of REQ-ARTICLE-005, as far as they hold.
THEOREM ListsUndisturbedUpdate == ListsSpec => UndisturbedUpdateIsPartial
<1>1. IInv /\ [ListsNext]_listVars
        => [\A q \in Requests :
              /\ sent[q].op = "update" /\ pc[q] = "storing"
              /\ articles[task[q].target] = task[q].read
              => LET old == task[q].read
                     new == articles'[task[q].target]
                 IN  /\ pc'[q] = "rereading" =>
                          \A field \in {"title", "text", "tags"} :
                              new[field] = Given(sent[q][field], old[field])
                     /\ task[q].attempt = 1 /\ Given(sent[q].title, old.title) = old.title =>
                          /\ pc'[q] # "readingTags"
                          /\ pc'[q] = "rereading" => new.slug = old.slug]_vars
  BY ListsStep, UpdateStep
<1>2. QED
  BY <1>1, ListsInvariance, PTL DEF ListsSpec, UndisturbedUpdateIsPartial

\* AC-4 of REQ-COMMENT-004: a comment leaves with its article, or through the
\* URL of its article at the request of its author.
THEOREM ListsCommentDeletedInItsThread == ListsSpec => CommentDeletedInItsThread
<1>1. IInv /\ [ListsNext]_listVars
        => [\A c \in Requests :
              comments[c] # None /\ comments'[c] # comments[c] =>
                  \/ articles'[comments[c].article] = None
                  \/ \E q \in Requests : /\ pc[q] = "deletingComment"
                                         /\ sent[q].comment = c
                                         /\ sent[q].user = comments[c].author
                                         /\ task[q].target = comments[c].article]_vars
  BY ListsStep, CommentStep
<1>2. QED
  BY <1>1, ListsInvariance, PTL DEF ListsSpec, CommentDeletedInItsThread

\* For whoever holds a link, the articles implement a Directory.
THEOREM ListsKeepsDirectory == ListsSpec => KeepsDirectory
<1>1. IInv /\ [ListsNext]_listVars => [Addresses!Next]_(Addresses!vars)
  BY ListsStep, DirectoryStep, DirectoryStutter
<1>2. ListsInit => Addresses!Init
  BY DirectoryInit DEF ListsInit
<1>3. QED
  BY <1>1, <1>2, ListsInvariance, PTL DEF ListsSpec, KeepsDirectory, Addresses!Spec

-----------------------------------------------------------------------------
(* Lemmas on orders and pages *)

LEMMA MinMaxTwo ==
    ASSUME NEW m \in Int, NEW n \in Int
    PROVE  /\ Min({m, n}) = IF m <= n THEN m ELSE n
           /\ Max({m, n}) = IF m >= n THEN m ELSE n
<1>1. \A x \in {m, n} : (\A y \in {m, n} : x <= y) => x = IF m <= n THEN m ELSE n
  OBVIOUS
<1>2. \E x \in {m, n} : \A y \in {m, n} : x <= y
  OBVIOUS
<1>3. \A x \in {m, n} : (\A y \in {m, n} : x >= y) => x = IF m >= n THEN m ELSE n
  OBVIOUS
<1>4. \E x \in {m, n} : \A y \in {m, n} : x >= y
  OBVIOUS
<1>5. QED
  BY <1>1, <1>2, <1>3, <1>4 DEF Min, Max

\* An order of a finite set is a sequence that has each of its elements once.
LEMMA OrderTypes ==
    ASSUME NEW S, IsFiniteSet(S), NEW s \in Orders(S)
    PROVE  /\ s \in Seq(S) /\ Len(s) = Cardinality(S) /\ Len(s) \in Nat
           /\ DOMAIN s = 1..Len(s)
           /\ \A i, j \in 1..Len(s) : s[i] = s[j] => i = j
           /\ \A x \in S : \E i \in 1..Len(s) : s[i] = x
<1> DEFINE n == Cardinality(S)
<1>1. n \in Nat
  BY FS_CardinalityType
<1>2. s \in [1..n -> S] /\ \A i, j \in 1..n : i # j => s[i] # s[j]
  <2>1. s \in SetToSeqs(S)
    BY DEF Orders
  <2>2. QED
    BY <2>1 DEF SetToSeqs
<1>3. s \in Seq(S) /\ Len(s) = n
  BY <1>1, <1>2
<1>4. s \in Injection(1..n, S)
  BY <1>2 DEF Injection, IsInjective
<1>5. IsFiniteSet(1..n) /\ Cardinality(1..n) = n
  BY <1>1, FS_Interval
<1>6. s \in Surjection(1..n, S)
  BY <1>4, <1>5, FS_Injection
<1>7. \A x \in S : \E i \in 1..n : s[i] = x
  BY <1>6 DEF Surjection
<1>8. QED
  BY <1>1, <1>2, <1>3, <1>7

LEMMA OffsetType ==
    ASSUME NEW url \in Pages
    PROVE  /\ PageFromParam(url.page) \in Nat \ {0}
           /\ OffsetForPage(PageFromParam(url.page)) \in Nat
<1>1. PageFromParam(url.page) \in Nat \ {0}
  BY DEF Pages, PageFromParam
<1>2. \A page \in Nat \ {0}, limit \in Nat : (page - 1) * limit \in Nat
  OBVIOUS
<1>3. QED
  BY <1>1, <1>2, ListAssumption DEF OffsetForPage

\* The last rank of a page, and its length.
LEMMA PageBounds ==
    ASSUME NEW len \in Nat, NEW offset \in Nat
    PROVE  /\ Min({offset + PageLimit, len})
                = IF offset + PageLimit <= len THEN offset + PageLimit ELSE len
           /\ Min({PageLimit, Max({0, len - offset})})
                = IF offset >= len THEN 0
                  ELSE IF offset + PageLimit <= len THEN PageLimit ELSE len - offset
<1>1. PageLimit \in Nat \ {0}
  BY ListAssumption
<1>2. PICK last \in Int : last = offset + PageLimit
  BY <1>1
<1>3. PICK rest \in Int : rest = len - offset
  OBVIOUS
<1>4. PICK most \in Int : most = Max({0, rest}) /\ most = IF 0 >= rest THEN 0 ELSE rest
  <2>1. PICK zero \in Int : zero = 0
    OBVIOUS
  <2>2. Max({zero, rest}) = IF zero >= rest THEN zero ELSE rest
    BY MinMaxTwo
  <2>3. Max({0, rest}) = IF 0 >= rest THEN 0 ELSE rest
    BY <2>1, <2>2
  <2>4. (IF 0 >= rest THEN 0 ELSE rest) \in Int
    OBVIOUS
  <2>5. QED
    BY <2>3, <2>4
<1>5. Min({last, len}) = IF last <= len THEN last ELSE len
  BY MinMaxTwo
<1>6. PICK limit \in Int : limit = PageLimit
  BY <1>1
<1>7. Min({limit, most}) = IF limit <= most THEN limit ELSE most
  BY MinMaxTwo
<1>8. Min({PageLimit, Max({0, len - offset})}) = Min({limit, most})
  BY <1>3, <1>4, <1>6
<1>9. QED
  <2>1. /\ Min({limit, most}) = IF offset >= len THEN 0
                  ELSE IF offset + PageLimit <= len THEN PageLimit ELSE len - offset
    BY <1>1, <1>3, <1>4, <1>6, <1>7
  <2>2. Min({offset + PageLimit, len})
                = IF offset + PageLimit <= len THEN offset + PageLimit ELSE len
    BY <1>2, <1>5
  <2>3. QED
    BY <1>8, <2>1, <2>2

\* What skip and take leave of a sequence.
LEMMA SelectInTypes ==
    ASSUME NEW S, NEW s \in Seq(S), NEW offset \in Nat
    PROVE  /\ SelectIn(s, offset) \in Seq(S)
           /\ Len(SelectIn(s, offset)) = Min({PageLimit, Max({0, Len(s) - offset})})
           /\ Len(SelectIn(s, offset)) \in Nat
           /\ DOMAIN SelectIn(s, offset) = 1..Len(SelectIn(s, offset))
           /\ \A i \in 1..Len(SelectIn(s, offset)) :
                /\ offset + i \in 1..Len(s)
                /\ SelectIn(s, offset)[i] = s[offset + i]
<1>1. Len(s) \in Nat /\ PageLimit \in Nat \ {0}
  BY ListAssumption
<1>2. PICK last \in Int : /\ last = Min({offset + PageLimit, Len(s)})
                          /\ last = IF offset + PageLimit <= Len(s) THEN offset + PageLimit
                                                                    ELSE Len(s)
  <2>1. PICK len \in Nat : len = Len(s)
    BY <1>1
  <2>2. Min({offset + PageLimit, len}) = IF offset + PageLimit <= len THEN offset + PageLimit
                                                                      ELSE len
    BY PageBounds
  <2>3. (IF offset + PageLimit <= len THEN offset + PageLimit ELSE len) \in Int
    BY <1>1
  <2>4. QED
    BY <2>1, <2>2, <2>3
<1>3. PICK first \in Int : first = offset + 1
  OBVIOUS
<1>4. \A i \in first..last : i \in 1..Len(s) /\ s[i] \in S
  BY <1>1, <1>2, <1>3
<1>5. PICK rows : rows = SelectIn(s, offset) /\ rows = SubSeq(s, first, last)
  BY <1>2, <1>3 DEF SelectIn
<1>6. /\ rows \in Seq(S)
      /\ Len(rows) = IF first <= last THEN last - first + 1 ELSE 0
      /\ \A i \in 1..(last - first + 1) : rows[i] = s[first + i - 1]
  BY <1>4, <1>5, SubSeqProperties
<1>7. Len(rows) = IF offset >= Len(s) THEN 0
                  ELSE IF offset + PageLimit <= Len(s) THEN PageLimit ELSE Len(s) - offset
  BY <1>1, <1>2, <1>3, <1>6
<1>8. Len(rows) = Min({PageLimit, Max({0, Len(s) - offset})})
  BY <1>1, <1>7, PageBounds
<1>9. ASSUME NEW i \in 1..Len(rows)
      PROVE  offset + i \in 1..Len(s) /\ rows[i] = s[offset + i]
  <2>1. i \in 1..(last - first + 1) /\ first + i - 1 = offset + i
    BY <1>1, <1>2, <1>3, <1>6
  <2>2. rows[i] = s[first + i - 1]
    BY <1>6, <2>1
  <2>3. i <= Len(s) - offset /\ i >= 1 /\ i \in Int
    BY <1>1, <1>2, <1>3, <2>1
  <2>4. QED
    BY <1>1, <2>1, <2>2, <2>3
<1>10. Len(rows) \in Nat /\ DOMAIN rows = 1..Len(rows)
  BY <1>6
<1>11. QED
  BY <1>5, <1>6, <1>8, <1>9, <1>10

-----------------------------------------------------------------------------
(* The inductive invariant of the lists *)

Readings == [rows: Seq(Ids), favorited: SUBSET Ids, total: Nat, steady: BOOLEAN]

\* A list under which nothing has been written since its first statement is,
\* for what has been read of it, a list of the tables as they are.
SteadyAt(q) ==
    /\ pc[q] \in {"relating", "counting", "done"} =>
         \E s \in Orders(Matching(q)) : lists[q].rows = SelectIn(s, Offset(q))
    /\ pc[q] \in {"counting", "done"} =>
         lists[q].favorited = {a \in ToSet(lists[q].rows) : <<sent[q].user, a>> \in favorites}
    /\ pc[q] = "done" => lists[q].total = Cardinality(Matching(q))

ReadAt(q) ==
    /\ lists[q].favorited \subseteq ToSet(lists[q].rows)
    /\ lists[q].total <= Cardinality(Ids)
    /\ pc[q] \in {"arrived", "relating"} => lists[q].favorited = {}
    /\ sent[q].op = "list" /\ lists[q].steady => SteadyAt(q)

LInv ==
    /\ born \in [Ids -> Nat]
    /\ lists \in [Requests -> Readings]
    /\ \A q \in Requests : ReadAt(q)

\* A request for a list does nothing else.
LEMMA ListsAlone ==
    ASSUME IInv, NEW q \in Requests, sent[q].op = "list"
    PROVE  ~Step(q)
<1>1. StagedAt(q)
  BY DEF IInv, Staged
<1>2. ~Begin(q) /\ ~Find(q) /\ ~ReadOwnTags(q)
  BY <1>1 DEF Begin, Find, ReadOwnTags, NextStage, StagedAt
<1>3. ~Write(q)
  BY <1>1
     DEF Write, ReadTags, Retry, Abandon, Store, Reread, ReadFavorites, StagedAt, Composing,
         Rereading
<1>4. ~Delete(q) /\ ~Favor(q)
  BY <1>1 DEF Delete, Favor, SelectFavorite, InsertFavorite, DeleteFavorite, StagedAt
<1>5. ~Discuss(q)
  BY <1>1 DEF Discuss, InsertComment, RereadComment, FindComment, DeleteComment, StagedAt
<1>6. QED
  BY <1>2, <1>3, <1>4, <1>5 DEF Step

\* The feed of a list and its orders depend on the tables and the dates alone.
LEMMA Frozen ==
    ASSUME UNCHANGED <<sent, tables, born>>, NEW q \in Requests
    PROVE  /\ Matching(q)' = Matching(q)
           /\ Orders(Matching(q))' = Orders(Matching(q))
           /\ Offset(q)' = Offset(q)
<1>1. UNCHANGED <<sent, articles, favorites, born>>
  BY DEF tables
<1>2. Matching(q)' = Matching(q)
  BY <1>1 DEF Matching, Selects, Present
<1>3. Orders(Matching(q))' = Orders(Matching(q))
  BY <1>1, <1>2 DEF Orders
<1>4. Offset(q)' = Offset(q)
  BY <1>1 DEF Offset
<1>5. QED
  BY <1>2, <1>3, <1>4

LEMMA MatchingTypes ==
    ASSUME IsFiniteSet(Ids), NEW q \in Requests
    PROVE  /\ Matching(q) \subseteq Ids /\ IsFiniteSet(Matching(q))
           /\ Cardinality(Matching(q)) \in Nat
           /\ Cardinality(Matching(q)) <= Cardinality(Ids)
<1>1. Matching(q) \subseteq Ids
  BY DEF Matching, Present
<1>2. QED
  BY <1>1, FS_Subset, FS_CardinalityType

LEMMA OffsetOfRequest ==
    ASSUME TypeOK, Requested, NEW q \in Requests, sent[q].op = "list"
    PROVE  Offset(q) \in Nat /\ sent[q].url \in Pages
<1>1. sent[q].url # None /\ sent[q] \in Inputs
  BY InputAssumption DEF Requested, TypeOK
<1>2. sent[q].url \in Pages
  BY <1>1, ListAssumption DEF Inputs
<1>3. QED
  BY <1>2, OffsetType DEF Offset

\* A write leaves what has been read, and marks the lists it disturbs.
LEMMA DatedStep ==
    ASSUME IInv, LInv, NEW q \in Requests, Step(q), Dated
    PROVE  LInv'
<1>1. /\ sent' = sent
      /\ \A h \in Requests : h # q => pc'[h] = pc[h]
  BY StepFrame DEF IInv
<1>2. PICK i \in Instants :
        born' = [a \in Ids |-> IF articles[a] = None /\ articles'[a] # None THEN i ELSE born[a]]
  BY DEF Dated
<1>3. born' \in [Ids -> Nat]
  BY <1>2, ListAssumption DEF LInv
<1>4. ASSUME NEW r \in Requests
      PROVE  /\ lists'[r] \in Readings
             /\ lists'[r].rows = lists[r].rows
             /\ lists'[r].favorited = lists[r].favorited
             /\ lists'[r].total = lists[r].total
             /\ lists'[r].steady => lists[r].steady /\ tables' = tables
  <2>1. lists[r] \in Readings
    BY DEF LInv
  <2>2. PICK b \in BOOLEAN : b <=> lists[r].steady /\ tables' = tables
    OBVIOUS
  <2>3. lists'[r] = [lists[r] EXCEPT !.steady = b]
    <3>1. lists'[r] = [lists[r] EXCEPT !.steady = lists[r].steady /\ tables' = tables]
      BY DEF Dated
    <3>2. (lists[r].steady /\ tables' = tables) = b
      BY <2>2
    <3>3. QED
      BY <3>1, <3>2
  <2>4. QED
    BY <2>1, <2>2, <2>3 DEF Readings
<1>5. lists' = [r \in Requests |-> lists'[r]]
  BY DEF Dated
<1>6. ASSUME NEW r \in Requests
      PROVE  ReadAt(r)'
  <2>1. ReadAt(r)
    BY DEF LInv
  <2>2. pc'[r] \in {"arrived", "relating"} => pc[r] \in {"arrived", "relating"}
    <3>1. CASE r # q
      BY <1>1, <3>1
    <3>2. CASE r = q
      <4>1. sent[q].op # "list"
        BY ListsAlone
      <4>2. pc'[q] # "relating"
        <5>1. StagedAt(q)'
          BY StagedStep DEF IInv, Staged
        <5>2. QED
          BY <1>1, <4>1, <5>1 DEF StagedAt
      <4>3. pc'[q] = "arrived" => pc[q] = "arrived"
        <5>1. /\ \A a : Reply(q, a) => pc'[q] = "done"
              /\ \A status : Fail(q, status) => pc'[q] = "done"
              /\ \A stage : Goto(q, stage) => pc'[q] = stage
          BY Moves DEF IInv, TypeOK
        <5>2. CASE Begin(q) \/ Find(q) \/ ReadOwnTags(q)
          BY <5>1, <5>2 DEF Begin, Find, ReadOwnTags
        <5>3. CASE Write(q)
          BY <5>1, <5>3 DEF Write, ReadTags, Retry, Abandon, Store, Put, Reread, ReadFavorites
        <5>4. CASE Delete(q) \/ Favor(q)
          BY <5>1, <5>4 DEF Delete, Favor, SelectFavorite, InsertFavorite, DeleteFavorite
        <5>5. CASE Discuss(q)
          BY <5>1, <5>5 DEF Discuss, InsertComment, RereadComment, FindComment, DeleteComment
        <5>6. QED
          BY <5>2, <5>3, <5>4, <5>5 DEF Step
      <4>4. QED
        BY <3>2, <4>2, <4>3
    <3>3. QED
      BY <3>1, <3>2
  <2>3. ASSUME sent[r].op = "list", lists'[r].steady
        PROVE  SteadyAt(r)'
    <3>1. lists[r].steady /\ tables' = tables /\ SteadyAt(r)
      BY <1>4, <2>1, <2>3 DEF ReadAt
    <3>2. r # q /\ pc'[r] = pc[r]
      BY <1>1, <2>3, ListsAlone
    <3>3. born' = born /\ favorites' = favorites
      BY <1>2, <3>1 DEF LInv, tables
    <3>4. /\ Matching(r)' = Matching(r)
          /\ Orders(Matching(r))' = Orders(Matching(r))
          /\ Offset(r)' = Offset(r)
      BY <1>1, <3>1, <3>3, Frozen
    <3>5. pc[r] \in {"relating", "counting", "done"} =>
            \E s \in Orders(Matching(r))' : lists'[r].rows = SelectIn(s, Offset(r)')
      BY <1>4, <3>1, <3>4 DEF SteadyAt
    <3>6. pc[r] \in {"counting", "done"} =>
            lists'[r].favorited = {a \in ToSet(lists'[r].rows) : <<sent[r].user, a>> \in favorites}
      BY <1>4, <3>1 DEF SteadyAt
    <3>7. pc[r] = "done" => lists'[r].total = Cardinality(Matching(r)')
      BY <1>4, <3>1, <3>4 DEF SteadyAt
    <3>8. QED
      BY <1>1, <3>2, <3>3, <3>5, <3>6, <3>7 DEF SteadyAt
  <2>4. QED
    BY <1>1, <1>4, <2>1, <2>2, <2>3 DEF ReadAt
<1>7. QED
  BY <1>3, <1>4, <1>5, <1>6 DEF LInv

\* A statement of a list leaves the tables and the other lists.
LEMMA LookStep ==
    ASSUME IInv, LInv, NEW q \in Requests, NEW list \in Readings, Reads(q, list),
           \A h \in Requests : h # q => pc'[h] = pc[h],
           ReadAt(q)'
    PROVE  LInv'
<1>1. UNCHANGED <<sent, tables, born>> /\ lists' = [lists EXCEPT ![q] = list]
  BY DEF Reads
<1>2. lists' \in [Requests -> Readings] /\ \A r \in Requests : r # q => lists'[r] = lists[r]
  BY <1>1 DEF LInv
<1>3. ASSUME NEW r \in Requests, r # q
      PROVE  ReadAt(r)'
  <2>1. ReadAt(r) /\ lists'[r] = lists[r] /\ pc'[r] = pc[r]
    BY <1>2, <1>3 DEF LInv
  <2>2. /\ Matching(r)' = Matching(r)
        /\ Orders(Matching(r))' = Orders(Matching(r))
        /\ Offset(r)' = Offset(r)
    BY <1>1, Frozen
  <2>3. SteadyAt(r) => SteadyAt(r)'
    BY <1>1, <2>1, <2>2 DEF SteadyAt, tables
  <2>4. QED
    BY <1>1, <2>1, <2>3 DEF ReadAt
<1>4. QED
  BY <1>1, <1>2, <1>3 DEF LInv

LEMMA SelectPageStep ==
    ASSUME IsFiniteSet(Ids), IInv, LInv, NEW q \in Requests, SelectPage(q)
    PROVE  LInv'
<1>1. PICK s \in Orders(Matching(q)) :
        Reads(q, [lists[q] EXCEPT !.rows = SelectIn(s, Offset(q)), !.steady = TRUE])
  BY DEF SelectPage
<1> DEFINE list == [lists[q] EXCEPT !.rows = SelectIn(s, Offset(q)), !.steady = TRUE]
<1>2. sent[q].op = "list" /\ pc[q] = "arrived" /\ Offset(q) \in Nat
  BY OffsetOfRequest DEF SelectPage, IInv
<1>3. SelectIn(s, Offset(q)) \in Seq(Ids)
  <2>1. s \in Seq(Matching(q))
    BY MatchingTypes, OrderTypes
  <2>2. s \in Seq(Ids)
    BY <2>1, MatchingTypes
  <2>3. QED
    BY <1>2, <2>2, SelectInTypes
<1>4. /\ list \in Readings /\ list.rows = SelectIn(s, Offset(q))
      /\ list.favorited = lists[q].favorited /\ list.total = lists[q].total
  BY <1>3 DEF LInv, Readings
<1>5. lists[q].favorited = {} /\ lists[q].total <= Cardinality(Ids)
  BY <1>2 DEF LInv, ReadAt
<1>6. /\ pc'[q] = "relating"
      /\ \A h \in Requests : h # q => pc'[h] = pc[h]
  BY DEF SelectPage, Goto, IInv, TypeOK
<1>7. UNCHANGED <<sent, tables, born>> /\ lists'[q] = list
  BY <1>1 DEF Reads, LInv
<1>8. SteadyAt(q)'
  <2>1. /\ Orders(Matching(q))' = Orders(Matching(q))
        /\ Offset(q)' = Offset(q)
    BY <1>7, Frozen
  <2>2. \E t \in Orders(Matching(q))' : lists'[q].rows = SelectIn(t, Offset(q)')
    BY <1>4, <1>7, <2>1
  <2>3. QED
    BY <1>6, <2>2 DEF SteadyAt
<1>9. ReadAt(q)'
  BY <1>4, <1>5, <1>7, <1>8 DEF ReadAt
<1>10. QED
  BY <1>1, <1>4, <1>6, <1>9, LookStep

LEMMA RelateStep ==
    ASSUME IInv, LInv, NEW q \in Requests, Relate(q)
    PROVE  LInv'
<1> DEFINE mine == {a \in ToSet(lists[q].rows) : <<sent[q].user, a>> \in favorites}
           list == [lists[q] EXCEPT !.favorited = mine]
<1>1. Reads(q, list) /\ pc[q] = "relating"
  BY DEF Relate
<1>2. lists[q] \in Readings
  BY DEF LInv
<1>3. ToSet(lists[q].rows) \subseteq Ids
  BY <1>2 DEF Readings, ToSet
<1>4. /\ list \in Readings /\ list.rows = lists[q].rows /\ list.favorited = mine
      /\ list.total = lists[q].total /\ list.steady = lists[q].steady
  BY <1>2, <1>3 DEF Readings
<1>5. /\ pc'[q] = "counting"
      /\ \A h \in Requests : h # q => pc'[h] = pc[h]
  BY DEF Relate, Goto, IInv, TypeOK
<1>6. UNCHANGED <<sent, tables, born>> /\ lists'[q] = list
  BY <1>1 DEF Reads, LInv
<1>7. SteadyAt(q) => SteadyAt(q)'
  <2>1. /\ Orders(Matching(q))' = Orders(Matching(q))
        /\ Offset(q)' = Offset(q)
    BY <1>6, Frozen
  <2>2. lists'[q].favorited = {a \in ToSet(lists'[q].rows) : <<sent'[q].user, a>> \in favorites'}
    BY <1>4, <1>6 DEF tables
  <2>3. SteadyAt(q) =>
          \E t \in Orders(Matching(q))' : lists'[q].rows = SelectIn(t, Offset(q)')
    BY <1>1, <1>4, <1>6, <2>1 DEF SteadyAt
  <2>4. QED
    BY <1>5, <2>2, <2>3 DEF SteadyAt
<1>8. ReadAt(q)'
  <2>1. ReadAt(q) /\ mine \subseteq ToSet(lists[q].rows)
    BY DEF LInv
  <2>2. QED
    BY <1>4, <1>5, <1>6, <1>7, <2>1 DEF ReadAt
<1>9. QED
  BY <1>1, <1>4, <1>5, <1>8, LookStep

LEMMA CountStep ==
    ASSUME IsFiniteSet(Ids), IInv, LInv, NEW q \in Requests, Count(q)
    PROVE  LInv'
<1> DEFINE total == Cardinality(Matching(q))
           list == [lists[q] EXCEPT !.total = total]
<1>1. Reads(q, list) /\ pc[q] = "counting"
  BY DEF Count
<1>2. lists[q] \in Readings
  BY DEF LInv
<1>3. total \in Nat /\ total <= Cardinality(Ids)
  BY MatchingTypes
<1>4. /\ list \in Readings /\ list.rows = lists[q].rows /\ list.favorited = lists[q].favorited
      /\ list.total = total /\ list.steady = lists[q].steady
  BY <1>2, <1>3 DEF Readings
<1>5. /\ pc'[q] = "done"
      /\ \A h \in Requests : h # q => pc'[h] = pc[h]
  BY DEF Count, Reply, Goto, IInv, TypeOK
<1>6. UNCHANGED <<sent, tables, born>> /\ lists'[q] = list
  BY <1>1 DEF Reads, LInv
<1>7. SteadyAt(q) => SteadyAt(q)'
  <2>1. /\ Matching(q)' = Matching(q)
        /\ Orders(Matching(q))' = Orders(Matching(q))
        /\ Offset(q)' = Offset(q)
    BY <1>6, Frozen
  <2>2. SteadyAt(q) =>
          lists'[q].favorited = {a \in ToSet(lists'[q].rows) : <<sent'[q].user, a>> \in favorites'}
    BY <1>1, <1>4, <1>6 DEF SteadyAt, tables
  <2>3. SteadyAt(q) =>
          \E t \in Orders(Matching(q))' : lists'[q].rows = SelectIn(t, Offset(q)')
    BY <1>1, <1>4, <1>6, <2>1 DEF SteadyAt
  <2>4. lists'[q].total = Cardinality(Matching(q)')
    BY <1>4, <1>6, <2>1
  <2>5. QED
    BY <1>5, <2>2, <2>3, <2>4 DEF SteadyAt
<1>8. ReadAt(q)'
  <2>1. ReadAt(q)
    BY DEF LInv
  <2>2. QED
    BY <1>3, <1>4, <1>5, <1>6, <1>7, <2>1 DEF ReadAt
<1>9. QED
  BY <1>1, <1>4, <1>5, <1>8, LookStep

LEMMA InitLInv ==
    ASSUME IsFiniteSet(Ids), ListsInit
    PROVE  LInv
<1>1. Unread \in Readings /\ Unread.favorited \subseteq ToSet(Unread.rows)
  BY DEF Unread, Readings, ToSet
<1>2. Cardinality(Ids) \in Nat
  BY FS_CardinalityType
<1>3. \A q \in Requests : lists[q] = Unread /\ lists[q].steady = FALSE
        /\ lists[q].total = 0 /\ lists[q].favorited = {}
  BY DEF ListsInit, Unread
<1>4. born \in [Ids -> Nat]
  BY ListAssumption DEF ListsInit, Ids
<1>5. QED
  BY <1>1, <1>2, <1>3, <1>4 DEF ListsInit, LInv, ReadAt

LEMMA LInvStep ==
    ASSUME IsFiniteSet(Ids), IInv, LInv, [ListsNext]_listVars
    PROVE  LInv'
<1>1. CASE UNCHANGED listVars
  <2>1. UNCHANGED <<sent, tables, born, lists, pc>>
    BY <1>1 DEF listVars, vars, tables
  <2>2. ASSUME NEW r \in Requests
        PROVE  ReadAt(r)'
    <3>1. ReadAt(r)
      BY DEF LInv
    <3>2. /\ Matching(r)' = Matching(r)
          /\ Orders(Matching(r))' = Orders(Matching(r))
          /\ Offset(r)' = Offset(r)
      BY <2>1, Frozen
    <3>3. SteadyAt(r) => SteadyAt(r)'
      BY <2>1, <3>2 DEF SteadyAt, tables
    <3>4. QED
      BY <2>1, <3>1, <3>3 DEF ReadAt
  <2>3. QED
    BY <2>1, <2>2 DEF LInv
<1>2. ASSUME NEW q \in Requests, ListStep(q)
      PROVE  LInv'
  BY <1>2, DatedStep, SelectPageStep, RelateStep, CountStep DEF ListStep
<1>3. QED
  BY <1>1, <1>2 DEF ListsNext

\* What a list has read, with the articles, is a state the code can represent.
THEOREM ListsTypeCorrectness ==
    ASSUME IsFiniteSet(Ids)
    PROVE  ListsSpec => []ListsTypeOK
<1>1. ListsInit => LInv
  BY InitLInv
<1>2. IInv /\ LInv /\ [ListsNext]_listVars => LInv'
  BY LInvStep
<1>3. IInv /\ LInv => ListsTypeOK
  <2>1. ASSUME IInv, LInv, NEW q \in Requests
        PROVE  /\ lists[q].rows \in Seq(Ids)
               /\ lists[q].favorited \subseteq ToSet(lists[q].rows)
               /\ lists[q].total \in 0..Cardinality(Ids)
               /\ lists[q].steady \in BOOLEAN
    <3>1. lists[q] \in Readings /\ ReadAt(q) /\ Cardinality(Ids) \in Nat
      BY <2>1, FS_CardinalityType DEF LInv
    <3>2. QED
      BY <3>1 DEF Readings, ReadAt
  <2>2. QED
    BY <2>1 DEF IInv, LInv, ListsTypeOK
<1>4. QED
  BY <1>1, <1>2, <1>3, ListsInvariance, PTL DEF ListsSpec

-----------------------------------------------------------------------------
(* What a list that no write disturbs adds up to *)

\* The rows newer than one of an order stand before it, and the rows that stand
\* before it, with itself, are as new.
LEMMA RowRank ==
    ASSUME NEW S \in SUBSET Ids, IsFiniteSet(S), born \in [Ids -> Nat],
           NEW s \in Orders(S), NEW k \in 1..Len(s)
    PROVE  /\ Newer(S, born[s[k]]) < k
           /\ k <= AsNew(S, born[s[k]])
<1>1. /\ s \in Seq(S) /\ Len(s) \in Nat
      /\ \A i, j \in 1..Len(s) : s[i] = s[j] => i = j
      /\ \A x \in S : \E i \in 1..Len(s) : s[i] = x
      /\ DOMAIN s = 1..Len(s)
  BY OrderTypes
<1>2. \A i, j \in 1..Len(s) : i < j => born[s[i]] >= born[s[j]]
  BY <1>1 DEF Orders
<1>3. \A i \in 1..Len(s) : s[i] \in S /\ born[s[i]] \in Nat
  BY <1>1
<1> DEFINE newer == {a \in S : born[a] > born[s[k]]}
           asNew == {a \in S : born[a] >= born[s[k]]}
           before == {s[j] : j \in 1..(k - 1)}
<1>4. Cardinality(newer) < k
  <2>1. newer \subseteq before
    <3>1. ASSUME NEW a \in newer
          PROVE  a \in before
      <4>1. PICK i \in 1..Len(s) : s[i] = a
        BY <1>1
      <4>2. ~(k <= i)
        <5>1. born[s[i]] > born[s[k]]
          BY <4>1
        <5>2. i # k /\ ~(k < i)
          BY <1>2, <1>3, <5>1
        <5>3. QED
          BY <1>1, <5>2
      <4>3. i \in 1..(k - 1)
        BY <1>1, <4>2
      <4>4. QED
        BY <4>1, <4>3
    <3>2. QED
      BY <3>1
  <2> DEFINE f == [j \in 1..(k - 1) |-> s[j]]
  <2>2. f \in Surjection(1..(k - 1), before)
    BY DEF Surjection
  <2>3. IsFiniteSet(1..(k - 1)) /\ Cardinality(1..(k - 1)) = k - 1
    <3>1. PICK last \in Int : last = k - 1 /\ last >= 0
      BY <1>1
    <3>2. IsFiniteSet(1..last) /\ Cardinality(1..last) = IF 1 > last THEN 0 ELSE last - 1 + 1
      BY FS_Interval
    <3>3. Cardinality(1..last) = last
      BY <3>1, <3>2
    <3>4. QED
      BY <3>1, <3>2, <3>3
  <2>4. IsFiniteSet(before) /\ Cardinality(before) <= k - 1
    <3> HIDE DEF f, before
    <3>1. QED
      BY <2>2, <2>3, FS_Surjection
  <2>5. Cardinality(newer) <= Cardinality(before) /\ IsFiniteSet(newer)
    <3> HIDE DEF newer, before
    <3>1. QED
      BY <2>1, <2>4, FS_Subset
  <2>6. Cardinality(newer) \in Nat /\ Cardinality(before) \in Nat
    BY <2>4, <2>5, FS_CardinalityType
  <2>7. QED
    BY <1>1, <2>4, <2>5, <2>6
<1>5. k <= Cardinality(asNew)
  <2> DEFINE f == [j \in 1..k |-> s[j]]
  <2>1. \A j \in 1..k : j \in 1..Len(s) /\ s[j] \in asNew
    <3>1. ASSUME NEW j \in 1..k
          PROVE  j \in 1..Len(s) /\ s[j] \in asNew
      <4>1. j \in 1..Len(s) /\ (j = k \/ j < k)
        BY <1>1
      <4>2. born[s[j]] >= born[s[k]]
        BY <1>2, <1>3, <4>1
      <4>3. QED
        BY <1>3, <4>1, <4>2
    <3>2. QED
      BY <3>1
  <2>2. f \in Injection(1..k, asNew)
    <3>1. f \in [1..k -> asNew]
      BY <2>1
    <3>2. \A i, j \in 1..k : f[i] = f[j] => i = j
      BY <1>1, <2>1
    <3>3. QED
      BY <3>1, <3>2 DEF Injection, IsInjective
  <2>3. IsFiniteSet(asNew)
    BY FS_Subset
  <2>4. Cardinality(1..k) = k
    BY <1>1, FS_Interval
  <2>5. QED
    <3> HIDE DEF f, asNew
    <3>1. QED
      BY <2>2, <2>3, <2>4, FS_Injection
<1>6. QED
  BY <1>4, <1>5 DEF Newer, AsNew

\* As many rows as the page is long: no row is there twice.
LEMMA RowsOnce ==
    ASSUME NEW rows, NEW n \in Nat, rows \in Seq(Ids), Len(rows) = n,
           \A i, j \in 1..n : rows[i] = rows[j] => i = j
    PROVE  Cardinality(ToSet(rows)) = n
<1>1. DOMAIN rows = 1..n
  OBVIOUS
<1>2. rows \in Surjection(1..n, ToSet(rows)) /\ rows \in Injection(1..n, ToSet(rows))
  <2>1. ToSet(rows) = {rows[i] : i \in 1..n} /\ rows = [i \in 1..n |-> rows[i]]
    BY <1>1 DEF ToSet
  <2>2. QED
    BY <2>1 DEF Surjection, Injection, IsInjective
<1>3. IsFiniteSet(1..n) /\ Cardinality(1..n) = n
  BY FS_Interval
<1>4. QED
  BY <1>2, <1>3, FS_Surjection

LEMMA SteadyAddsUp ==
    ASSUME IsFiniteSet(Ids), IInv, LInv, NEW q \in Requests, Steady(q)
    PROVE  LET list == lists[q]
               feed == Matching(q)
           IN  /\ list.total = Cardinality(feed)
               /\ Cardinality(ToSet(list.rows)) = Len(list.rows)
               /\ Len(list.rows) = Min({PageLimit, Max({0, list.total - Offset(q)})})
               /\ \A i \in DOMAIN list.rows :
                   /\ list.rows[i] \in feed
                   /\ Newer(feed, born[list.rows[i]]) < Offset(q) + i
                   /\ Offset(q) + i <= AsNew(feed, born[list.rows[i]])
               /\ \A a \in ToSet(list.rows) :
                   a \in list.favorited <=> <<sent[q].user, a>> \in favorites
<1> DEFINE list == lists[q]
           feed == Matching(q)
<1>1. ReadAt(q) /\ list \in Readings /\ born \in [Ids -> Nat]
  BY DEF LInv
<1>2. SteadyAt(q) /\ sent[q].op = "list" /\ pc[q] = "done"
  BY <1>1 DEF Steady, ReadAt
<1>3. PICK s \in Orders(feed) : list.rows = SelectIn(s, Offset(q))
  BY <1>2 DEF SteadyAt
<1>4. /\ list.favorited = {a \in ToSet(list.rows) : <<sent[q].user, a>> \in favorites}
      /\ list.total = Cardinality(feed)
  BY <1>2 DEF SteadyAt
<1>5. feed \subseteq Ids /\ IsFiniteSet(feed) /\ Cardinality(feed) \in Nat
  BY MatchingTypes
<1>6. Offset(q) \in Nat
  BY <1>2, OffsetOfRequest DEF IInv
<1>7. /\ s \in Seq(feed) /\ Len(s) = Cardinality(feed)
      /\ \A i, j \in 1..Len(s) : s[i] = s[j] => i = j
  BY <1>5, OrderTypes
<1>8. /\ list.rows \in Seq(feed)
      /\ Len(list.rows) = Min({PageLimit, Max({0, Len(s) - Offset(q)})})
      /\ Len(list.rows) \in Nat /\ DOMAIN list.rows = 1..Len(list.rows)
      /\ \A i \in 1..Len(list.rows) :
           /\ Offset(q) + i \in 1..Len(s)
           /\ list.rows[i] = s[Offset(q) + i]
  <2>1. PICK skip \in Nat : skip = Offset(q)
    BY <1>6
  <2>2. PICK S : S = feed
    OBVIOUS
  <2>3. s \in Seq(S)
    BY <1>7, <2>2
  <2>4. PICK rows : rows = SelectIn(s, skip) /\ rows = list.rows
    BY <1>3, <2>1
  <2>5. /\ rows \in Seq(S)
        /\ Len(rows) = Min({PageLimit, Max({0, Len(s) - skip})})
        /\ Len(rows) \in Nat /\ DOMAIN rows = 1..Len(rows)
        /\ \A i \in 1..Len(rows) : skip + i \in 1..Len(s) /\ rows[i] = s[skip + i]
    <3>1. /\ SelectIn(s, skip) \in Seq(S)
          /\ Len(SelectIn(s, skip)) \in Nat
          /\ DOMAIN SelectIn(s, skip) = 1..Len(SelectIn(s, skip))
          /\ \A i \in 1..Len(SelectIn(s, skip)) :
               skip + i \in 1..Len(s) /\ SelectIn(s, skip)[i] = s[skip + i]
      BY <2>3, SelectInTypes
    <3>2. Len(SelectIn(s, skip)) = Min({PageLimit, Max({0, Len(s) - skip})})
      BY <2>3, SelectInTypes
    <3>3. QED
      BY <2>4, <3>1, <3>2
  <2>6. QED
    <3> HIDE DEF list, feed
    <3>1. QED
      BY <2>1, <2>2, <2>4, <2>5
<1>9. Cardinality(ToSet(list.rows)) = Len(list.rows)
  <2>1. \A i, j \in 1..Len(list.rows) : list.rows[i] = list.rows[j] => i = j
    <3>1. ASSUME NEW i \in 1..Len(list.rows), NEW j \in 1..Len(list.rows),
                 list.rows[i] = list.rows[j]
          PROVE  i = j
      <4>1. Offset(q) + i = Offset(q) + j
        BY <1>7, <1>8, <3>1
      <4>2. QED
        BY <1>6, <1>8, <4>1
    <3>2. QED
      BY <3>1
  <2>2. list.rows \in Seq(Ids)
    BY <1>5, <1>8
  <2>3. QED
    BY <1>8, <2>1, <2>2, RowsOnce
<1>10. ASSUME NEW i \in DOMAIN list.rows
       PROVE  /\ list.rows[i] \in feed
              /\ Newer(feed, born[list.rows[i]]) < Offset(q) + i
              /\ Offset(q) + i <= AsNew(feed, born[list.rows[i]])
  <2>1. PICK k \in 1..Len(s) : k = Offset(q) + i
    BY <1>8
  <2>2. list.rows[i] = s[k] /\ s[k] \in feed
    <3> HIDE DEF list, feed
    <3>1. list.rows[i] = s[k]
      BY <1>8, <2>1
    <3>2. s[k] \in feed
      BY <1>7
    <3>3. QED
      BY <3>1, <3>2
  <2>3. Newer(feed, born[s[k]]) < k /\ k <= AsNew(feed, born[s[k]])
    <3> HIDE DEF feed
    <3>1. QED
      BY <1>1, <1>5, RowRank
  <2>4. QED
    BY <2>1, <2>2, <2>3
<1>11. QED
  BY <1>4, <1>7, <1>8, <1>9, <1>10

\* REQ-ARTICLE-007 and -008: what a list read under no write adds up to.
THEOREM UndisturbedListAddsUpHolds ==
    ASSUME IsFiniteSet(Ids)
    PROVE  ListsSpec => []UndisturbedListAddsUp
<1>1. ListsInit => LInv
  BY InitLInv
<1>2. IInv /\ LInv /\ [ListsNext]_listVars => LInv'
  BY LInvStep
<1>3. IInv /\ LInv => UndisturbedListAddsUp
  BY SteadyAddsUp DEF UndisturbedListAddsUp
<1>4. QED
  BY <1>1, <1>2, <1>3, ListsInvariance, PTL DEF ListsSpec

-----------------------------------------------------------------------------
(* Turning the pages of a list *)

\* The address of a page asks for the same feed, at that page.
LEMMA TargetAsks ==
    ASSUME NEW url \in Pages, NEW page \in Nat \ {0}
    PROVE  /\ RequestedFeed(PageFormTarget(url, page)) = RequestedFeed(url)
           /\ PageFromParam(PageFormTarget(url, page).page) = page
<1> DEFINE target == PageFormTarget(url, page)
<1>1. /\ target.path = url.path /\ target.of = url.of /\ target.following = url.following
      /\ target.page = IF page > 1 THEN page ELSE None
  BY DEF PageFormTarget, Pages
<1>2. PageFromParam(target.page) = page
  <2>1. CASE page > 1
    BY <1>1, <2>1, ListAssumption DEF PageFromParam
  <2>2. CASE ~(page > 1)
    BY <1>1, <2>2 DEF PageFromParam
  <2>3. QED
    BY <2>1, <2>2
<1>3. QED
  BY <1>1, <1>2 DEF RequestedFeed

\* A rank is on one page.
LEMMA PageOfRank ==
    ASSUME NEW k \in Nat \ {0}
    PROVE  \E p \in Nat \ {0} : \A n \in Nat \ {0} :
             OffsetForPage(n) < k /\ k <= OffsetForPage(n) + PageLimit <=> n = p
<1>1. PICK limit \in Nat \ {0} : limit = PageLimit
  BY ListAssumption
<1>2. PICK p \in Nat \ {0} : (p - 1) * limit < k /\ k <= (p - 1) * limit + limit
  <2>1. PICK d \in Nat : d = (k - 1) \div limit
    OBVIOUS
  <2>2. d * limit <= k - 1 /\ k - 1 < d * limit + limit
    BY <2>1
  <2>3. d + 1 \in Nat \ {0} /\ (d + 1) - 1 = d
    OBVIOUS
  <2>4. d * limit \in Nat
    OBVIOUS
  <2>5. d * limit < k /\ k <= d * limit + limit
    BY <2>2, <2>4
  <2>6. QED
    BY <2>3, <2>5
<1>3. ASSUME NEW n \in Nat \ {0}, (n - 1) * limit < k, k <= (n - 1) * limit + limit
      PROVE  n = p
  <2>1. PICK i \in Nat, j \in Nat : i = n - 1 /\ j = p - 1
    OBVIOUS
  <2>2. i * limit \in Nat /\ j * limit \in Nat
    OBVIOUS
  <2>3. ~(i < j)
    <3>1. i < j => i * limit + limit <= j * limit
      <4>1. i < j => (i + 1) * limit <= j * limit
        OBVIOUS
      <4>2. (i + 1) * limit = i * limit + limit
        OBVIOUS
      <4>3. QED
        BY <4>1, <4>2
    <3>2. QED
      BY <1>2, <1>3, <2>1, <2>2, <3>1
  <2>4. ~(j < i)
    <3>1. j < i => j * limit + limit <= i * limit
      <4>1. j < i => (j + 1) * limit <= i * limit
        OBVIOUS
      <4>2. (j + 1) * limit = j * limit + limit
        OBVIOUS
      <4>3. QED
        BY <4>1, <4>2
    <3>2. QED
      BY <1>2, <1>3, <2>1, <2>2, <3>1
  <2>5. QED
    BY <2>1, <2>3, <2>4
<1>4. QED
  BY <1>1, <1>2, <1>3 DEF OffsetForPage

\* The pages counted are those that some rank is on.
LEMMA PagesCounted ==
    ASSUME NEW total \in Nat, NEW p \in Nat \ {0}, OffsetForPage(p) < total
    PROVE  PageCount(total) \in Nat /\ p \in 1..PageCount(total)
<1>1. PICK limit \in Nat \ {0} : limit = PageLimit
  BY ListAssumption
<1>2. PICK count \in Nat : count = (total + limit - 1) \div limit
  <2>1. total + limit - 1 \in Nat
    OBVIOUS
  <2>2. QED
    BY <2>1
<1>3. total + limit - 1 < count * limit + limit
  BY <1>2
<1>4. PICK j \in Nat : j = p - 1 /\ j * limit < total
  BY <1>1 DEF OffsetForPage
<1>5. count <= j => count * limit <= j * limit
  OBVIOUS
<1>6. count * limit \in Nat /\ j * limit \in Nat
  OBVIOUS
<1>7. ~(count <= j)
  BY <1>3, <1>4, <1>5, <1>6
<1>8. QED
  BY <1>1, <1>2, <1>4, <1>7 DEF PageCount

\* An article alone at its instant has the same rank in every order.
LEMMA RankAlone ==
    ASSUME NEW S \in SUBSET Ids, IsFiniteSet(S), born \in [Ids -> Nat],
           NEW a \in S, \A b \in S : born[a] = born[b] => a = b,
           NEW s \in Orders(S)
    PROVE  /\ Newer(S, born[a]) + 1 \in 1..Len(s)
           /\ s[Newer(S, born[a]) + 1] = a
<1>1. PICK k \in 1..Len(s) : s[k] = a
  BY OrderTypes
<1>2. Newer(S, born[a]) < k /\ k <= AsNew(S, born[a])
  BY <1>1, RowRank
<1> DEFINE newer == {b \in S : born[b] > born[a]}
           asNew == {b \in S : born[b] >= born[a]}
<1>3. IsFiniteSet(newer) /\ Cardinality(newer) \in Nat
  BY FS_Subset, FS_CardinalityType
<1>4. asNew = newer \union {a} /\ a \notin newer
  <2>1. \A b \in S : born[b] \in Nat
    OBVIOUS
  <2>2. QED
    BY <2>1
<1>5. Cardinality(asNew) = Cardinality(newer) + 1
  <2> HIDE DEF newer, asNew
  <2>1. QED
    BY <1>3, <1>4, FS_AddElement
<1>6. k = Newer(S, born[a]) + 1
  BY <1>2, <1>3, <1>5 DEF Newer, AsNew
<1>7. QED
  BY <1>1, <1>6

\* What a page shows of an order is what stands at its ranks.
LEMMA ShownAtItsRank ==
    ASSUME NEW S, NEW s \in Seq(S), \A i, j \in 1..Len(s) : s[i] = s[j] => i = j,
           NEW k \in 1..Len(s), NEW offset \in Nat
    PROVE  s[k] \in ToSet(SelectIn(s, offset)) <=> offset < k /\ k <= offset + PageLimit
<1>1. PICK rows : rows = SelectIn(s, offset)
  OBVIOUS
<1>2. /\ DOMAIN rows = 1..Len(rows) /\ Len(rows) \in Nat
      /\ \A i \in 1..Len(rows) : offset + i \in 1..Len(s) /\ rows[i] = s[offset + i]
  <2>1. /\ DOMAIN SelectIn(s, offset) = 1..Len(SelectIn(s, offset))
        /\ Len(SelectIn(s, offset)) \in Nat
        /\ \A i \in 1..Len(SelectIn(s, offset)) :
             offset + i \in 1..Len(s) /\ SelectIn(s, offset)[i] = s[offset + i]
    BY SelectInTypes
  <2>2. QED
    BY <1>1, <2>1
<1>3. Len(s) \in Nat /\ PageLimit \in Nat
  BY ListAssumption
<1>4. Len(rows) = IF offset >= Len(s) THEN 0
                  ELSE IF offset + PageLimit <= Len(s) THEN PageLimit ELSE Len(s) - offset
  <2>1. Len(rows) = Min({PageLimit, Max({0, Len(s) - offset})})
    BY <1>1, SelectInTypes
  <2>2. PICK len \in Nat : len = Len(s)
    BY <1>3
  <2>3. Min({PageLimit, Max({0, len - offset})})
                = IF offset >= len THEN 0
                  ELSE IF offset + PageLimit <= len THEN PageLimit ELSE len - offset
    BY PageBounds
  <2>4. QED
    BY <2>1, <2>2, <2>3
<1>5. ASSUME NEW i \in 1..Len(rows), rows[i] = s[k]
      PROVE  offset < k /\ k <= offset + PageLimit
  <2>1. offset + i = k
    BY <1>2, <1>5
  <2>2. i >= 1 /\ i <= PageLimit /\ i \in Int
    BY <1>2, <1>3, <1>4
  <2>3. QED
    BY <1>3, <2>1, <2>2
<1>6. ASSUME offset < k, k <= offset + PageLimit
      PROVE  \E i \in 1..Len(rows) : rows[i] = s[k]
  <2>1. PICK i \in Int : i = k - offset
    OBVIOUS
  <2>2. i \in 1..Len(rows) /\ offset + i = k
    BY <1>3, <1>4, <1>6, <2>1
  <2>3. QED
    BY <1>2, <2>2
<1>7. ToSet(rows) = {rows[i] : i \in 1..Len(rows)}
  BY <1>2 DEF ToSet
<1>8. QED
  BY <1>1, <1>5, <1>6, <1>7

\* On the pages a list offers, the article a is on page p and on no other.
LEMMA SteadyTurns ==
    ASSUME IsFiniteSet(Ids), IInv, LInv, NEW q \in Requests, Steady(q),
           lists[q].rows # <<>>,
           NEW a \in Matching(q), \A b \in Matching(q) : born[a] = born[b] => a = b
    PROVE  LET here == sent[q].url
               offered == IF Controls(lists[q]) = {}
                            THEN {here}
                            ELSE {PageFormTarget(here, page) : page \in Controls(lists[q])}
               there(url) == {b \in Present : Selects(RequestedFeed(url), sent[q].user, b)}
           IN  \E page \in offered :
                 \A url \in offered : \A s \in Orders(there(url)) :
                   a \in ToSet(Shows(s, url)) <=> url = page
<1> DEFINE list == lists[q]
           feed == Matching(q)
           here == sent[q].url
           total == Cardinality(feed)
           rank == Newer(feed, born[a]) + 1
           there(url) == {b \in Present : Selects(RequestedFeed(url), sent[q].user, b)}
           skip(url) == OffsetForPage(PageFromParam(url.page))
           Here(url) == url \in Pages /\ RequestedFeed(url) = RequestedFeed(here)
<1>1. ReadAt(q) /\ list \in Readings /\ born \in [Ids -> Nat]
  BY DEF LInv
<1>2. SteadyAt(q) /\ sent[q].op = "list" /\ pc[q] = "done"
  BY <1>1 DEF Steady, ReadAt
<1>3. feed \subseteq Ids /\ IsFiniteSet(feed) /\ total \in Nat
  BY MatchingTypes
<1>4. Offset(q) \in Nat /\ here \in Pages
  BY <1>2, OffsetOfRequest DEF IInv
<1>5. list.total = total /\ \E s \in Orders(feed) : list.rows = SelectIn(s, Offset(q))
  BY <1>2 DEF SteadyAt
<1>6. ASSUME NEW s \in Orders(feed)
      PROVE  /\ rank \in 1..total
             /\ s \in Seq(feed) /\ Len(s) = total
             /\ \A i, j \in 1..total : s[i] = s[j] => i = j
             /\ s[rank] = a
  <2>1. s \in Seq(feed) /\ Len(s) = total /\ \A i, j \in 1..total : s[i] = s[j] => i = j
    BY <1>3, OrderTypes
  <2>2. rank \in 1..Len(s) /\ s[rank] = a
    <3> HIDE DEF feed
    <3>1. QED
      BY <1>1, <1>3, RankAlone DEF feed
  <2>3. QED
    BY <2>1, <2>2
<1>7. rank \in 1..total
  BY <1>5, <1>6
<1>8. PICK p \in Nat \ {0} : \A n \in Nat \ {0} :
        OffsetForPage(n) < rank /\ rank <= OffsetForPage(n) + PageLimit <=> n = p
  <2>1. rank \in Nat \ {0}
    BY <1>3, <1>7
  <2>2. QED
    BY <2>1, PageOfRank
<1>9. PageCount(total) \in Nat /\ p \in 1..PageCount(total)
  <2>1. OffsetForPage(p) < rank
    BY <1>8
  <2>2. OffsetForPage(p) \in Int
    BY ListAssumption DEF OffsetForPage
  <2>3. OffsetForPage(p) < total
    BY <1>3, <1>7, <2>1, <2>2
  <2>4. QED
    BY <1>3, <2>3, PagesCounted
\* A page of this feed shows the article when it is the page of its rank.
<1>10. ASSUME NEW url \in Pages, RequestedFeed(url) = RequestedFeed(here),
              NEW s \in Orders(there(url))
       PROVE  a \in ToSet(Shows(s, url)) <=> PageFromParam(url.page) = p
  <2>1. there(url) = feed
    BY <1>10 DEF Matching
  <2>2. PICK n \in Nat \ {0} : n = PageFromParam(url.page)
    BY OffsetType
  <2>3. OffsetForPage(n) \in Nat
    BY <2>2, OffsetType
  <2>4. s \in Orders(feed)
    BY <2>1
  <2>5. /\ rank \in 1..Len(s) /\ s \in Seq(feed)
        /\ \A i, j \in 1..Len(s) : s[i] = s[j] => i = j
        /\ s[rank] = a
    BY <1>6, <2>4
  <2>6. s[rank] \in ToSet(SelectIn(s, OffsetForPage(n)))
          <=> OffsetForPage(n) < rank /\ rank <= OffsetForPage(n) + PageLimit
    <3> HIDE DEF rank, feed
    <3>1. QED
      BY <2>3, <2>5, ShownAtItsRank
  <2>7. QED
    BY <1>8, <2>2, <2>5, <2>6 DEF Shows
<1>11. CASE Controls(list) = {}
  <2>1. PageCount(total) <= 1
    BY <1>5, <1>9, <1>11 DEF Controls
  <2>2. PICK n \in Nat \ {0} : n = PageFromParam(here.page) /\ OffsetForPage(n) = Offset(q)
    BY <1>4, OffsetType DEF Offset
  <2>3. Offset(q) < total
    <3>1. PICK s \in Orders(feed) : list.rows = SelectIn(s, Offset(q))
      BY <1>5
    <3>2. PICK from \in Nat : from = Offset(q)
      BY <1>4
    <3>3. s \in Seq(feed) /\ Len(s) = total
      BY <1>6
    <3>4. /\ SelectIn(s, from) \in Seq(feed)
          /\ Len(SelectIn(s, from)) \in Nat
          /\ \A i \in 1..Len(SelectIn(s, from)) : from + i \in 1..Len(s)
      BY <3>3, SelectInTypes
    <3>5. list.rows \in Seq(feed) /\ list.rows # <<>>
      BY <3>1, <3>2, <3>4
    <3>6. Len(list.rows) # 0
      BY <3>5, EmptySeq
    <3>7. from + 1 \in 1..total
      BY <3>1, <3>2, <3>3, <3>4, <3>6
    <3>8. QED
      BY <1>3, <3>2, <3>7
  <2>4. n \in 1..PageCount(total)
    BY <1>3, <2>2, <2>3, PagesCounted
  <2>5. n = p
    BY <1>9, <2>1, <2>4
  <2>6. \A s \in Orders(there(here)) : a \in ToSet(Shows(s, here))
    BY <1>4, <1>10, <2>2, <2>5
  <2>7. QED
    BY <1>11, <2>6
<1>12. CASE Controls(list) # {}
  <2>1. Controls(list) = 1..PageCount(total)
    BY <1>5, <1>12 DEF Controls
  <2> DEFINE turned == {PageFormTarget(here, page) : page \in Controls(list)}
             mine == PageFormTarget(here, p)
  <2>2. mine \in turned
    BY <1>9, <2>1
  <2>3. ASSUME NEW url \in turned, NEW s \in Orders(there(url))
        PROVE  a \in ToSet(Shows(s, url)) <=> url = mine
    <3>1. PICK n \in 1..PageCount(total) : url = PageFormTarget(here, n)
      BY <2>1
    <3>2. n \in Nat \ {0}
      BY <1>9
    <3>3. /\ RequestedFeed(url) = RequestedFeed(here)
          /\ PageFromParam(url.page) = n /\ PageFromParam(mine.page) = p
      BY <1>4, <3>1, <3>2, TargetAsks
    <3>4. url \in Pages
      BY <1>4, <3>1, <3>2 DEF PageFormTarget, Pages
    <3>5. a \in ToSet(Shows(s, url)) <=> PageFromParam(url.page) = p
      BY <1>10, <3>3, <3>4
    <3>6. url = mine <=> n = p
      BY <3>1, <3>3
    <3>7. QED
      BY <3>3, <3>5, <3>6
  <2>4. QED
    BY <1>12, <2>2, <2>3
<1>13. QED
  BY <1>11, <1>12

\* REQ-WEB-010 AC-2, AC-5: every article of a feed is on one page of those the
\* list offers, for any number of articles and any length of a page.
THEOREM EveryArticleHasItsPageHolds ==
    ASSUME IsFiniteSet(Ids)
    PROVE  ListsSpec => []EveryArticleHasItsPage
<1>1. ListsInit => LInv
  BY InitLInv
<1>2. IInv /\ LInv /\ [ListsNext]_listVars => LInv'
  BY LInvStep
<1>3. IInv /\ LInv => EveryArticleHasItsPage
  BY SteadyTurns DEF EveryArticleHasItsPage
<1>4. QED
  BY <1>1, <1>2, <1>3, ListsInvariance, PTL DEF ListsSpec

=============================================================================
