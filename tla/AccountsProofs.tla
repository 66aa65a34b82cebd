---------------------------- MODULE AccountsProofs ----------------------------
(***************************************************************************)
(* What holds of Accounts for every set of requests, accounts, names and   *)
(* passwords, any account being removed at any time.                       *)
(*                                                                         *)
(* One inductive invariant carries the rest: types, the operation and the  *)
(* viewer of each stage, the row of an account that has not registered,    *)
(* and the three safety invariants of the runs.                            *)
(***************************************************************************)
EXTENDS Accounts, TLAPS

-----------------------------------------------------------------------------
(* Lemmas on the operators *)

\* A row is a function on its fields.
LEMMA RowType ==
    ASSUME NEW row, row = [f \in Fields |-> row[f]],
           row["email"] \in Emails, row["username"] \in Usernames,
           row["password"] \in Passwords, row["bio"] \in Bios
    PROVE  row \in Rows
BY DEF Fields, Rows

\* The fields of a row have the types of the columns.
LEMMA FieldTypes ==
    ASSUME NEW row \in Rows
    PROVE  /\ row["email"] \in Emails /\ row["username"] \in Usernames
           /\ row["password"] \in Passwords /\ row["bio"] \in Bios
           /\ \A f \in Fields : row[f] # None
BY NoneAssumption DEF Fields, Rows

\* What a client may send, as the use-cases count on it.
LEMMA MenuTypes ==
    ASSUME NEW input \in Menu
    PROVE  /\ input \in Inputs
           /\ input.op = "register" =>
                None \notin {input.email, input.username, input.password, input.bio}
BY InputAssumption

\* A new account has every column.
LEMMA RegisteredRow ==
    ASSUME NEW input \in Menu, input.op = "register"
    PROVE  [f \in Fields |-> input[f]] \in Rows
<1> DEFINE row == [f \in Fields |-> input[f]]
<1>1. /\ input["email"] \in Emails /\ input["username"] \in Usernames
      /\ input["password"] \in Passwords /\ input["bio"] \in Bios
  BY MenuTypes DEF Inputs
<1>2. /\ row["email"] \in Emails /\ row["username"] \in Usernames
      /\ row["password"] \in Passwords /\ row["bio"] \in Bios
  BY <1>1 DEF Fields
<1>3. QED
  BY <1>2, RowType

\* An update leaves a row with every column.
LEMMA ChangedRow ==
    ASSUME NEW q \in Requests, sent[q] \in Menu, users[task[q].viewer] \in Rows
    PROVE  Changed(q) \in Rows
<1> DEFINE old == users[task[q].viewer]
           row == Changed(q)
<1>1. /\ sent[q]["email"] \in Emails \union {None}
      /\ sent[q]["username"] \in Usernames \union {None}
      /\ sent[q]["password"] \in Passwords \union {None}
      /\ sent[q]["bio"] \in Bios \union {None}
  BY MenuTypes DEF Inputs
<1>2. \A f \in Fields : row[f] = IF sent[q][f] = None THEN old[f] ELSE sent[q][f]
  BY DEF Changed
<1>3. /\ row["email"] \in Emails /\ row["username"] \in Usernames
      /\ row["password"] \in Passwords /\ row["bio"] \in Bios
  BY <1>1, <1>2, FieldTypes DEF Fields
<1>4. row = [f \in Fields |-> row[f]]
  BY DEF Changed
<1>5. QED
  BY <1>3, <1>4, RowType

\* translatePrismaError knows every constraint of the table.
LEMMA ClashTranslated ==
    ASSUME NEW a, NEW row, NEW code \in Clashes(a, row)
    PROVE  UserError(code) \in {"emailTaken", "usernameTaken"}
BY DEF Clashes, UserError

-----------------------------------------------------------------------------
(* The inductive invariant *)

Viewing == {"reading", "updating", "selectingFollow", "insertingFollow", "deletingFollow"}

\* Each stage belongs to an operation, and from the guard on the viewer is the
\* account of the token.
RoutedAt(q) ==
    /\ pc[q] = "verifying" => sent[q].op = "login"
    /\ pc[q] = "reading" => sent[q].op = "me"
    /\ pc[q] = "updating" => sent[q].op = "update"
    /\ pc[q] = "finding" => sent[q].op \in {"profile", "follow", "unfollow"}
    /\ pc[q] = "readingFollow" => sent[q].op = "profile"
    /\ pc[q] \in {"selectingFollow", "insertingFollow"} => sent[q].op = "follow"
    /\ pc[q] = "deletingFollow" => sent[q].op = "unfollow"
    /\ pc[q] \in Viewing \/ (pc[q] = "finding" /\ sent[q].op # "profile") =>
         /\ task[q].viewer = sent[q].bearer
         /\ task[q].viewer # None

Routed == \A q \in Requests : RoutedAt(q)

\* A registration that has not been answered has no row, and a request of
\* another kind never has one.
Unregistered ==
    \A q \in Requests :
        pc[q] # "done" \/ sent[q].op # "register" => users[q] = None

\* A request is answered when it is done, and not before.
PendingUntilDone == \A q \in Requests : pc[q] # "done" => answer[q] = Pending

IInv ==
    /\ TypeOK
    /\ Routed
    /\ Unregistered
    /\ PendingUntilDone
    /\ ErrorsAreTranslated
    /\ NoDanglingFollow

LEMMA InitIInv == Init => IInv
<1> SUFFICES ASSUME Init PROVE IInv
  OBVIOUS
<1>1. TypeOK
  BY SeedAssumption
     DEF Init, TypeOK, Tasks, Answers, Stages, Statuses, BlankTask, Pending, Ids
<1>2. Routed /\ PendingUntilDone /\ ErrorsAreTranslated
  BY DEF Init, Routed, RoutedAt, PendingUntilDone, ErrorsAreTranslated, Pending, Viewing
<1>3. Unregistered
  BY SeedAssumption DEF Init, Unregistered, Ids
<1>4. NoDanglingFollow
  <2>1. \A a \in Seeds : SeedRow[a] # None
    BY SeedAssumption, NoneAssumption
  <2>2. QED
    BY <2>1 DEF Init, NoDanglingFollow, Present, Ids
<1>5. QED
  BY <1>1, <1>2, <1>3, <1>4 DEF IInv

\* A step moves one request and touches nothing of the others.
LEMMA StepFrame ==
    ASSUME TypeOK, NEW q \in Requests, Step(q)
    PROVE  /\ sent' = sent
           /\ \A h \in Requests : h # q => /\ pc'[h] = pc[h]
                                           /\ task'[h] = task[h]
                                           /\ answer'[h] = answer[h]
<1> USE DEF TypeOK, Fail, Reply, Goto, tables
<1>1. CASE Register(q) \/ FindByEmail(q) \/ Verify(q) \/ Guard(q)
  BY <1>1 DEF Register, FindByEmail, Verify, Guard
<1>2. CASE ReadMe(q) \/ Update(q) \/ FindByUsername(q) \/ ReadFollow(q)
  BY <1>2 DEF ReadMe, Update, FindByUsername, ReadFollow
<1>3. CASE SelectFollow(q) \/ InsertFollow(q) \/ DeleteFollow(q)
  BY <1>3 DEF SelectFollow, InsertFollow, DeleteFollow
<1>4. QED
  BY <1>1, <1>2, <1>3 DEF Step

NewRow(q) == [f \in Fields |-> sent[q][f]]

\* The three things a step may do to the table of users: nothing, insert the
\* row of a registration, update the row of the viewer.
LEMMA UsersEffect ==
    ASSUME NEW q \in Requests, Step(q)
    PROVE  \/ users' = users
           \/ /\ pc[q] = "arrived" /\ sent[q].op = "register"
              /\ Clashes(q, NewRow(q)) = {}
              /\ users' = [users EXCEPT ![q] = NewRow(q)]
              /\ pc' = [pc EXCEPT ![q] = "done"]
              /\ answer' = [answer EXCEPT ![q] = Own(q)]
              /\ follows' = follows
           \/ /\ pc[q] = "updating"
              /\ task[q].viewer \in Present
              /\ Clashes(task[q].viewer, Changed(q)) = {}
              /\ users' = [users EXCEPT ![task[q].viewer] = Changed(q)]
              /\ pc' = [pc EXCEPT ![q] = "done"]
              /\ answer' = [answer EXCEPT ![q] = Own(task[q].viewer)]
              /\ follows' = follows
<1> USE DEF Fail, Reply, Goto, tables
<1>1. CASE Register(q)
  BY <1>1 DEF Register, NewRow
<1>2. CASE Update(q)
  BY <1>2 DEF Update
<1>3. CASE FindByEmail(q) \/ Verify(q) \/ Guard(q) \/ ReadMe(q) \/ FindByUsername(q)
           \/ ReadFollow(q) \/ SelectFollow(q) \/ InsertFollow(q) \/ DeleteFollow(q)
  BY <1>3 DEF FindByEmail, Verify, Guard, ReadMe, FindByUsername, ReadFollow, SelectFollow,
     InsertFollow, DeleteFollow
<1>4. QED
  BY <1>1, <1>2, <1>3 DEF Step

\* The three things a step may do to the table of follows.
LEMMA FollowsEffect ==
    ASSUME NEW q \in Requests, Step(q)
    PROVE  \/ follows' = follows
           \/ /\ pc[q] = "insertingFollow"
              /\ {task[q].viewer, task[q].target} \subseteq Present
              /\ follows' = follows \union {FollowOf(q)}
              /\ users' = users
           \/ /\ pc[q] = "deletingFollow"
              /\ follows' = follows \ {FollowOf(q)}
              /\ users' = users
<1> USE DEF Fail, Reply, Goto, tables
<1>1. CASE InsertFollow(q) \/ DeleteFollow(q)
  BY <1>1 DEF InsertFollow, DeleteFollow
<1>2. CASE Register(q) \/ FindByEmail(q) \/ Verify(q) \/ Guard(q) \/ ReadMe(q) \/ Update(q)
           \/ FindByUsername(q) \/ ReadFollow(q) \/ SelectFollow(q)
  BY <1>2 DEF Register, FindByEmail, Verify, Guard, ReadMe, Update, FindByUsername, ReadFollow,
     SelectFollow
<1>3. QED
  BY <1>1, <1>2 DEF Step

\* Every answer the use-cases make has the type of an answer.
LEMMA AnswerTypes ==
    /\ \A status \in Statuses : Refusal(status) \in Answers
    /\ \A a \in Ids \union {None} : Own(a) \in Answers
    /\ \A a \in Ids \union {None} : \A b \in BOOLEAN : Profile(a, b) \in Answers
    /\ \A code : UserError(code) \in Statuses /\ FollowError(code) \in Statuses
BY DEF Refusal, Own, Profile, UserError, FollowError, Answers, Statuses

\* The variables of the requests have their types.
OwnTyped ==
    /\ pc \in [Requests -> Stages]
    /\ task \in [Requests -> Tasks]
    /\ answer \in [Requests -> Answers]

LEMMA ReplyTyped ==
    ASSUME OwnTyped, NEW q \in Requests, NEW a \in Answers, Reply(q, a), task' = task
    PROVE  OwnTyped'
BY DEF OwnTyped, Reply, Goto, Stages

LEMMA FailTyped ==
    ASSUME OwnTyped, NEW q \in Requests, NEW status \in Statuses, Fail(q, status)
    PROVE  OwnTyped'
<1>1. Refusal(status) \in Answers
  BY AnswerTypes
<1>2. QED
  BY <1>1, ReplyTyped DEF Fail

LEMMA GotoTyped ==
    ASSUME OwnTyped, NEW q \in Requests, NEW stage \in Stages, NEW own \in Tasks,
           Goto(q, stage), task' = [task EXCEPT ![q] = own], answer' = answer
    PROVE  OwnTyped'
BY DEF OwnTyped, Goto

\* What a step writes in the variables of its own request.
LEMMA OwnTypeStep ==
    ASSUME IInv, NEW q \in Requests, Step(q)
    PROVE  OwnTyped'
<1> USE DEF tables
<1>1. Routed /\ sent[q] \in Inputs /\ q \in Ids /\ OwnTyped /\ task[q] \in Tasks
  BY MenuTypes DEF IInv, TypeOK, Ids, OwnTyped
<1>2. \A a \in Present : a \in Ids /\ users[a] \in Rows
  BY DEF IInv, Present, TypeOK
<1>3. sent[q].bearer \in Present => sent[q].bearer \in Seeds
  BY <1>1, <1>2, NoneAssumption DEF Inputs
<1>4. /\ task[q].target \in Ids \union {None}
      /\ task[q].viewer \in Present => task[q].viewer \in Ids
  BY <1>1, <1>2 DEF Tasks
<1>5. /\ \A a \in Seeds, row \in Rows : [task[q] EXCEPT !.viewer = a, !.read = row] \in Tasks
      /\ \A a \in Ids, row \in Rows : [task[q] EXCEPT !.target = a, !.read = row] \in Tasks
      /\ \A a \in Ids, row \in Rows : [task[q] EXCEPT !.read = row, !.target = a] \in Tasks
  BY <1>1 DEF Tasks
<1>6. task = [task EXCEPT ![q] = task[q]]
  BY <1>1 DEF OwnTyped
<1>7. CASE Register(q)
  <2>1. Own(q) \in Answers /\ \A code : UserError(code) \in Statuses
    BY <1>1, AnswerTypes
  <2>2. QED
    BY <1>1, <1>7, <2>1, ReplyTyped, FailTyped DEF Register
<1>8. CASE FindByEmail(q)
  <2>1. "verifying" \in Stages
    BY DEF Stages
  <2>2. CASE UNCHANGED task
    BY <1>1, <1>6, <1>8, <2>1, <2>2, GotoTyped DEF FindByEmail
  <2>3. ASSUME NEW a \in WithEmail(sent[q].email),
               task' = [task EXCEPT ![q].read = users[a], ![q].target = a]
        PROVE  OwnTyped'
    <3> DEFINE own == [task[q] EXCEPT !.read = users[a], !.target = a]
    <3>1. task' = [task EXCEPT ![q] = own]
      BY <1>1, <2>3 DEF OwnTyped
    <3>2. own \in Tasks
      BY <1>2, <1>5 DEF WithEmail
    <3>3. QED
      BY <1>1, <1>8, <2>1, <3>1, <3>2, GotoTyped DEF FindByEmail
  <2>4. QED
    BY <1>8, <2>2, <2>3 DEF FindByEmail
<1>9. CASE Verify(q)
  <2>1. Own(task[q].target) \in Answers /\ "unauthorized" \in Statuses
    BY <1>4, AnswerTypes DEF Statuses
  <2>2. QED
    BY <1>1, <1>9, <2>1, ReplyTyped, FailTyped DEF Verify
<1>10. CASE Guard(q)
  <2>1. NextStage[sent[q].op] \in Stages /\ "unauthorized" \in Statuses
    BY <1>10 DEF Guard, NextStage, Stages, Statuses
  <2>2. CASE sent[q].bearer \in Present
    <3> DEFINE own == [task[q] EXCEPT !.viewer = sent[q].bearer, !.read = users[sent[q].bearer]]
    <3>1. task' = [task EXCEPT ![q] = own]
      BY <1>1, <1>10, <2>2 DEF Guard, OwnTyped
    <3>2. own \in Tasks
      BY <1>2, <1>3, <1>5, <2>2
    <3>3. QED
      BY <1>1, <1>10, <2>1, <2>2, <3>1, <3>2, GotoTyped DEF Guard
  <2>3. CASE sent[q].bearer \notin Present
    BY <1>1, <1>6, <1>10, <2>1, <2>3, GotoTyped, FailTyped DEF Guard
  <2>4. QED
    BY <2>2, <2>3
<1>11. CASE ReadMe(q)
  <2>1. /\ task[q].viewer \in Present => Own(task[q].viewer) \in Answers
        /\ "unauthorized" \in Statuses
    BY <1>4, AnswerTypes DEF Statuses
  <2>2. QED
    BY <1>1, <1>11, <2>1, ReplyTyped, FailTyped DEF ReadMe
<1>12. CASE Update(q)
  <2>1. /\ task[q].viewer \in Present => Own(task[q].viewer) \in Answers
        /\ \A code : UserError(code) \in Statuses
    BY <1>4, AnswerTypes
  <2>2. QED
    BY <1>1, <1>12, <2>1, ReplyTyped, FailTyped DEF Update
<1>13. CASE FindByUsername(q)
  <2>1. StageOfProfile[sent[q].op] \in Stages /\ "notFound" \in Statuses
    BY <1>1, <1>13 DEF FindByUsername, Routed, RoutedAt, StageOfProfile, Stages, Statuses
  <2>2. CASE Fail(q, "notFound")
    BY <1>1, <2>1, <2>2, FailTyped
  <2>3. ASSUME NEW a \in WithUsername(sent[q].name),
               task' = [task EXCEPT ![q].target = a, ![q].read = users[a]],
               Goto(q, StageOfProfile[sent[q].op]),
               answer' = answer
        PROVE  OwnTyped'
    <3> DEFINE own == [task[q] EXCEPT !.target = a, !.read = users[a]]
    <3>1. task' = [task EXCEPT ![q] = own]
      BY <1>1, <2>3 DEF OwnTyped
    <3>2. own \in Tasks
      BY <1>2, <1>5 DEF WithUsername
    <3>3. QED
      BY <1>1, <2>1, <2>3, <3>1, <3>2, GotoTyped
  <2>4. QED
    BY <1>13, <2>2, <2>3 DEF FindByUsername
<1>14. CASE ReadFollow(q)
  <2>1. (task[q].viewer # None /\ FollowOf(q) \in follows) \in BOOLEAN
    OBVIOUS
  <2>2. Profile(task[q].target, task[q].viewer # None /\ FollowOf(q) \in follows) \in Answers
    BY <1>4, <2>1, AnswerTypes
  <2>3. QED
    BY <1>1, <1>14, <2>2, ReplyTyped DEF ReadFollow
<1>15. CASE SelectFollow(q) \/ InsertFollow(q) \/ DeleteFollow(q)
  <2>1. /\ Profile(task[q].target, TRUE) \in Answers
        /\ Profile(task[q].target, FALSE) \in Answers
        /\ FollowError("P2003") \in Statuses
        /\ "insertingFollow" \in Stages
    BY <1>4, AnswerTypes DEF Stages
  <2>2. CASE SelectFollow(q)
    BY <1>1, <1>6, <2>1, <2>2, ReplyTyped, GotoTyped DEF SelectFollow
  <2>3. CASE InsertFollow(q)
    BY <1>1, <2>1, <2>3, ReplyTyped, FailTyped DEF InsertFollow
  <2>4. CASE DeleteFollow(q)
    BY <1>1, <2>1, <2>4, ReplyTyped DEF DeleteFollow
  <2>5. QED
    BY <1>15, <2>2, <2>3, <2>4
<1>16. QED
  BY <1>7, <1>8, <1>9, <1>10, <1>11, <1>12, <1>13, <1>14, <1>15 DEF Step

\* What a step, or the removal of an account, writes in the tables.
LEMMA TablesTypeStep ==
    ASSUME IInv, NEW q \in Requests, Step(q)
    PROVE  /\ users' \in [Ids -> Rows \union {None}]
           /\ follows' \in SUBSET (Ids \X Ids)
<1>1. /\ users \in [Ids -> Rows \union {None}] /\ follows \in SUBSET (Ids \X Ids)
      /\ sent[q] \in Menu /\ q \in Ids
  BY DEF IInv, TypeOK, Ids
<1>2. \A a \in Present : a \in Ids /\ users[a] \in Rows
  BY <1>1 DEF Present
<1>3. sent[q].op = "register" => NewRow(q) \in Rows
  BY <1>1, RegisteredRow DEF NewRow
<1>4. task[q].viewer \in Present => Changed(q) \in Rows
  BY <1>1, <1>2, ChangedRow
<1>5. users' \in [Ids -> Rows \union {None}]
  BY <1>1, <1>2, <1>3, <1>4, UsersEffect
<1>6. follows' \in SUBSET (Ids \X Ids)
  BY <1>1, <1>2, FollowsEffect DEF FollowOf
<1>7. QED
  BY <1>5, <1>6

\* Where a request goes when it replies, fails or goes on.
LEMMA Moves ==
    ASSUME pc \in [Requests -> Stages], answer \in [Requests -> Answers], NEW q \in Requests
    PROVE  /\ \A a : Reply(q, a) => pc'[q] = "done" /\ answer'[q] = a
           /\ \A status : Fail(q, status) => pc'[q] = "done" /\ answer'[q].status = status
           /\ \A stage : Goto(q, stage) => pc'[q] = stage
BY DEF Reply, Fail, Goto, Refusal

LEMMA RoutedStep ==
    ASSUME IInv, NEW q \in Requests, Step(q)
    PROVE  Routed'
<1>1. /\ pc \in [Requests -> Stages] /\ task \in [Requests -> Tasks]
      /\ answer \in [Requests -> Answers]
  BY DEF IInv, TypeOK
<1>2. /\ sent' = sent
      /\ \A h \in Requests : h # q => pc'[h] = pc[h] /\ task'[h] = task[h]
  BY StepFrame DEF IInv
<1>3. SUFFICES RoutedAt(q)'
  BY <1>2 DEF IInv, Routed, RoutedAt
<1>4. RoutedAt(q)
  BY DEF IInv, Routed, RoutedAt
<1>5. /\ \A a : Reply(q, a) => pc'[q] = "done"
      /\ \A status : Fail(q, status) => pc'[q] = "done"
      /\ \A stage : Goto(q, stage) => pc'[q] = stage
  BY <1>1, Moves
<1>6. pc'[q] = "done" => RoutedAt(q)'
  BY DEF RoutedAt, Viewing
<1>7. CASE Register(q) \/ Verify(q) \/ ReadMe(q) \/ Update(q) \/ ReadFollow(q)
           \/ InsertFollow(q) \/ DeleteFollow(q)
  BY <1>5, <1>6, <1>7 DEF Register, Verify, ReadMe, Update, ReadFollow, InsertFollow, DeleteFollow
<1>8. CASE FindByEmail(q)
  <2>1. pc'[q] = "verifying" /\ sent[q].op = "login"
    BY <1>5, <1>8 DEF FindByEmail
  <2>2. QED
    BY <1>2, <2>1 DEF RoutedAt, Viewing
<1>9. CASE Guard(q)
  <2>1. CASE sent[q].bearer \in Present
    <3>1. task'[q].viewer = sent[q].bearer
      BY <1>1, <1>9, <2>1 DEF Guard, Tasks
    <3>2. sent[q].bearer # None
      BY <2>1, NoneAssumption DEF Present
    <3>3. pc'[q] = NextStage[sent[q].op] /\ sent[q].op \in DOMAIN NextStage
      BY <1>5, <1>9, <2>1 DEF Guard
    <3>4. QED
      BY <1>2, <3>1, <3>2, <3>3 DEF RoutedAt, NextStage, Viewing
  <2>2. CASE sent[q].bearer \notin Present /\ sent[q].op = "profile"
    <3>1. pc'[q] = NextStage["profile"]
      BY <1>5, <1>9, <2>2 DEF Guard
    <3>2. pc'[q] = "finding"
      BY <3>1 DEF NextStage
    <3>3. QED
      BY <1>2, <2>2, <3>2 DEF RoutedAt, Viewing
  <2>3. CASE sent[q].bearer \notin Present /\ sent[q].op # "profile"
    BY <1>5, <1>6, <1>9, <2>3 DEF Guard
  <2>4. QED
    BY <2>1, <2>2, <2>3
<1>10. CASE FindByUsername(q)
  <2>1. CASE Fail(q, "notFound")
    BY <1>5, <1>6, <2>1
  <2>2. ASSUME NEW a \in WithUsername(sent[q].name),
               task' = [task EXCEPT ![q].target = a, ![q].read = users[a]],
               Goto(q, StageOfProfile[sent[q].op])
        PROVE  RoutedAt(q)'
    <3>1. pc'[q] = StageOfProfile[sent[q].op] /\ pc[q] = "finding"
      BY <1>5, <1>10, <2>2 DEF FindByUsername
    <3>2. task'[q].viewer = task[q].viewer
      BY <1>1, <2>2 DEF Tasks
    <3>3. QED
      BY <1>2, <1>4, <3>1, <3>2 DEF RoutedAt, StageOfProfile, Viewing
  <2>3. QED
    BY <1>10, <2>1, <2>2 DEF FindByUsername
<1>11. CASE SelectFollow(q)
  <2>1. pc'[q] = "done" \/ pc'[q] = "insertingFollow"
    BY <1>5, <1>11 DEF SelectFollow
  <2>2. pc[q] = "selectingFollow" /\ task' = task
    BY <1>11 DEF SelectFollow
  <2>3. QED
    BY <1>2, <1>4, <1>6, <2>1, <2>2 DEF RoutedAt, Viewing
<1>12. QED
  BY <1>7, <1>8, <1>9, <1>10, <1>11 DEF Step

\* What the safety invariants say of the request that moves.
LEMMA OutcomeStep ==
    ASSUME IInv, NEW q \in Requests, Step(q)
    PROVE  /\ answer'[q].status # "failed"
           /\ pc'[q] # "done" => pc[q] # "done" /\ answer'[q] = answer[q]
<1> USE DEF Goto, tables
<1>1. /\ pc \in [Requests -> Stages] /\ answer \in [Requests -> Answers]
      /\ answer[q].status # "failed"
  BY DEF IInv, TypeOK, ErrorsAreTranslated
<1>2. \A a : Reply(q, a) => pc'[q] = "done" /\ answer'[q] = a
  BY <1>1, Moves
<1>3. \A status : Fail(q, status) => pc'[q] = "done" /\ answer'[q].status = status
  BY <1>1, Moves
<1>4. \A a, b : Own(a).status # "failed" /\ Profile(a, b).status # "failed"
  BY DEF Own, Profile
<1>5. /\ \A a, row : \A code \in Clashes(a, row) : UserError(code) # "failed"
      /\ UserError("P2025") # "failed" /\ FollowError("P2003") # "failed"
  BY ClashTranslated DEF UserError, FollowError
<1>6. CASE Register(q)
  <2>1. CASE \E code \in Clashes(q, NewRow(q)) : Fail(q, UserError(code))
    BY <1>3, <1>5, <2>1
  <2>2. CASE Reply(q, Own(q))
    BY <1>2, <1>4, <2>2
  <2>3. QED
    BY <1>6, <2>1, <2>2 DEF Register, NewRow
<1>7. CASE FindByEmail(q)
  BY <1>1, <1>7 DEF FindByEmail
<1>8. CASE Verify(q) \/ ReadMe(q)
  BY <1>2, <1>3, <1>4, <1>8 DEF Verify, ReadMe
<1>9. CASE Guard(q)
  BY <1>1, <1>3, <1>9 DEF Guard
<1>10. CASE Update(q)
  BY <1>2, <1>3, <1>4, <1>5, <1>10 DEF Update
<1>11. CASE FindByUsername(q)
  <2>1. CASE Fail(q, "notFound")
    BY <1>3, <2>1
  <2>2. CASE answer' = answer /\ pc[q] = "finding"
    BY <1>1, <2>2
  <2>3. QED
    BY <1>11, <2>1, <2>2 DEF FindByUsername
<1>12. CASE ReadFollow(q) \/ InsertFollow(q) \/ DeleteFollow(q)
  BY <1>2, <1>3, <1>4, <1>5, <1>12 DEF ReadFollow, InsertFollow, DeleteFollow
<1>13. CASE SelectFollow(q)
  BY <1>1, <1>2, <1>4, <1>13 DEF SelectFollow
<1>14. QED
  BY <1>6, <1>7, <1>8, <1>9, <1>10, <1>11, <1>12, <1>13 DEF Step

LEMMA UnregisteredStep ==
    ASSUME IInv, NEW q \in Requests, Step(q)
    PROVE  Unregistered'
<1>1. /\ users \in [Ids -> Rows \union {None}] /\ pc \in [Requests -> Stages]
      /\ Unregistered /\ Routed /\ Requests \subseteq Ids
  BY DEF IInv, TypeOK, Ids
<1>2. /\ sent' = sent
      /\ \A h \in Requests : h # q => pc'[h] = pc[h]
  BY StepFrame DEF IInv
<1>3. pc'[q] # "done" => pc[q] # "done"
  BY OutcomeStep
<1>4. SUFFICES ASSUME NEW h \in Requests, pc'[h] # "done" \/ sent[h].op # "register"
               PROVE  users'[h] = None
  BY <1>2 DEF Unregistered
<1>5. users[h] = None
  BY <1>1, <1>2, <1>3, <1>4 DEF Unregistered
<1>6. CASE users' = users
  BY <1>5, <1>6
<1>7. CASE /\ sent[q].op = "register"
           /\ users' = [users EXCEPT ![q] = NewRow(q)]
           /\ pc' = [pc EXCEPT ![q] = "done"]
  BY <1>1, <1>4, <1>5, <1>7
<1>8. CASE /\ task[q].viewer \in Present
           /\ users' = [users EXCEPT ![task[q].viewer] = Changed(q)]
  BY <1>1, <1>5, <1>8 DEF Present
<1>9. QED
  BY <1>6, <1>7, <1>8, UsersEffect

LEMMA DanglingStep ==
    ASSUME IInv, NEW q \in Requests, Step(q)
    PROVE  NoDanglingFollow'
<1>1. /\ users \in [Ids -> Rows \union {None}] /\ follows \in SUBSET (Ids \X Ids)
      /\ users' \in [Ids -> Rows \union {None}]
      /\ NoDanglingFollow /\ sent[q] \in Menu
  BY TablesTypeStep DEF IInv, TypeOK
<1>2. Present \subseteq Present'
  <2>1. sent[q].op = "register" => NewRow(q) # None
    BY <1>1, RegisteredRow, NoneAssumption DEF NewRow
  <2>2. task[q].viewer \in Present => Changed(q) # None
    BY <1>1, ChangedRow, NoneAssumption DEF Present
  <2>3. QED
    BY <1>1, <2>1, <2>2, UsersEffect DEF Present
<1>3. CASE follows' \subseteq follows
  BY <1>1, <1>2, <1>3 DEF NoDanglingFollow
<1>4. CASE /\ {task[q].viewer, task[q].target} \subseteq Present
           /\ follows' = follows \union {FollowOf(q)}
  BY <1>1, <1>2, <1>4 DEF NoDanglingFollow, FollowOf
<1>5. QED
  BY <1>3, <1>4, FollowsEffect

LEMMA RemoveStep ==
    ASSUME IInv, NEW a \in Seeds, Remove(a)
    PROVE  IInv'
<1>1. /\ TypeOK /\ Routed /\ Unregistered /\ PendingUntilDone /\ ErrorsAreTranslated
      /\ NoDanglingFollow
  BY DEF IInv
<1>2. /\ UNCHANGED <<sent, pc, task, answer>>
      /\ users' = [users EXCEPT ![a] = None]
      /\ follows' = {f \in follows : a \notin {f[1], f[2]}}
  BY DEF Remove
<1>3. TypeOK'
  BY <1>1, <1>2 DEF TypeOK
<1>4. Routed' /\ PendingUntilDone' /\ ErrorsAreTranslated'
  BY <1>1, <1>2 DEF Routed, RoutedAt, PendingUntilDone, ErrorsAreTranslated
<1>5. Unregistered'
  BY <1>1, <1>2 DEF Unregistered, TypeOK, Ids
<1>6. NoDanglingFollow'
  BY <1>1, <1>2 DEF NoDanglingFollow, Present, TypeOK
<1>7. QED
  BY <1>3, <1>4, <1>5, <1>6 DEF IInv

LEMMA IInvStep == IInv /\ [Next]_vars => IInv'
<1> SUFFICES ASSUME IInv, [Next]_vars PROVE IInv'
  OBVIOUS
<1>1. CASE UNCHANGED vars
  BY <1>1 DEF IInv, TypeOK, Routed, RoutedAt, Unregistered, PendingUntilDone, ErrorsAreTranslated,
     NoDanglingFollow, Present, vars
<1>2. ASSUME NEW q \in Requests, Step(q)
      PROVE  IInv'
  <2>1. /\ sent' = sent
        /\ \A h \in Requests : h # q => pc'[h] = pc[h] /\ answer'[h] = answer[h]
    BY <1>2, StepFrame DEF IInv
  <2>2. TypeOK'
    BY <1>2, <2>1, OwnTypeStep, TablesTypeStep DEF IInv, TypeOK, OwnTyped
  <2>3. PendingUntilDone' /\ ErrorsAreTranslated'
    BY <1>2, <2>1, OutcomeStep DEF IInv, PendingUntilDone, ErrorsAreTranslated
  <2>4. QED
    BY <1>2, <2>2, <2>3, RoutedStep, UnregisteredStep, DanglingStep DEF IInv
<1>3. ASSUME NEW a \in Seeds, Remove(a)
      PROVE  IInv'
  BY <1>3, RemoveStep
<1>4. QED
  BY <1>1, <1>2, <1>3 DEF Next

-----------------------------------------------------------------------------
(* The invariants *)

\* The invariant holds of any number of requests over any accounts.
THEOREM Invariance == Spec => []IInv
BY InitIInv, IInvStep, PTL DEF Spec

\* Whatever races with a request, every row keeps all its columns and a token
\* never leads to anything but an account present at the start.
THEOREM TypeCorrectness == Spec => []TypeOK
<1>1. IInv => TypeOK
  BY DEF IInv
<1>2. QED
  BY <1>1, Invariance, PTL

\* translatePrismaError and translateMissingReference leave no error of the
\* database without a translation, for any number of requests and accounts.
THEOREM ErrorsAreTranslatedHolds == Spec => []ErrorsAreTranslated
<1>1. IInv => ErrorsAreTranslated
  BY DEF IInv
<1>2. QED
  BY <1>1, Invariance, PTL

\* A follow relates two accounts that exist, whenever they are removed.
THEOREM NoDanglingFollowHolds == Spec => []NoDanglingFollow
<1>1. IInv => NoDanglingFollow
  BY DEF IInv
<1>2. QED
  BY <1>1, Invariance, PTL

-----------------------------------------------------------------------------
(* The action properties *)

LEMMA ChangeStep ==
    ASSUME IInv, [Next]_vars,
           NEW a \in Ids, NEW f \in Fields,
           users[a] # None, users'[a] # None, users'[a][f] # users[a][f]
    PROVE  \E q \in Requests : /\ sent[q].op = "update" /\ sent[q].bearer = a
                               /\ users'[a][f] = sent[q][f]
                               /\ pc[q] # "done" /\ pc'[q] = "done"
<1>1. /\ users \in [Ids -> Rows \union {None}] /\ pc \in [Requests -> Stages]
      /\ Unregistered /\ Routed
  BY DEF IInv, TypeOK
<1>2. PICK q \in Requests : Step(q)
  BY <1>1 DEF Next, Remove, vars
<1>3. CASE /\ pc[q] = "arrived"
           /\ users' = [users EXCEPT ![q] = NewRow(q)]
  BY <1>1, <1>3 DEF Unregistered
<1>4. CASE /\ pc[q] = "updating"
           /\ users' = [users EXCEPT ![task[q].viewer] = Changed(q)]
           /\ pc' = [pc EXCEPT ![q] = "done"]
  <2>1. a = task[q].viewer /\ users'[a] = Changed(q)
    BY <1>1, <1>4
  <2>2. sent[q].op = "update" /\ sent[q].bearer = a
    BY <1>1, <1>4, <2>1 DEF Routed, RoutedAt, Viewing
  <2>3. users'[a][f] = sent[q][f]
    BY <2>1 DEF Changed
  <2>4. QED
    BY <1>1, <1>4, <2>2, <2>3
<1>5. QED
  BY <1>2, <1>3, <1>4, UsersEffect

\* AC-3 of REQ-USER-004: a field changes only to what an update of the same
\* account asked for, so that two updates of different fields both last.
THEOREM ChangesAreKeptHolds == Spec => ChangesAreKept
<1>1. IInv /\ [Next]_vars
        => [\A a \in Ids, f \in Fields :
              users[a] # None /\ users'[a] # None /\ users'[a][f] # users[a][f] =>
                  \E q \in Requests : /\ sent[q].op = "update" /\ sent[q].bearer = a
                                      /\ users'[a][f] = sent[q][f]
                                      /\ pc[q] # "done" /\ pc'[q] = "done"]_vars
  BY ChangeStep
<1>2. QED
  BY <1>1, Invariance, PTL DEF Spec, ChangesAreKept

LEMMA FollowAnswerStep ==
    ASSUME IInv, [Next]_vars, NEW q \in Requests,
           sent[q].op \in {"follow", "unfollow"},
           answer[q] = Pending, answer'[q].status = "ok"
    PROVE  answer'[q].following = (<<sent[q].bearer, answer'[q].account>> \in follows')
<1>1. /\ pc \in [Requests -> Stages] /\ answer \in [Requests -> Answers] /\ Routed
  BY DEF IInv, TypeOK
<1>2. PICK r \in Requests : Step(r)
  BY DEF Next, Remove, vars, Pending
<1>3. r = q
  BY <1>1, <1>2, StepFrame DEF IInv, Pending
<1>4. /\ \A a : Reply(q, a) => answer'[q] = a
      /\ \A status : Fail(q, status) => answer'[q].status = status
  BY <1>1, Moves
<1>5. RoutedAt(q)
  BY <1>1 DEF Routed
<1>6. CASE SelectFollow(q) \/ InsertFollow(q) \/ DeleteFollow(q)
  <2>1. FollowOf(q) = <<sent[q].bearer, task[q].target>>
    BY <1>5, <1>6 DEF SelectFollow, InsertFollow, DeleteFollow, RoutedAt, Viewing, FollowOf
  <2>2. CASE Reply(q, Profile(task[q].target, TRUE)) /\ FollowOf(q) \in follows'
    <3>1. answer'[q] = Profile(task[q].target, TRUE)
      BY <1>4, <2>2
    <3>2. answer'[q].account = task[q].target /\ answer'[q].following = TRUE
      BY <3>1 DEF Profile
    <3>3. (<<sent[q].bearer, answer'[q].account>> \in follows') = TRUE
      BY <2>1, <2>2, <3>2
    <3>4. QED
      BY <3>2, <3>3
  <2>3. CASE Reply(q, Profile(task[q].target, FALSE)) /\ FollowOf(q) \notin follows'
    <3>1. answer'[q] = Profile(task[q].target, FALSE)
      BY <1>4, <2>3
    <3>2. answer'[q].account = task[q].target /\ answer'[q].following = FALSE
      BY <3>1 DEF Profile
    <3>3. (<<sent[q].bearer, answer'[q].account>> \in follows') = FALSE
      BY <2>1, <2>3, <3>2
    <3>4. QED
      BY <3>2, <3>3
  <2>4. CASE answer' = answer \/ Fail(q, FollowError("P2003"))
    BY <1>4, <2>4 DEF Pending, FollowError
  <2>5. QED
    BY <1>6, <2>2, <2>3, <2>4 DEF SelectFollow, InsertFollow, DeleteFollow, tables
<1>7. CASE Guard(q) \/ FindByUsername(q)
  <2>1. CASE answer' = answer
    BY <2>1 DEF Pending
  <2>2. CASE Fail(q, "unauthorized") \/ Fail(q, "notFound")
    BY <1>4, <2>2
  <2>3. QED
    BY <1>7, <2>1, <2>2 DEF Guard, FindByUsername
<1>8. CASE Register(q) \/ FindByEmail(q) \/ Verify(q) \/ ReadMe(q) \/ Update(q) \/ ReadFollow(q)
  BY <1>5, <1>8 DEF Register, FindByEmail, Verify, ReadMe, Update, ReadFollow, RoutedAt
<1>9. QED
  BY <1>2, <1>3, <1>6, <1>7, <1>8 DEF Step

\* AC-1 to AC-4 of REQ-PROFILE-003: what a follow or an unfollow announces is
\* what is stored when it ends.
THEOREM FollowAnswersWhatIsStoredHolds == Spec => FollowAnswersWhatIsStored
<1>1. IInv /\ [Next]_vars
        => [\A q \in Requests :
              /\ sent[q].op \in {"follow", "unfollow"}
              /\ answer[q] = Pending /\ answer'[q].status = "ok"
              => answer'[q].following = (<<sent[q].bearer, answer'[q].account>> \in follows')]_vars
  BY FollowAnswerStep
<1>2. QED
  BY <1>1, Invariance, PTL DEF Spec, FollowAnswersWhatIsStored

-----------------------------------------------------------------------------
(* The refinement: each unique column of the table is a Directory *)

Keys == {"email", "username"}

NamesOf(f) == IF f = "email" THEN Emails ELSE Usernames

Column(f) == [a \in Ids |-> IF users[a] = None THEN None ELSE users[a][f]]

\* Account a takes a name that nobody had.
Takes(f, a) ==
    /\ Column(f)'[a] \in NamesOf(f)
    /\ \A b \in Ids : Column(f)[b] # Column(f)'[a]
    /\ Column(f)' = [Column(f) EXCEPT ![a] = Column(f)'[a]]

\* No clash: no other account has the name that the row brings.
LEMMA NoClash ==
    ASSUME NEW f \in Keys, NEW a, NEW row, Clashes(a, row) = {},
           NEW b \in Present, users[b][f] = row[f]
    PROVE  b = a
<1>1. CASE f = "email"
  BY <1>1 DEF Clashes, WithEmail
<1>2. CASE f = "username"
  <2>1. WithUsername(row.username) \ {a} = {}
    BY DEF Clashes
  <2>2. QED
    BY <1>2, <2>1 DEF WithUsername
<1>3. QED
  BY <1>1, <1>2 DEF Keys

\* A name is never the mark of an account that is not there.
LEMMA KeyTypes ==
    ASSUME NEW f \in Keys, NEW row \in Rows
    PROVE  f \in Fields /\ row[f] \in NamesOf(f) /\ row[f] # None
BY FieldTypes DEF Keys, Fields, NamesOf

\* Writing a row that clashes with no other moves one entry of each column, to
\* a name that was free if it is another than before.
LEMMA WriteColumn ==
    ASSUME TypeOK, NEW f \in Keys, NEW a \in Ids, NEW row \in Rows,
           Clashes(a, row) = {}, users' = [users EXCEPT ![a] = row],
           users[a] = None \/ users[a][f] # row[f]
    PROVE  Takes(f, a)
<1>1. users \in [Ids -> Rows \union {None}] /\ users' \in [Ids -> Rows \union {None}]
  BY DEF TypeOK
<1>2. row # None /\ row[f] \in NamesOf(f) /\ row[f] # None
  BY KeyTypes, NoneAssumption
<1>3. /\ users'[a] = row
      /\ \A b \in Ids : b # a => users'[b] = users[b]
  BY <1>1
<1>4. Column(f)'[a] = row[f]
  BY <1>2, <1>3 DEF Column
<1>5. \A b \in Ids : b # a => Column(f)'[b] = Column(f)[b]
  BY <1>3 DEF Column
<1>6. ASSUME NEW b \in Ids
      PROVE  Column(f)[b] # row[f]
  <2>1. CASE users[b] = None
    BY <1>2, <2>1 DEF Column
  <2>2. CASE users[b] # None
    <3>1. Column(f)[b] = users[b][f] /\ b \in Present
      BY <2>2 DEF Column, Present
    <3>2. users[b][f] # row[f]
      BY <2>2, <3>1, NoClash
    <3>3. QED
      BY <3>1, <3>2
  <2>3. QED
    BY <2>1, <2>2
<1>7. Column(f)' = [Column(f) EXCEPT ![a] = Column(f)'[a]]
  <2>1. /\ Column(f) = [b \in Ids |-> Column(f)[b]]
        /\ Column(f)' = [b \in Ids |-> Column(f)'[b]]
    BY DEF Column
  <2>2. QED
    BY <1>5, <2>1
<1>8. QED
  BY <1>2, <1>4, <1>6, <1>7 DEF Takes

\* An answer that is no success registers nobody, and neither does one to
\* another request than a registration.
LEMMA RegisteredStep ==
    ASSUME IInv, NEW q \in Requests, Step(q), users' = users
    PROVE  Registered' = Registered
<1>1. /\ sent' = sent
      /\ \A h \in Requests : h # q => answer'[h] = answer[h]
  BY StepFrame DEF IInv
<1>2. answer[q] = Pending
  <2>1. pc[q] # "done"
    BY DEF Step, Register, FindByEmail, Verify, Guard, ReadMe, Update, FindByUsername,
       ReadFollow, SelectFollow, InsertFollow, DeleteFollow
  <2>2. QED
    BY <2>1 DEF IInv, PendingUntilDone
<1>3. ASSUME sent[q].op = "register", answer'[q].status = "ok"
      PROVE  FALSE
  <2>1. Register(q)
    <3>1. RoutedAt(q)
      BY DEF IInv, Routed
    <3>2. QED
      BY <1>3, <3>1
         DEF Step, FindByEmail, Verify, Guard, NextStage, ReadMe, Update, FindByUsername,
             ReadFollow, SelectFollow, InsertFollow, DeleteFollow, RoutedAt
  <2>2. CASE \E code \in Clashes(q, NewRow(q)) : Fail(q, UserError(code))
    <3>1. PICK code \in Clashes(q, NewRow(q)) : Fail(q, UserError(code))
      BY <2>2
    <3>2. answer'[q].status = UserError(code)
      BY <3>1, Moves DEF IInv, TypeOK
    <3>3. QED
      BY <1>3, <3>2, ClashTranslated
  <2>3. CASE users' = [users EXCEPT ![q] = NewRow(q)]
    <3>1. users[q] = None
      BY <2>1 DEF Register, IInv, Unregistered
    <3>2. NewRow(q) \in Rows /\ users'[q] = NewRow(q)
      BY <1>3, <2>3, RegisteredRow DEF IInv, TypeOK, NewRow, Ids
    <3>3. QED
      BY <3>1, <3>2, NoneAssumption
  <2>4. QED
    BY <2>1, <2>2, <2>3 DEF Register, NewRow
<1>4. QED
  BY <1>1, <1>2, <1>3 DEF Registered, Pending

\* What a step does to a unique column and to those who have registered.
LEMMA ColumnStep ==
    ASSUME IInv, [Next]_vars, NEW f \in Keys
    PROVE  \/ Column(f)' = Column(f) /\ Registered' = Registered
           \/ \E a \in Ids : /\ a \notin Seeds \union Registered
                             /\ Takes(f, a)
                             /\ Registered' = Registered \union {a}
           \/ \E a \in Ids : /\ Column(f)[a] # None
                             /\ Takes(f, a)
                             /\ Registered' = Registered
           \/ \E a \in Ids : /\ Column(f)[a] # None
                             /\ Column(f)' = [Column(f) EXCEPT ![a] = None]
                             /\ Registered' = Registered
<1>1. TypeOK /\ users \in [Ids -> Rows \union {None}] /\ answer \in [Requests -> Answers]
  BY DEF IInv, TypeOK
<1>2. CASE UNCHANGED vars
  BY <1>2 DEF vars, Column, Registered
<1>3. ASSUME NEW a \in Seeds, Remove(a)
      PROVE  \E b \in Ids : /\ Column(f)[b] # None
                            /\ Column(f)' = [Column(f) EXCEPT ![b] = None]
                            /\ Registered' = Registered
  <2>1. a \in Ids /\ users[a] \in Rows
    BY <1>1, <1>3 DEF Remove, Present
  <2>2. Column(f)[a] # None
    BY <2>1, KeyTypes, NoneAssumption DEF Column
  <2>3. Column(f)' = [Column(f) EXCEPT ![a] = None]
    BY <1>1, <1>3 DEF Remove, Column
  <2>4. Registered' = Registered
    BY <1>3 DEF Remove, Registered
  <2>5. QED
    BY <2>1, <2>2, <2>3, <2>4
<1>4. ASSUME NEW q \in Requests, Step(q), users' = users
      PROVE  Column(f)' = Column(f) /\ Registered' = Registered
  BY <1>4, RegisteredStep DEF Column
<1>5. ASSUME NEW q \in Requests, Step(q),
             pc[q] = "arrived", sent[q].op = "register", Clashes(q, NewRow(q)) = {},
             users' = [users EXCEPT ![q] = NewRow(q)],
             answer' = [answer EXCEPT ![q] = Own(q)]
      PROVE  /\ q \in Ids /\ q \notin Seeds \union Registered
             /\ Takes(f, q)
             /\ Registered' = Registered \union {q}
  <2>1. q \in Ids /\ users[q] = None /\ NewRow(q) \in Rows
    BY <1>1, <1>5, RegisteredRow DEF Ids, IInv, Unregistered, TypeOK, NewRow
  <2>2. q \notin Seeds \union Registered
    BY <1>5, SeedAssumption DEF IInv, PendingUntilDone, Registered, Pending
  <2>3. Takes(f, q)
    BY <1>1, <1>5, <2>1, WriteColumn
  <2>4. answer'[q].status = "ok" /\ \A h \in Requests : h # q => answer'[h] = answer[h]
    BY <1>1, <1>5 DEF Own
  <2>5. sent' = sent
    BY <1>1, <1>5, StepFrame
  <2>6. Registered' = Registered \union {q}
    BY <1>5, <2>4, <2>5 DEF Registered
  <2>7. QED
    BY <2>1, <2>2, <2>3, <2>6
<1>6. ASSUME NEW q \in Requests, Step(q),
             pc[q] = "updating", task[q].viewer \in Present,
             Clashes(task[q].viewer, Changed(q)) = {},
             users' = [users EXCEPT ![task[q].viewer] = Changed(q)],
             answer' = [answer EXCEPT ![q] = Own(task[q].viewer)]
      PROVE  /\ Registered' = Registered
             /\ \/ Column(f)' = Column(f)
                \/ Column(f)[task[q].viewer] # None /\ Takes(f, task[q].viewer)
  <2> DEFINE a == task[q].viewer
  <2>1. a \in Ids /\ users[a] # None /\ users[a] \in Rows
    BY <1>1, <1>6 DEF Present
  <2>2. Changed(q) \in Rows
    BY <1>1, <2>1, ChangedRow DEF TypeOK
  <2>3. Registered' = Registered
    <3>1. sent' = sent /\ sent[q].op = "update"
      BY <1>1, <1>6, StepFrame DEF IInv, Routed, RoutedAt
    <3>2. \A h \in Requests : h # q => answer'[h] = answer[h]
      BY <1>1, <1>6
    <3>3. QED
      BY <3>1, <3>2 DEF Registered
  <2>4. CASE users[a][f] = Changed(q)[f]
    <3>1. Changed(q) # None
      BY <2>2, NoneAssumption
    <3>2. \A b \in Ids : users'[b] = IF b = a THEN Changed(q) ELSE users[b]
      BY <1>1, <1>6
    <3>3. Column(f)' = Column(f)
      BY <2>1, <2>4, <3>1, <3>2 DEF Column
    <3>4. QED
      BY <2>3, <3>3
  <2>5. CASE users[a][f] # Changed(q)[f]
    <3>1. Column(f)[a] # None
      BY <2>1, KeyTypes DEF Column
    <3>2. Takes(f, a)
      BY <1>1, <1>6, <2>1, <2>2, <2>5, WriteColumn
    <3>3. QED
      BY <2>3, <3>1, <3>2
  <2>6. QED
    BY <2>4, <2>5
<1>7. ASSUME NEW q \in Requests, Step(q)
      PROVE  \/ Column(f)' = Column(f) /\ Registered' = Registered
             \/ \E a \in Ids : /\ a \notin Seeds \union Registered
                               /\ Takes(f, a)
                               /\ Registered' = Registered \union {a}
             \/ \E a \in Ids : /\ Column(f)[a] # None
                               /\ Takes(f, a)
                               /\ Registered' = Registered
  <2>1. task[q].viewer \in Present => task[q].viewer \in Ids
    BY DEF Present
  <2>2. QED
    BY <1>4, <1>5, <1>6, <1>7, <2>1, UsersEffect
<1>8. QED
  BY <1>2, <1>3, <1>7 DEF Next

\* The columns at the start.
LEMMA ColumnInit ==
    ASSUME Init, NEW f \in Keys
    PROVE  /\ Registered = {}
           /\ \A a \in Ids : IF a \in Seeds THEN Column(f)[a] \in NamesOf(f)
                                            ELSE Column(f)[a] = None
           /\ \A a, b \in Seeds : Column(f)[a] = Column(f)[b] => a = b
<1>1. Registered = {}
  BY DEF Init, Registered, Pending
<1>2. ASSUME NEW a \in Seeds
      PROVE  Column(f)[a] = SeedRow[a][f] /\ SeedRow[a][f] \in NamesOf(f)
  <2>1. SeedRow[a] \in Rows /\ SeedRow[a] # None /\ a \in Ids
    BY SeedAssumption, NoneAssumption DEF Ids
  <2>2. QED
    BY <2>1, KeyTypes DEF Init, Column
<1>3. \A a \in Ids : a \notin Seeds => Column(f)[a] = None
  BY DEF Init, Column
<1>4. ASSUME NEW a \in Seeds, NEW b \in Seeds, SeedRow[a][f] = SeedRow[b][f]
      PROVE  a = b
  BY <1>4, SeedAssumption DEF Keys
<1>5. QED
  BY <1>1, <1>2, <1>3, <1>4 DEF Ids

LEMMA MailboxInit == Init => Mailbox!Init
<1> SUFFICES ASSUME Init PROVE Mailbox!Init
  OBVIOUS
<1>1. "email" \in Keys /\ NamesOf("email") = Emails
  BY DEF Keys, NamesOf
<1>2. /\ Registered = {}
      /\ \A a \in Ids : IF a \in Seeds THEN Column("email")[a] \in NamesOf("email")
                                       ELSE Column("email")[a] = None
      /\ \A a, b \in Seeds : Column("email")[a] = Column("email")[b] => a = b
  BY <1>1, ColumnInit
<1>3. Seeds \union Registered = Seeds
  BY <1>2
<1>4. QED
  BY <1>1, <1>2, <1>3 DEF Mailbox!Init, Column

LEMMA HandleInit == Init => Handle!Init
<1> SUFFICES ASSUME Init PROVE Handle!Init
  OBVIOUS
<1>1. "username" \in Keys /\ NamesOf("username") = Usernames
  BY DEF Keys, NamesOf
<1>2. /\ Registered = {}
      /\ \A a \in Ids : IF a \in Seeds THEN Column("username")[a] \in NamesOf("username")
                                       ELSE Column("username")[a] = None
      /\ \A a, b \in Seeds : Column("username")[a] = Column("username")[b] => a = b
  BY <1>1, ColumnInit
<1>3. Seeds \union Registered = Seeds
  BY <1>2
<1>4. QED
  BY <1>1, <1>2, <1>3 DEF Handle!Init, Column

LEMMA MailboxStep ==
    ASSUME IInv, [Next]_vars
    PROVE  [Mailbox!Next]_(Mailbox!vars)
<1>1. "email" \in Keys /\ NamesOf("email") = Emails
  BY DEF Keys, NamesOf
<1>2. \A a \in Ids : Takes("email", a) => Mailbox!Settle(a)
  BY <1>1 DEF Takes, Column, Mailbox!Settle, Mailbox!Free
<1>3. CASE Column("email")' = Column("email") /\ Registered' = Registered
  BY <1>3 DEF Column, Mailbox!vars
<1>4. CASE \E a \in Ids : /\ a \notin Seeds \union Registered
                          /\ Takes("email", a)
                          /\ Registered' = Registered \union {a}
  BY <1>2, <1>4 DEF Mailbox!Next, Mailbox!Publish
<1>5. CASE \E a \in Ids : /\ Column("email")[a] # None
                          /\ Takes("email", a)
                          /\ Registered' = Registered
  BY <1>2, <1>5 DEF Mailbox!Next, Mailbox!Move, Column
<1>6. CASE \E a \in Ids : /\ Column("email")[a] # None
                          /\ Column("email")' = [Column("email") EXCEPT ![a] = None]
                          /\ Registered' = Registered
  BY <1>6 DEF Mailbox!Next, Mailbox!Drop, Column
<1>7. QED
  BY <1>1, <1>3, <1>4, <1>5, <1>6, ColumnStep

LEMMA HandleStep ==
    ASSUME IInv, [Next]_vars
    PROVE  [Handle!Next]_(Handle!vars)
<1>1. "username" \in Keys /\ NamesOf("username") = Usernames
  BY DEF Keys, NamesOf
<1>2. \A a \in Ids : Takes("username", a) => Handle!Settle(a)
  BY <1>1 DEF Takes, Column, Handle!Settle, Handle!Free
<1>3. CASE Column("username")' = Column("username") /\ Registered' = Registered
  BY <1>3 DEF Column, Handle!vars
<1>4. CASE \E a \in Ids : /\ a \notin Seeds \union Registered
                          /\ Takes("username", a)
                          /\ Registered' = Registered \union {a}
  BY <1>2, <1>4 DEF Handle!Next, Handle!Publish
<1>5. CASE \E a \in Ids : /\ Column("username")[a] # None
                          /\ Takes("username", a)
                          /\ Registered' = Registered
  BY <1>2, <1>5 DEF Handle!Next, Handle!Move, Column
<1>6. CASE \E a \in Ids : /\ Column("username")[a] # None
                          /\ Column("username")' = [Column("username") EXCEPT ![a] = None]
                          /\ Registered' = Registered
  BY <1>6 DEF Handle!Next, Handle!Drop, Column
<1>7. QED
  BY <1>1, <1>3, <1>4, <1>5, <1>6, ColumnStep

\* R-8: an e-mail, or a username, leads to one account at most, moves only to a
\* free one, and an account that has been removed never comes back.
THEOREM KeepsNamesHolds == Spec => KeepsNames
<1>1. Spec => Mailbox!Spec
  BY MailboxInit, MailboxStep, Invariance, PTL DEF Spec, Mailbox!Spec
<1>2. Spec => Handle!Spec
  BY HandleInit, HandleStep, Invariance, PTL DEF Spec, Handle!Spec
<1>3. QED
  BY <1>1, <1>2 DEF KeepsNames

=============================================================================
