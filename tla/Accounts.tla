------------------------------ MODULE Accounts ------------------------------
(***************************************************************************)
(* Accounts and follows behind the HTTP API: the use-cases of              *)
(* application/user and application/profile, the guards that stand before  *)
(* them and the Prisma adapters under them.                                *)
(*                                                                         *)
(* A request is a process and each awaited query a step, as in Articles.   *)
(* PostgreSQL is the two tables and their constraints: unique e-mail,      *)
(* unique username, composite key of a follow, foreign keys with ON DELETE *)
(* CASCADE.  An error of the database is a code, and what the adapter does *)
(* not translate comes out as a 500.                                       *)
(*                                                                         *)
(* An account is named by the request that registered it, or is one of     *)
(* those present at the start; the name stands for its database id, which  *)
(* is all a token holds.                                                   *)
(***************************************************************************)
EXTENDS Naturals

CONSTANTS
    Requests,
    Seeds,          \* accounts present before the first request
    SeedRow,        \* their rows
    Emails,
    Usernames,
    Passwords,      \* which stand for their argon2id hashes
    Bios,           \* bio and image, null included
    Menu,           \* the requests a client may send
    None

Ids == Seeds \union Requests

Rows == [email: Emails, username: Usernames, password: Passwords, bio: Bios]

Fields == {"email", "username", "password", "bio"}

\* bearer: account named by the token of the header, None when there is no
\* token or one that jose refuses.  name: the username of the URL.  A column
\* that an update does not mention is None, which null is not.
Inputs == [op: {"register", "login", "me", "update", "profile", "follow", "unfollow"},
           bearer: Seeds \union {None},
           name: Usernames \union {None},
           email: Emails \union {None},
           username: Usernames \union {None},
           password: Passwords \union {None},
           bio: Bios \union {None}]

ASSUME InputAssumption ==
    /\ Menu \subseteq Inputs
    /\ \A input \in Menu :
        /\ input.op = "register" => None \notin {input.email, input.username, input.password, input.bio}
        /\ input.op = "login" => None \notin {input.email, input.password}
        /\ input.op \in {"profile", "follow", "unfollow"} => input.name # None

ASSUME SeedAssumption ==
    /\ Seeds \intersect Requests = {}
    /\ SeedRow \in [Seeds -> Rows]
    /\ \A a, b \in Seeds :
        SeedRow[a].email = SeedRow[b].email \/ SeedRow[a].username = SeedRow[b].username => a = b

ASSUME NoneAssumption ==
    None \notin Ids \union Rows \union Emails \union Usernames \union Passwords \union Bios

VARIABLES
    sent,       \* the operation each request carries
    pc,         \* the await each request stands at
    task,       \* read: row the use-case holds.  viewer, target: ids it holds
    users,      \* table users
    follows,    \* table follows: pairs <<follower, following>>
    answer

vars == <<sent, pc, task, users, follows, answer>>
tables == <<users, follows>>

-----------------------------------------------------------------------------
Present == {a \in Ids : users[a] # None}

WithEmail(email) == {a \in Present : users[a].email = email}
WithUsername(name) == {a \in Present : users[a].username = name}

BlankTask == [read |-> None, viewer |-> None, target |-> None]

Pending == [status |-> "pending", account |-> None, following |-> FALSE]
Refusal(status) == [status |-> status, account |-> None, following |-> FALSE]
Own(a) == [status |-> "ok", account |-> a, following |-> FALSE]
Profile(a, following) == [status |-> "ok", account |-> a, following |-> following]

Goto(q, stage) == pc' = [pc EXCEPT ![q] = stage]

Reply(q, a) == /\ Goto(q, "done")
               /\ answer' = [answer EXCEPT ![q] = a]

Fail(q, status) == /\ Reply(q, Refusal(status))
                   /\ UNCHANGED <<sent, task, tables>>

\* Mutant: only the violation of uniqueness was thought of.
UserErrorOfConflicts(code) ==
    CASE code = "P2002 email"    -> "emailTaken"
      [] code = "P2002 username" -> "usernameTaken"
      [] OTHER                   -> "failed"

\* translatePrismaError of the users.
UserError(code) ==
    CASE code = "P2025"          -> "unauthorized"
      [] code = "P2002 email"    -> "emailTaken"
      [] code = "P2002 username" -> "usernameTaken"
      [] OTHER                   -> "failed"

\* translateMissingReference of the follows.
FollowError(code) == IF code = "P2003" THEN "notFound" ELSE "failed"

\* Mutant: no unique index on the username.
ClashesOnEmail(a, row) == IF WithEmail(row.email) \ {a} # {} THEN {"P2002 email"} ELSE {}

\* The constraints that row a would violate; a row never conflicts with itself.
Clashes(a, row) ==
    (IF WithEmail(row.email) \ {a} # {} THEN {"P2002 email"} ELSE {})
    \union (IF WithUsername(row.username) \ {a} # {} THEN {"P2002 username"} ELSE {})

-----------------------------------------------------------------------------
Init ==
    /\ sent \in [Requests -> Menu]
    /\ pc = [q \in Requests |-> "arrived"]
    /\ task = [q \in Requests |-> BlankTask]
    /\ users = [a \in Ids |-> IF a \in Seeds THEN SeedRow[a] ELSE None]
    /\ follows \in SUBSET {f \in Seeds \X Seeds : f[1] # f[2]}
    /\ answer = [q \in Requests |-> Pending]

\* register: hash, then one INSERT; the constraints decide, nothing is read
\* before.  When both are violated PostgreSQL names either.
Register(q) ==
    /\ pc[q] = "arrived"
    /\ sent[q].op = "register"
    /\ LET row == [f \in Fields |-> sent[q][f]]
       IN  \/ \E code \in Clashes(q, row) : Fail(q, UserError(code))
           \/ /\ Clashes(q, row) = {}
              /\ users' = [users EXCEPT ![q] = row]
              /\ Reply(q, Own(q))
              /\ UNCHANGED <<sent, task, follows>>

\* findByEmail; an unknown e-mail goes on with a decoy hash.
FindByEmail(q) ==
    /\ pc[q] = "arrived"
    /\ sent[q].op = "login"
    /\ \/ /\ WithEmail(sent[q].email) = {}
          /\ UNCHANGED task
       \/ \E a \in WithEmail(sent[q].email) :
            task' = [task EXCEPT ![q].read = users[a], ![q].target = a]
    /\ Goto(q, "verifying")
    /\ UNCHANGED <<sent, tables, answer>>

\* verify against the hash that was read, decoy included.
Verify(q) ==
    /\ pc[q] = "verifying"
    /\ IF task[q].read # None /\ task[q].read.password = sent[q].password
         THEN /\ Reply(q, Own(task[q].target))
              /\ UNCHANGED <<sent, task, tables>>
         ELSE Fail(q, "unauthorized")

-----------------------------------------------------------------------------
(* The guards *)

NextStage == [me |-> "reading", update |-> "updating", profile |-> "finding",
              follow |-> "finding", unfollow |-> "finding"]

\* resolveUserId, and AuthGuard or, on a profile, OptionalAuthGuard: a token
\* is worth nothing once its account has gone.
Guard(q) ==
    /\ pc[q] = "arrived"
    /\ sent[q].op \in DOMAIN NextStage
    /\ \/ /\ sent[q].bearer \in Present
          /\ task' = [task EXCEPT ![q].viewer = sent[q].bearer, ![q].read = users[sent[q].bearer]]
          /\ Goto(q, NextStage[sent[q].op])
          /\ UNCHANGED <<sent, tables, answer>>
       \/ /\ sent[q].bearer \notin Present
          /\ sent[q].op = "profile"
          /\ Goto(q, NextStage[sent[q].op])
          /\ UNCHANGED <<sent, task, tables, answer>>
       \/ /\ sent[q].bearer \notin Present
          /\ sent[q].op # "profile"
          /\ Fail(q, "unauthorized")

-----------------------------------------------------------------------------
(* The current account *)

\* getCurrentUser reads the account again.
ReadMe(q) ==
    /\ pc[q] = "reading"
    /\ IF task[q].viewer \in Present
         THEN /\ Reply(q, Own(task[q].viewer))
              /\ UNCHANGED <<sent, task, tables>>
         ELSE Fail(q, "unauthorized")

\* Mutant: the whole row is written, from the one the guard had read.
ChangedSinceGuard(q) ==
    [f \in Fields |-> IF sent[q][f] = None THEN task[q].read[f] ELSE sent[q][f]]

\* Mutant: the columns that were not sent are written as undefined.
ChangedBlanking(q) == [f \in Fields |-> sent[q][f]]

\* UPDATE of the columns that were sent, on the row as it is then.
Changed(q) ==
    [f \in Fields |-> IF sent[q][f] = None THEN users[task[q].viewer][f] ELSE sent[q][f]]

\* updateUser: no prior read of the e-mail or of the username.
Update(q) ==
    /\ pc[q] = "updating"
    /\ LET a == task[q].viewer
       IN  \/ /\ a \notin Present
              /\ Fail(q, UserError("P2025"))
           \/ /\ a \in Present
              /\ \E code \in Clashes(a, Changed(q)) : Fail(q, UserError(code))
           \/ /\ a \in Present
              /\ Clashes(a, Changed(q)) = {}
              /\ users' = [users EXCEPT ![a] = Changed(q)]
              /\ Reply(q, Own(a))
              /\ UNCHANGED <<sent, task, follows>>

-----------------------------------------------------------------------------
(* Profiles *)

StageOfProfile == [profile |-> "readingFollow", follow |-> "selectingFollow",
                   unfollow |-> "deletingFollow"]

\* findByUsername.
FindByUsername(q) ==
    /\ pc[q] = "finding"
    /\ \/ /\ WithUsername(sent[q].name) = {}
          /\ Fail(q, "notFound")
       \/ \E a \in WithUsername(sent[q].name) :
            /\ task' = [task EXCEPT ![q].target = a, ![q].read = users[a]]
            /\ Goto(q, StageOfProfile[sent[q].op])
            /\ UNCHANGED <<sent, tables, answer>>

\* Mutant: the two columns of the key swapped.
FollowedBy(q) == <<task[q].target, task[q].viewer>>

FollowOf(q) == <<task[q].viewer, task[q].target>>

\* isFollowing; an anonymous reader follows nobody.
ReadFollow(q) ==
    /\ pc[q] = "readingFollow"
    /\ Reply(q, Profile(task[q].target, task[q].viewer # None /\ FollowOf(q) \in follows))
    /\ UNCHANGED <<sent, task, tables>>

\* The SELECT of upsert, whose update writes nothing.
SelectFollow(q) ==
    /\ pc[q] = "selectingFollow"
    /\ \/ /\ FollowOf(q) \in follows
          /\ Reply(q, Profile(task[q].target, TRUE))
       \/ /\ FollowOf(q) \notin follows
          /\ Goto(q, "insertingFollow")
          /\ UNCHANGED answer
    /\ UNCHANGED <<sent, task, tables>>

\* Mutant: the accounts were there a moment ago.
InsertFollowUnchecked(q) ==
    /\ pc[q] = "insertingFollow"
    /\ follows' = follows \union {FollowOf(q)}
    /\ Reply(q, Profile(task[q].target, TRUE))
    /\ UNCHANGED <<sent, task, users>>

\* Its INSERT: P2002 is the state that was asked for, P2003 says that one of
\* the two accounts has gone.
InsertFollow(q) ==
    /\ pc[q] = "insertingFollow"
    /\ \/ /\ {task[q].viewer, task[q].target} \subseteq Present
          /\ follows' = follows \union {FollowOf(q)}
          /\ Reply(q, Profile(task[q].target, TRUE))
          /\ UNCHANGED <<sent, task, users>>
       \/ /\ ~({task[q].viewer, task[q].target} \subseteq Present)
          /\ Fail(q, FollowError("P2003"))

\* deleteMany: no row is no error.
DeleteFollow(q) ==
    /\ pc[q] = "deletingFollow"
    /\ follows' = follows \ {FollowOf(q)}
    /\ Reply(q, Profile(task[q].target, FALSE))
    /\ UNCHANGED <<sent, task, users>>

-----------------------------------------------------------------------------
\* An account is removed from the database, its follows by cascade.  No route
\* does it: it is the case the guard and the translations of errors provide for.
Remove(a) ==
    /\ a \in Present
    /\ users' = [users EXCEPT ![a] = None]
    /\ follows' = {f \in follows : a \notin {f[1], f[2]}}
    /\ UNCHANGED <<sent, pc, task, answer>>

Step(q) ==
    \/ Register(q)
    \/ FindByEmail(q) \/ Verify(q)
    \/ Guard(q) \/ ReadMe(q) \/ Update(q)
    \/ FindByUsername(q) \/ ReadFollow(q)
    \/ SelectFollow(q) \/ InsertFollow(q) \/ DeleteFollow(q)

Next ==
    \/ \E q \in Requests : Step(q)
    \/ \E a \in Seeds : Remove(a)

Spec == Init /\ [][Next]_vars

-----------------------------------------------------------------------------
(* Type *)

Stages == {"arrived", "verifying", "reading", "updating", "finding", "readingFollow",
           "selectingFollow", "insertingFollow", "deletingFollow", "done"}

Statuses == {"pending", "ok", "unauthorized", "emailTaken", "usernameTaken", "notFound", "failed"}

Tasks == [read: Rows \union {None}, viewer: Seeds \union {None}, target: Ids \union {None}]

Answers == [status: Statuses, account: Ids \union {None}, following: BOOLEAN]

\* Every variable ranges over the states the code can represent.
TypeOK ==
    /\ sent \in [Requests -> Menu]
    /\ pc \in [Requests -> Stages]
    /\ task \in [Requests -> Tasks]
    /\ users \in [Ids -> Rows \union {None}]
    /\ follows \in SUBSET (Ids \X Ids)
    /\ answer \in [Requests -> Answers]

-----------------------------------------------------------------------------
(* Safety *)

\* translatePrismaError and translateMissingReference: whatever races with a
\* request, an account removed included, no error of the database reaches the
\* client as a 500.
ErrorsAreTranslated == \A q \in Requests : answer[q].status # "failed"

\* AC-3 of REQ-USER-004: a field changes only to the value that an update of
\* the same account has asked for, so that two updates of different fields
\* both last, in whichever order they run.
ChangesAreKept ==
    [][\A a \in Ids, f \in Fields :
        users[a] # None /\ users'[a] # None /\ users'[a][f] # users[a][f] =>
            \E q \in Requests : /\ sent[q].op = "update" /\ sent[q].bearer = a
                                /\ users'[a][f] = sent[q][f]
                                /\ pc[q] # "done" /\ pc'[q] = "done"]_vars

\* The foreign keys of follows: a follow relates two accounts that exist, even
\* when one is removed after the use-case has found it.
NoDanglingFollow == \A f \in follows : f[1] \in Present /\ f[2] \in Present

\* AC-1 to AC-4 of REQ-PROFILE-003: the relation a follow or an unfollow
\* announces is the one stored when it ends, two clicks at once included.
FollowAnswersWhatIsStored ==
    [][\A q \in Requests :
        /\ sent[q].op \in {"follow", "unfollow"}
        /\ answer[q] = Pending /\ answer'[q].status = "ok"
        => answer'[q].following = (<<sent[q].bearer, answer'[q].account>> \in follows')]_vars

-----------------------------------------------------------------------------
(* Refinement *)

Registered == {q \in Requests : sent[q].op = "register" /\ answer[q].status = "ok"}

Mailbox == INSTANCE Directory WITH
    Names     <- Emails,
    address   <- [a \in Ids |-> IF users[a] = None THEN None ELSE users[a].email],
    published <- Seeds \union Registered

Handle == INSTANCE Directory WITH
    Names     <- Usernames,
    address   <- [a \in Ids |-> IF users[a] = None THEN None ELSE users[a].username],
    published <- Seeds \union Registered

\* R-8: an e-mail, or a username, leads to one account at most, moves only to a
\* free one, and an account that has been removed never comes back.
KeepsNames == Mailbox!Spec /\ Handle!Spec

=============================================================================
