---------------------------- MODULE Idempotency ----------------------------
(***************************************************************************)
(* The Idempotency-Key mechanism of the API: IdempotencyInterceptor around *)
(* the two creation routes, PrismaIdempotencyStore behind it, and as much  *)
(* of the creation handlers as the mechanism can observe.                  *)
(*                                                                         *)
(* A request is a process.  Every await of the code is a step of its own,  *)
(* so the steps of two requests interleave exactly where the event loop    *)
(* (or two replicas of the API) may interleave them.  One row of the table *)
(* idempotency_records is one entry of `ledger`; the composite unique      *)
(* constraint (userId, endpoint, key) is what makes it a function.         *)
(*                                                                         *)
(* A handler creates at most one resource, so a resource is named by the   *)
(* request that created it.  Where it is found is another matter: a        *)
(* comment keeps the id its INSERT returned, an article has a slug, which  *)
(* its author may change and another article may then take.                *)
(*                                                                         *)
(* Definitions marked "Mutant" are not part of the model: each is the      *)
(* definition below it with a plausible slip, kept to show that the        *)
(* properties notice.                                                      *)
(***************************************************************************)

CONSTANTS
    Requests,   \* requests reaching the API, retries and double clicks included
    Users,      \* accounts
    Urls,       \* concrete URLs of the creation routes
    Patterns,   \* route patterns: POST /api/articles, POST /api/articles/:slug/comments
    Keys,       \* admissible values of the header Idempotency-Key
    Bodies,     \* request bodies as sent
    Forms,      \* canonical serialisations, which stand for their SHA-256
    Menu,       \* the requests a client may send: [user, url, key, body]
    PatternOf,  \* route pattern that serves a URL
    ArticlesPattern, \* the one that creates articles
    Slugs,      \* slugs that several articles may have, one after the other
    CanonOf,    \* canonical serialisation of a body: key order is forgotten
    NoKey,      \* header absent
    BadKey,     \* header empty or longer than MAX_KEY_LENGTH
    None

ASSUME MenuAssumption ==
    /\ Menu \subseteq [user: Users, url: Urls, key: Keys \union {NoKey, BadKey}, body: Bodies]
    /\ PatternOf \in [Urls -> Patterns]
    /\ CanonOf \in [Bodies -> Forms]
    /\ ArticlesPattern \in Patterns
    /\ Slugs \intersect Requests = {}

ASSUME NoneAssumption ==
    /\ None \notin Requests \union Slugs
    /\ NoKey \notin Keys
    /\ BadKey \notin Keys
    /\ NoKey # BadKey

VARIABLES
    sent,       \* what each request carries once its guard has resolved the account
    pc,         \* the await each request stands at
    ledger,     \* table idempotency_records
    issued,     \* the slug or id returned by the INSERT of each request
    address,    \* the slug or id its resource has now, None once it is deleted
    shown,      \* the resource the use-case of each request has read back
    answer      \* the response each request was given

vars == <<sent, pc, ledger, issued, address, shown, answer>>

-----------------------------------------------------------------------------
(* Identities, rows and answers *)

Slots == Users \X Patterns \X Keys

Keyed(q) == sent[q].key \in Keys

\* Mutant: the key alone, forgetting whose it is.
SlotSharedByAccounts(q) == <<CHOOSE u \in Users : TRUE, PatternOf[sent[q].url], sent[q].key>>

\* Coordinates of the row of a request: the route pattern, never the URL.
SlotOf(q) == <<sent[q].user, PatternOf[sent[q].url], sent[q].key>>

FingerprintOf(q) == CanonOf[sent[q].body]

AbsentRow == [state |-> "absent", fingerprint |-> None, body |-> None]

\* status and body are null until the response is attached.
ReservedRow(q) == [state |-> "reserved", fingerprint |-> FingerprintOf(q), body |-> None]

\* A response names the request whose execution made it and the resource it
\* shows.
Responses == [by: Requests, shows: Requests]

Response(q, r) == [by |-> q, shows |-> r]

Rows == [state: {"absent", "reserved", "answered"},
         fingerprint: Forms \union {None},
         body: Responses \union {None}]

Pending == [status |-> "pending", body |-> None]
Created(response) == [status |-> "created", body |-> response]
Refusal(kind) == [status |-> kind, body |-> None]

Refusals == {"invalidKey", "conflict", "mismatch", "failed"}

Answers == [status: {"pending"} \union Refusals, body: {None}]
           \union [status: {"created"}, body: Responses]

Written(q) == issued[q] # None

\* Where the resource of q may be: an id, or a slug, that nobody else takes
\* (written q), and if it is an article one of the slugs that others may take.
Places(q) == {q} \union (IF PatternOf[sent[q].url] = ArticlesPattern THEN Slugs ELSE {})

\* The unique constraint on slug leaves an article only these.
FreePlaces(q) == {a \in Places(q) : \A r \in Requests : address[r] # a}

\* The awaits at which a request runs with its key reserved (or with no key).
Executing == {"handling", "rereading", "completing", "releasing"}

InProgress == Executing \union {"reserving", "inspecting"}

Stages == InProgress \union {"idle", "done", "lost"}

Goto(q, stage) == pc' = [pc EXCEPT ![q] = stage]

Reply(q, a) == /\ Goto(q, "done")
               /\ answer' = [answer EXCEPT ![q] = a]

SetRow(q, row) == ledger' = [ledger EXCEPT ![SlotOf(q)] = row]

-----------------------------------------------------------------------------
Init ==
    /\ sent \in [Requests -> Menu]
    /\ pc = [q \in Requests |-> "idle"]
    /\ ledger = [s \in Slots |-> AbsentRow]
    /\ issued = [q \in Requests |-> None]
    /\ address = [q \in Requests |-> None]
    /\ shown = [q \in Requests |-> None]
    /\ answer = [q \in Requests |-> Pending]

\* The guard has resolved the account; readKey looks at the header.
Receive(q) ==
    /\ pc[q] = "idle"
    /\ \/ /\ sent[q].key = BadKey
          /\ Reply(q, Refusal("invalidKey"))
       \/ /\ sent[q].key = NoKey
          /\ Goto(q, "handling")
          /\ UNCHANGED answer
       \/ /\ Keyed(q)
          /\ Goto(q, "reserving")
          /\ UNCHANGED answer
    /\ UNCHANGED <<sent, ledger, issued, address, shown>>

\* Mutant: an upsert, which takes over a reservation that has no response yet.
ReserveByUpsert(q) ==
    /\ pc[q] = "reserving"
    /\ \/ /\ ledger[SlotOf(q)].state # "answered"
          /\ SetRow(q, ReservedRow(q))
          /\ Goto(q, "handling")
       \/ /\ ledger[SlotOf(q)].state = "answered"
          /\ Goto(q, "inspecting")
          /\ UNCHANGED ledger
    /\ UNCHANGED <<sent, issued, address, shown, answer>>

\* Mutant: the loser waits for the key instead of being told 409.
ReserveByWaiting(q) ==
    /\ pc[q] = "reserving"
    /\ ledger[SlotOf(q)].state = "absent"
    /\ SetRow(q, ReservedRow(q))
    /\ Goto(q, "handling")
    /\ UNCHANGED <<sent, issued, address, shown, answer>>

\* reserve: the INSERT takes the key, or the unique constraint refuses it.
Reserve(q) ==
    /\ pc[q] = "reserving"
    /\ \/ /\ ledger[SlotOf(q)].state = "absent"
          /\ SetRow(q, ReservedRow(q))
          /\ Goto(q, "handling")
       \/ /\ ledger[SlotOf(q)].state # "absent"
          /\ Goto(q, "inspecting")
          /\ UNCHANGED ledger
    /\ UNCHANGED <<sent, issued, address, shown, answer>>

\* Mutant: a row whose status is still null is replayed.
VerdictIgnoringStatus(q, row) ==
    CASE row.state = "absent" -> Refusal("conflict")
      [] row.state # "absent" /\ row.fingerprint # FingerprintOf(q) -> Refusal("mismatch")
      [] row.state # "absent" /\ row.fingerprint = FingerprintOf(q) -> Created(row.body)

\* What inspectExisting and the switch of the interceptor make of a row.
Verdict(q, row) ==
    CASE row.state = "absent"                 -> Refusal("conflict")
      [] row.state # "absent" /\ row.fingerprint # FingerprintOf(q)
                                              -> Refusal("mismatch")
      [] row.state = "reserved" /\ row.fingerprint = FingerprintOf(q)
                                              -> Refusal("conflict")
      [] row.state = "answered" /\ row.fingerprint = FingerprintOf(q)
                                              -> Created(row.body)

\* Mutant: catchError set around the whole interceptor, refusals included.
InspectThenRelease(q) ==
    /\ pc[q] = "inspecting"
    /\ Reply(q, Verdict(q, ledger[SlotOf(q)]))
    /\ SetRow(q, AbsentRow)
    /\ UNCHANGED <<sent, issued, address, shown>>

Inspect(q) ==
    /\ pc[q] = "inspecting"
    /\ Reply(q, Verdict(q, ledger[SlotOf(q)]))
    /\ UNCHANGED <<sent, ledger, issued, address, shown>>

-----------------------------------------------------------------------------
(* The handler: validation pipe, use-case, controller *)

\* Mutant: no catchError, the key stays reserved.
ThrowKeepingKey(q) == Reply(q, Refusal("failed"))

\* An error leaves the handler: catchError releases the key first, if any.
Throw(q) ==
    \/ /\ Keyed(q)
       /\ Goto(q, "releasing")
       /\ UNCHANGED answer
    \/ /\ ~Keyed(q)
       /\ Reply(q, Refusal("failed"))

\* Refused before anything is written: invalid body, unknown article.
Refuse(q) ==
    /\ pc[q] = "handling"
    /\ Throw(q)
    /\ UNCHANGED <<sent, ledger, issued, address, shown>>

\* The row of the article or of the comment enters its table.
Insert(q) ==
    \E a \in FreePlaces(q) :
        /\ issued' = [issued EXCEPT ![q] = a]
        /\ address' = [address EXCEPT ![q] = a]

\* The INSERT of the article or of the comment commits.
Write(q) ==
    /\ pc[q] = "handling"
    /\ Insert(q)
    /\ Goto(q, "rereading")
    /\ UNCHANGED <<sent, ledger, shown, answer>>

\* The use-case reads back what is at the slug, or at the id, that its INSERT
\* returned.  A comment is there or deleted; where an article was, another may
\* be by now, and it is that one which the response shows.
Reread(q) ==
    /\ pc[q] = "rereading"
    /\ \/ /\ \A r \in Requests : address[r] # issued[q]
          /\ Throw(q)
          /\ UNCHANGED shown
       \/ \E r \in Requests :
            /\ address[r] = issued[q]
            /\ shown' = [shown EXCEPT ![q] = r]
            /\ \/ /\ Keyed(q)
                  /\ Goto(q, "completing")
                  /\ UNCHANGED answer
               \/ /\ ~Keyed(q)
                  /\ Reply(q, Created(Response(q, r)))
    /\ UNCHANGED <<sent, ledger, issued, address>>

-----------------------------------------------------------------------------
(* executeAndRecord: what surrounds the handler of a request holding a key *)

\* Mutant: the key is freed on success as it is on failure.
CompleteThenFree(q) ==
    /\ pc[q] = "completing"
    /\ SetRow(q, AbsentRow)
    /\ Reply(q, Created(Response(q, shown[q])))
    /\ UNCHANGED <<sent, issued, address, shown>>

\* The row is located by its coordinates alone; update raises P2025 when it
\* is not there, and that error is caught like one of the handler.
Complete(q) ==
    /\ pc[q] = "completing"
    /\ IF ledger[SlotOf(q)].state = "absent"
         THEN /\ Goto(q, "releasing")
              /\ UNCHANGED <<ledger, answer>>
         ELSE /\ SetRow(q, [ledger[SlotOf(q)] EXCEPT !.state = "answered", !.body = Response(q, shown[q])])
              /\ Reply(q, Created(Response(q, shown[q])))
    /\ UNCHANGED <<sent, issued, address, shown>>

\* deleteMany by coordinates, then the original error is rethrown.
Release(q) ==
    /\ pc[q] = "releasing"
    /\ SetRow(q, AbsentRow)
    /\ Reply(q, Refusal("failed"))
    /\ UNCHANGED <<sent, issued, address, shown>>

-----------------------------------------------------------------------------
(* The rest of the system *)

\* The other routes, which take no key.  The article is deleted, its comments
\* with it, or the comment is.
Delete(r) ==
    /\ address[r] # None
    /\ address' = [address EXCEPT ![r] = None]
    /\ UNCHANGED <<sent, pc, ledger, issued, shown, answer>>

\* The author gives the article another title, hence another slug.
Rename(r) ==
    /\ address[r] # None
    /\ \E a \in FreePlaces(r) : address' = [address EXCEPT ![r] = a]
    /\ UNCHANGED <<sent, pc, ledger, issued, shown, answer>>

\* The process serving q stops between two awaits.
Crash(q) ==
    /\ pc[q] \in InProgress
    /\ Goto(q, "lost")
    /\ UNCHANGED <<sent, ledger, issued, address, shown, answer>>

Step(q) ==
    \/ Receive(q)
    \/ Reserve(q)
    \/ Inspect(q)
    \/ Refuse(q)
    \/ Write(q)
    \/ Reread(q)
    \/ Complete(q)
    \/ Release(q)

Next == \E q \in Requests : Step(q) \/ Delete(q) \/ Rename(q) \/ Crash(q)

Spec == Init /\ [][Next]_vars

(***************************************************************************)
(* A query may also fail: the connection drops, the pool times out.  The   *)
(* caller sees an error, and PostgreSQL may or may not have committed.     *)
(***************************************************************************)

\* reserve rethrows what is not a unique violation; nothing releases the key.
ReserveFault(q) ==
    /\ pc[q] = "reserving"
    /\ \/ /\ ledger[SlotOf(q)].state = "absent"
          /\ SetRow(q, ReservedRow(q))
       \/ UNCHANGED ledger
    /\ Reply(q, Refusal("failed"))
    /\ UNCHANGED <<sent, issued, address, shown>>

InspectFault(q) ==
    /\ pc[q] = "inspecting"
    /\ Reply(q, Refusal("failed"))
    /\ UNCHANGED <<sent, ledger, issued, address, shown>>

WriteFault(q) ==
    /\ pc[q] = "handling"
    /\ Throw(q)
    /\ Insert(q)
    /\ UNCHANGED <<sent, ledger, shown>>

RereadFault(q) ==
    /\ pc[q] = "rereading"
    /\ Throw(q)
    /\ UNCHANGED <<sent, ledger, issued, address, shown>>

CompleteFault(q) ==
    /\ pc[q] = "completing"
    /\ Goto(q, "releasing")
    /\ \/ /\ ledger[SlotOf(q)].state # "absent"
          /\ SetRow(q, [ledger[SlotOf(q)] EXCEPT !.state = "answered", !.body = Response(q, shown[q])])
       \/ UNCHANGED ledger
    /\ UNCHANGED <<sent, issued, address, shown, answer>>

ReleaseFault(q) ==
    /\ pc[q] = "releasing"
    /\ \/ SetRow(q, AbsentRow)
       \/ UNCHANGED ledger
    /\ Reply(q, Refusal("failed"))
    /\ UNCHANGED <<sent, issued, address, shown>>

Fault(q) ==
    \/ ReserveFault(q)
    \/ InspectFault(q)
    \/ WriteFault(q)
    \/ RereadFault(q)
    \/ CompleteFault(q)
    \/ ReleaseFault(q)

FaultyNext == Next \/ \E q \in Requests : Fault(q)

FaultySpec == Init /\ [][FaultyNext]_vars

(***************************************************************************)
(* The event loop resumes every await and the database answers every       *)
(* query: a step that stays possible is taken, unless its process stops.   *)
(***************************************************************************)
Fairness == \A q \in Requests : WF_vars(Step(q))

-----------------------------------------------------------------------------
(* Type *)

\* Every variable ranges over the states the code can represent.
TypeOK ==
    /\ sent \in [Requests -> Menu]
    /\ pc \in [Requests -> Stages]
    /\ ledger \in [Slots -> Rows]
    /\ issued \in [Requests -> Requests \union Slugs \union {None}]
    /\ address \in [Requests -> Requests \union Slugs \union {None}]
    /\ shown \in [Requests -> Requests \union {None}]
    /\ answer \in [Requests -> Answers]

-----------------------------------------------------------------------------
(* Safety *)

Holds(q) == Keyed(q) /\ pc[q] \in Executing

\* AC-4 of REQ-IDEM-001: of the requests carrying one key, at most one is
\* between its reservation and the end of its handler at any time, whatever
\* crashes and whatever query fails.
ExclusiveExecution ==
    \A q1, q2 \in Requests :
        Holds(q1) /\ Holds(q2) /\ SlotOf(q1) = SlotOf(q2) => q1 = q2

\* complete and release find the row by coordinates: they would hit the row of
\* somebody else if a request could outlive its reservation.  It cannot.
HolderOwnsRow ==
    \A q \in Requests :
        Holds(q) => /\ ledger[SlotOf(q)].state # "absent"
                    /\ ledger[SlotOf(q)].fingerprint = FingerprintOf(q)

\* AC-2, AC-3 and AC-5: a 201 is the response of an execution that really
\* wrote, by a request of the same account, on the same route, under the same
\* key and, up to the order of its fields, with the same body.  What it shows
\* was written too, and it is what that execution wrote unless this is an
\* article that had a slug others may take: an article is read back by slug,
\* and may have left it to somebody else's meanwhile.
ServedFromOwnKey ==
    \A q \in Requests :
        answer[q].status = "created" =>
            LET e == answer[q].body.by
                r == answer[q].body.shows
            IN  /\ Written(e)
                /\ e # q => /\ Keyed(q)
                            /\ sent[e].user = sent[q].user
                            /\ PatternOf[sent[e].url] = PatternOf[sent[q].url]
                            /\ sent[e].key = sent[q].key
                            /\ CanonOf[sent[e].body] = CanonOf[sent[q].body]
                /\ Written(r)
                /\ r # e => issued[e] \in Slugs

\* AC-2: as long as the database answers, all the requests that got a 201
\* under one key got the same response.
OneResponsePerKey ==
    \A q1, q2 \in Requests :
        /\ Keyed(q1) /\ Keyed(q2) /\ SlotOf(q1) = SlotOf(q2)
        /\ answer[q1].status = "created" /\ answer[q2].status = "created"
        => answer[q1] = answer[q2]

Refused(q) == pc[q] = "releasing" \/ answer[q].status = "failed"

LeavesResource(q) == Written(q) /\ (Refused(q) => shown[q] # None)

\* AC-4: as long as the database answers, two requests under one key never
\* leave two resources behind, with one exception: a request that wrote and
\* then found nothing to read back, its resource renamed or deleted meanwhile,
\* answers 404 and frees the key, and the next one under it writes again.
NoSecondResource ==
    \A q1, q2 \in Requests :
        /\ Keyed(q1) /\ Keyed(q2) /\ SlotOf(q1) = SlotOf(q2)
        /\ LeavesResource(q1) /\ LeavesResource(q2)
        => q1 = q2

\* A response attached to a key is what every later request with that key and
\* that body gets: it is neither rewritten nor removed.
AnsweredIsFinal ==
    [][\A s \in Slots : ledger[s].state = "answered" => ledger'[s] = ledger[s]]_vars

\* The comment of concatMap in executeAndRecord: when the 201 leaves, the
\* row already holds it, so an immediate retry is replayed and not refused.
AnsweredBeforeReply ==
    \A q \in Requests :
        Keyed(q) /\ answer[q].status = "created" =>
            /\ ledger[SlotOf(q)].state = "answered"
            /\ ledger[SlotOf(q)].body = answer[q].body

Interrupted(s) == \E q \in Requests : pc[q] = "lost" /\ Keyed(q) /\ SlotOf(q) = s

\* schema.prisma says that a row without a response means that a request is in
\* progress, and AC-6 that a failure does not consume the key.  As long as the
\* database answers, the one other reason is a process that stopped.
ReservedMeansInProgress ==
    \A s \in Slots :
        ledger[s].state = "reserved" =>
            \/ \E q \in Requests : Holds(q) /\ SlotOf(q) = s
            \/ Interrupted(s)

-----------------------------------------------------------------------------
(* What the documents say and the code does not always do *)

\* A replay answers the request that was sent, not one to another article.
ReplayAnswersSameUrl ==
    \A q \in Requests :
        answer[q].status = "created" => sent[answer[q].body.by].url = sent[q].url

-----------------------------------------------------------------------------
(* Liveness *)

\* Every request that arrives is answered, unless its process stops: the loser
\* of a race is told so and never waits for the winner.
EveryRequestAnswered ==
    \A q \in Requests : (pc[q] \in InProgress) ~> (answer[q] # Pending \/ pc[q] = "lost")

-----------------------------------------------------------------------------
(* Refinement *)

PhaseOf(row) ==
    CASE row.state = "absent"   -> "free"
      [] row.state = "reserved" -> "taken"
      [] row.state = "answered" -> "settled"

Once == INSTANCE OncePerKey WITH
    Clients   <- Requests,
    Resources <- Requests,
    phase     <- [s \in Slots |-> PhaseOf(ledger[s])],
    result    <- [s \in Slots |-> ledger[s].body],
    served    <- [q \in Requests |->
                  IF Keyed(q) /\ answer[q].status = "created"
                    THEN <<SlotOf(q), answer[q].body>>
                    ELSE None]

\* As long as the database answers, the interceptor and its store keep the
\* promise of OncePerKey, crashes included.
KeepsOncePerKey == Once!Spec

=============================================================================
