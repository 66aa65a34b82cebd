------------------------------ MODULE Session -------------------------------
(***************************************************************************)
(* The session of the web client: lib/session.tsx, with the calls of the   *)
(* API client that may open or close it (lib/api-provider.tsx,             *)
(* lib/api-client.ts, the login page and the settings page).               *)
(*                                                                         *)
(* A tab is one mounted SessionProvider.  The tabs of a browser share one  *)
(* localStorage and nothing else.  Between two actions the event loop is   *)
(* free: a click, a timer or an answer may come in any order.  An answer   *)
(* is decided when it arrives: a token refused once is refused for good,   *)
(* and one accepted may be refused right after.                            *)
(***************************************************************************)

EXTENDS Naturals

CONSTANTS
    Tabs,
    Calls,      \* requests sent by the API client, beside the rehydration
    Kinds,      \* those the users make: "login", "read", "save" or "publish"
    Accounts,
    Tokens,
    OwnerOf,    \* account of each token
    None

ASSUME TokenAssumption ==
    /\ OwnerOf \in [Tokens -> Accounts]
    /\ \A a \in Accounts : \E k \in Tokens : OwnerOf[k] = a
    /\ Kinds \subseteq {"login", "read", "save", "publish"}
    /\ None \notin Tokens \union Accounts

VARIABLES
    stored,         \* localStorage: the token under TOKEN_STORAGE_KEY
    accepted,       \* tokens the API accepts
    api,            \* up, failing (5xx, no connection, garbled body) or silent
    session,        \* SessionSnapshot of each tab
    generation,     \* its sign-ins and sign-outs, counted
    hydration,      \* its rehydration: the loop of runRehydration
    calls

vars == <<stored, accepted, api, session, generation, hydration, calls>>
server == <<accepted, api>>

-----------------------------------------------------------------------------
Unresolved == [user |-> None, status |-> "pending", token |-> None]
Anonymous == [user |-> None, status |-> "anonymous", token |-> None]

\* Mutant: the token follows the user, and is lost with it.
UnavailableWithoutToken(token) == [user |-> None, status |-> "unavailable", token |-> None]

Unavailable(token) == [user |-> None, status |-> "unavailable", token |-> token]
Authenticated(token) == [user |-> OwnerOf[token], status |-> "authenticated", token |-> token]

NotLoaded == [stage |-> "loading", token |-> None, startedAt |-> 0]

Show(t, snapshot) == session' = [session EXCEPT ![t] = snapshot]

SignIn(t, token) ==
    /\ generation' = [generation EXCEPT ![t] = @ + 1]
    /\ stored' = token
    /\ Show(t, Authenticated(token))

SignOut(t) ==
    /\ generation' = [generation EXCEPT ![t] = @ + 1]
    /\ stored' = None
    /\ Show(t, Anonymous)

Loop(t, stage) == hydration' = [hydration EXCEPT ![t].stage = stage]

\* The API answers with a token it has just issued, new or not.
Issue(token) == accepted' = accepted \union {token}

-----------------------------------------------------------------------------
Init ==
    /\ stored \in Tokens \union {None}
    /\ accepted \in SUBSET Tokens
    /\ api \in {"up", "failing", "silent"}
    /\ session = [t \in Tabs |-> Unresolved]
    /\ generation = [t \in Tabs |-> 0]
    /\ hydration = [t \in Tabs |-> NotLoaded]
    /\ calls = [c \in Calls |-> [stage |-> "idle", kind |-> None, tab |-> None, token |-> None]]

-----------------------------------------------------------------------------
(* Rehydration *)

\* The effect of useRehydration, after the first render.
Mount(t) ==
    /\ hydration[t].stage = "loading"
    /\ \/ /\ stored = None
          /\ Loop(t, "over")
          /\ Show(t, Anonymous)
       \/ /\ stored # None
          /\ hydration' = [hydration EXCEPT ![t] = [stage |-> "calling", token |-> stored,
                                                    startedAt |-> generation[t]]]
          /\ UNCHANGED session
    /\ UNCHANGED <<stored, server, generation, calls>>

\* Mutant: only the unmounting of the provider is looked at.
NeverStale(t) == FALSE

\* A sign-in or a sign-out has happened since the loop started.
Stale(t) == generation[t] # hydration[t].startedAt

\* onResolved: the token of the answer replaces the one that was kept.
Resolve(t) ==
    /\ hydration[t].stage = "calling" /\ api = "up"
    /\ hydration[t].token \in accepted
    /\ \E token \in {k \in Tokens : OwnerOf[k] = OwnerOf[hydration[t].token]} :
         /\ Issue(token)
         /\ \/ /\ Stale(t)
               /\ UNCHANGED <<stored, session>>
            \/ /\ ~Stale(t)
               /\ stored' = token
               /\ Show(t, Authenticated(token))
    /\ Loop(t, "over")
    /\ UNCHANGED <<api, generation, calls>>

\* Mutant: the storage is purged before the staleness is looked at.
PurgeThenCheck(t) ==
    /\ hydration[t].stage = "calling" /\ api = "up"
    /\ hydration[t].token \notin accepted
    /\ stored' = None
    /\ IF Stale(t) THEN UNCHANGED session ELSE Show(t, Anonymous)
    /\ Loop(t, "over")
    /\ UNCHANGED <<server, generation, calls>>

\* onRejected, with a verdict on the token: a 4xx.
Refuse(t) ==
    /\ hydration[t].stage = "calling" /\ api = "up"
    /\ hydration[t].token \notin accepted
    /\ \/ /\ Stale(t)
          /\ UNCHANGED <<stored, session>>
       \/ /\ ~Stale(t)
          /\ stored' = None
          /\ Show(t, Anonymous)
    /\ Loop(t, "over")
    /\ UNCHANGED <<server, generation, calls>>

\* Mutant: no verdict is a verdict.
GiveUp(t) ==
    /\ hydration[t].stage = "calling"
    /\ IF Stale(t) THEN UNCHANGED <<stored, session>> ELSE stored' = None /\ Show(t, Anonymous)
    /\ Loop(t, "over")
    /\ UNCHANGED <<server, generation, calls>>

\* Mutant: the failure is shown and the call is not made again.
ShowOnly(t) ==
    /\ hydration[t].stage = "calling"
    /\ Loop(t, "over")
    /\ IF Stale(t) THEN UNCHANGED session ELSE Show(t, Unavailable(hydration[t].token))
    /\ UNCHANGED <<stored, server, generation, calls>>

\* onRejected, without a verdict: nothing is purged, a timer is set.
Postpone(t) ==
    /\ hydration[t].stage = "calling"
    /\ \/ /\ Stale(t)
          /\ Loop(t, "over")
          /\ UNCHANGED session
       \/ /\ ~Stale(t)
          /\ Loop(t, "waiting")
          /\ Show(t, Unavailable(hydration[t].token))
    /\ UNCHANGED <<stored, server, generation, calls>>

\* 5xx, no connection, unreadable body: fetchCurrentUser rejects.
Fail(t) == api = "failing" /\ Postpone(t)

\* Mutant: a fetch without a bound.
WaitForEver(t) == api = "silent" /\ hydration[t].stage = "calling" /\ UNCHANGED vars

\* withTimeout: no answer is a failure.  The answer that comes later meets a
\* promise already rejected.
TimeOut(t) == api = "silent" /\ Postpone(t)

\* The timer of RECONNECT_DELAY_MS.
Retry(t) ==
    /\ hydration[t].stage = "waiting"
    /\ Loop(t, IF Stale(t) THEN "over" ELSE "calling")
    /\ UNCHANGED <<stored, server, session, generation, calls>>

-----------------------------------------------------------------------------
(* The user *)

\* A request leaves with the token of the session, if there is one: a login
\* too.  The forms that save and publish need an account, and keep the one they
\* have seen when the session is lost.
Send(c) ==
    /\ calls[c].stage = "idle"
    /\ \E t \in Tabs, kind \in Kinds :
         /\ hydration[t].stage # "loading"
         /\ kind \in {"save", "publish"} => session[t].user # None \/ generation[t] > 0
         /\ calls' = [calls EXCEPT ![c] = [stage |-> "sent", kind |-> kind, tab |-> t,
                                           token |-> session[t].token]]
    /\ UNCHANGED <<stored, server, session, generation, hydration>>

\* The button of the settings page, enabled even while a save is in flight.
ClickSignOut(t) ==
    /\ session[t].status = "authenticated"
    /\ SignOut(t)
    /\ UNCHANGED <<server, hydration, calls>>

\* The page is loaded again: what was in flight is lost, the storage is not.
Reload(t) ==
    /\ hydration[t].stage # "loading"
    /\ session' = [session EXCEPT ![t] = Unresolved]
    /\ generation' = [generation EXCEPT ![t] = 0]
    /\ hydration' = [hydration EXCEPT ![t] = NotLoaded]
    /\ calls' = [c \in Calls |-> IF calls[c].tab = t THEN [calls[c] EXCEPT !.stage = "over"]
                                                     ELSE calls[c]]
    /\ UNCHANGED <<stored, server>>

-----------------------------------------------------------------------------
(* The answers *)

End(c) == calls' = [calls EXCEPT ![c].stage = "over"]

\* login: the credentials are right, the page signs in.
AnswerLogin(c) ==
    /\ calls[c].stage = "sent" /\ calls[c].kind = "login" /\ api = "up"
    /\ \E token \in Tokens : Issue(token) /\ SignIn(calls[c].tab, token)
    /\ End(c)
    /\ UNCHANGED <<api, hydration>>

\* updateUser: the page signs in with the answer, whatever happened meanwhile.
AnswerSave(c) ==
    /\ calls[c].stage = "sent" /\ calls[c].kind = "save" /\ api = "up"
    /\ calls[c].token \in accepted
    /\ \E token \in {k \in Tokens : OwnerOf[k] = OwnerOf[calls[c].token]} :
         Issue(token) /\ SignIn(calls[c].tab, token)
    /\ End(c)
    /\ UNCHANGED <<api, hydration>>

\* 401: bad credentials, or no token the API accepts.
Denied(c) ==
    /\ calls[c].stage = "sent" /\ api = "up"
    /\ calls[c].kind = "login" \/ calls[c].token \notin accepted

\* onUnauthorized: if a token had been sent, the session is closed.
AnswerDenied(c) ==
    /\ Denied(c)
    /\ \/ /\ calls[c].token = None
          /\ UNCHANGED <<stored, session, generation>>
       \/ /\ calls[c].token # None
          /\ SignOut(calls[c].tab)
    /\ End(c)
    /\ UNCHANGED <<server, hydration>>

\* Any other answer is shown to the user and leaves the session alone.
AnswerOther(c) ==
    /\ calls[c].stage = "sent"
    /\ End(c)
    /\ UNCHANGED <<stored, server, session, generation, hydration>>

-----------------------------------------------------------------------------
(* The API *)

Expire(token) ==
    /\ token \in accepted
    /\ accepted' = accepted \ {token}
    /\ UNCHANGED <<stored, api, session, generation, hydration, calls>>

Weather ==
    /\ api' \in {"up", "failing", "silent"} \ {api}
    /\ UNCHANGED <<stored, accepted, session, generation, hydration, calls>>

-----------------------------------------------------------------------------
Conclude(t) == Resolve(t) \/ Refuse(t) \/ Fail(t) \/ TimeOut(t)

Rehydrate(t) == Mount(t) \/ Conclude(t) \/ Retry(t)

Answer(c) == AnswerLogin(c) \/ AnswerSave(c) \/ AnswerDenied(c) \/ AnswerOther(c)

Next ==
    \/ \E t \in Tabs : Rehydrate(t) \/ ClickSignOut(t) \/ Reload(t)
    \/ \E c \in Calls : Send(c) \/ Answer(c)
    \/ \E token \in Tokens : Expire(token)
    \/ Weather

Spec == Init /\ [][Next]_vars

-----------------------------------------------------------------------------
(* Type *)

Snapshots ==
    {Unresolved, Anonymous}
    \union {Authenticated(k) : k \in Tokens}
    \union {[user |-> None, status |-> "unavailable", token |-> k] : k \in Tokens}

\* Every variable ranges over the states the code can represent; a snapshot
\* has a token when, and only when, a request may be made with it.
TypeOK ==
    /\ stored \in Tokens \union {None}
    /\ accepted \in SUBSET Tokens
    /\ api \in {"up", "failing", "silent"}
    /\ session \in [Tabs -> Snapshots]
    /\ \A t \in Tabs :
        /\ generation[t] >= hydration[t].startedAt
        /\ hydration[t].stage \in {"loading", "calling", "waiting", "over"}
        /\ hydration[t].token \in Tokens \union {None}
    /\ calls \in [Calls -> [stage: {"idle", "sent", "over"}, kind: Kinds \union {None},
                            tab: Tabs \union {None}, token: Tokens \union {None}]]

-----------------------------------------------------------------------------
(* Safety *)

\* In a browser with one tab the session shown and the token kept agree, so
\* that a reload finds what the page was showing.
ShownIsStored ==
    \A t \in Tabs : session[t].status # "pending" => session[t].token = stored

\* The session opens, and passes to another account, only by the answer to a form
\* the user has sent, which may be a save sent before signing out (AC-3 of
\* REQ-WEB-002): no answer to a rehydration asked before opens an anonymous page
\* again, replaces an account, or sends an open session back to waiting.
OpensAsAsked ==
    [][\A t \in Tabs :
        session[t].status \in {"anonymous", "authenticated"} /\ session'[t] # session[t] =>
            \/ session'[t].status \in {"anonymous", "pending"}
            \/ \E c \in Calls : (AnswerLogin(c) \/ AnswerSave(c)) /\ calls[c].tab = t]_vars

\* With one tab, an outage purges nothing (rules of REQ-WEB-016): the token leaves the
\* storage because the user signs out, or because the API, being up, says 401.
OutagePurgesNothing ==
    [][stored # None /\ stored' = None =>
        \/ \E t \in Tabs : ClickSignOut(t)
        \/ \E t \in Tabs : api = "up" /\ hydration[t].token = stored /\ stored \notin accepted
        \/ \E c \in Calls : Denied(c) /\ calls'[c] # calls[c]]_vars

-----------------------------------------------------------------------------
(* What the documents say and the code does not always do *)

\* ApiClientConfig: the 401 of a login purges no session.
LoginRefusalPurgesNothing ==
    [][\A c \in Calls :
        calls[c].kind = "login" /\ calls'[c] # calls[c] => stored' # None \/ stored = None]_vars

-----------------------------------------------------------------------------
(* Liveness *)

\* The session is resolved, even if the API never answers: pages of public
\* content, which wait for it, are not held for ever.
PendingEnds == \A t \in Tabs : (session[t].status = "pending") ~> (session[t].status # "pending")

=============================================================================
