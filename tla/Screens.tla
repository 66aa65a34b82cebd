------------------------------ MODULE Screens -------------------------------
(***************************************************************************)
(* The pages that depend on the session of Session, and what becomes of    *)
(* them while it opens, closes and comes back: the forms of the settings   *)
(* page and of the editor (lib/authenticated-page.ts), the personal feed   *)
(* (HomeFeed.tsx) and the form that signs in or registers (AuthForm.tsx).  *)
(*                                                                         *)
(* The effects of React run before the event loop is free again, so they   *)
(* belong to the step that changed the session or the page.                *)
(***************************************************************************)
EXTENDS Session

VARIABLE screen     \* page of each tab, account it has seen, call its form awaits

screenVars == <<vars, screen>>

Protected == {"settings", "editor"}

\* "public" stands for every page that lets anyone in, "login" for both modes
\* of AuthForm.
Paths == Protected \union {"following", "login", "public"}

Opened(path) == [path |-> path, account |-> None, awaits |-> None]

-----------------------------------------------------------------------------
(* The effects of a page, under the session of the next state *)

\* Mutant: the account seen is not looked at before leaving.
KeptUnlessAnonymous(t, page) ==
    IF page.path \in Protected /\ session'[t].status # "anonymous"
      THEN IF session'[t].user # None THEN session'[t].user ELSE page.account
      ELSE None

\* useAuthenticatedAccount: the last account the session has had on this page.
Kept(t, page) ==
    IF page.path \notin Protected THEN None
    ELSE IF session'[t].user # None THEN session'[t].user ELSE page.account

\* Mutant: no user is taken for no session.
TurnedAwayWithoutUser(t, page) ==
    /\ session'[t].user = None
    /\ page.path \in Protected \union {"following"}
    /\ Kept(t, page) = None

\* To the login form, by an effect: from a protected page that has seen no
\* account, and from the personal feed.
TurnedAway(t, page) ==
    /\ session'[t].status = "anonymous"
    /\ \/ page.path \in Protected /\ Kept(t, page) = None
       \/ page.path = "following"

Settle(t, page) ==
    screen' = [screen EXCEPT ![t] = IF TurnedAway(t, page)
                                      THEN Opened("login")
                                      ELSE [page EXCEPT !.account = Kept(t, page)]]

\* A page that stays the one it is keeps its state; any other is a new one.
GoTo(t, path) == Settle(t, IF path = screen[t].path THEN screen[t] ELSE Opened(path))

Stay(t) == Settle(t, screen[t])

\* The form that made the call, if it is still there, may be sent again.
StayAnswered(c) ==
    LET t == calls[c].tab
    IN  Settle(t, [screen[t] EXCEPT !.awaits = IF @ = c THEN None ELSE @])

-----------------------------------------------------------------------------
ScreenInit ==
    /\ Init
    /\ screen \in [Tabs -> {Opened(path) : path \in Paths}]

Rehydrated(t) == Rehydrate(t) /\ Stay(t)

\* A link, or the history of the browser.
Visit(t, path) ==
    /\ hydration[t].stage # "loading"
    /\ path # screen[t].path
    /\ UNCHANGED vars
    /\ GoTo(t, path)

\* A button that favours or follows, without a user: toggle takes to the login
\* form whoever it is, anonymous or only out of reach of the API.  Until the
\* session is resolved, the first is disabled and the second not yet there.  With
\* a user the click makes a call, one of those a page may "read" with.
ClickWithoutUser(t) ==
    /\ screen[t].path = "public"
    /\ session[t].user = None /\ session[t].status # "pending"
    /\ UNCHANGED vars
    /\ GoTo(t, "login")

\* logout of the settings page, which may be the second one to close the session.
LogOut(t) ==
    /\ screen[t].path = "settings" /\ screen[t].account # None
    /\ SignOut(t)
    /\ UNCHANGED <<server, hydration, calls>>
    /\ GoTo(t, "public")

FormOf(kind) ==
    CASE kind = "login" -> "login" [] kind = "save" -> "settings" [] kind = "publish" -> "editor"

\* A form is sent once at a time, and needs an account except to sign in.
\* Any page may read something.
Submit(c) ==
    /\ Send(c)
    /\ LET t == calls'[c].tab
           kind == calls'[c].kind
       IN  \/ /\ kind = "read"
              /\ Stay(t)
           \/ /\ kind # "read"
              /\ screen[t].path = FormOf(kind)
              /\ screen[t].awaits = None
              /\ kind = "login" \/ screen[t].account # None
              /\ screen' = [screen EXCEPT ![t].awaits = c]

\* What the form asked is done: home, the profile or the article is opened,
\* wherever the user has gone meanwhile.
Accepted(c) ==
    \/ /\ AnswerLogin(c) \/ AnswerSave(c)
       /\ GoTo(calls[c].tab, "public")
    \/ /\ calls[c].kind = "publish" /\ api = "up" /\ calls[c].token \in accepted
       /\ AnswerOther(c)
       /\ GoTo(calls[c].tab, "public")

\* A refusal, a failure or the answer to a read: the page is told.
Told(c) ==
    /\ AnswerDenied(c) \/ AnswerOther(c)
    /\ StayAnswered(c)

Outside ==
    /\ (\E token \in Tokens : Expire(token)) \/ Weather
    /\ UNCHANGED screen

ScreenNext ==
    \/ \E t \in Tabs : \/ Rehydrated(t) \/ LogOut(t) \/ ClickWithoutUser(t)
                       \/ \E path \in Paths : Visit(t, path)
    \/ \E c \in Calls : Submit(c) \/ Accepted(c) \/ Told(c)
    \/ Outside

\* A page that stays open: timers fire and promises settle.
ScreenSpec ==
    /\ ScreenInit /\ [][ScreenNext]_screenVars
    /\ \A t \in Tabs : /\ WF_screenVars(Mount(t) /\ Stay(t))
                       /\ WF_screenVars(Conclude(t) /\ Stay(t))
                       /\ WF_screenVars(Retry(t) /\ Stay(t))

-----------------------------------------------------------------------------
(* Type *)

\* Every variable ranges over the states the code can represent: those of
\* Session, and pages whose form, when there is an account, shows the one of the
\* session.
ScreensTypeOK ==
    /\ TypeOK
    /\ screen \in [Tabs -> [path: Paths, account: Accounts \union {None},
                            awaits: Calls \union {None}]]
    /\ \A t \in Tabs :
        /\ screen[t].account # None => screen[t].path \in Protected
        /\ screen[t].path \in Protected /\ session[t].user # None =>
             screen[t].account = session[t].user

-----------------------------------------------------------------------------
(* Safety *)

\* REQ-WEB-019 AC-1, REQ-WEB-004 AC-7: as far as the session is concerned, a form
\* in front of its account stays, and stays that account's, whether the session
\* is refused, lost, unavailable or resolved again behind it.  It goes when its
\* user goes, or when something he asked is done.  (A read of the article that
\* fails behind an editor takes its place too: Content has those reads.)
FormStays ==
    [][\A t \in Tabs :
        screen[t].account # None =>
            \/ screen'[t].path = screen[t].path /\ screen'[t].account = screen[t].account
            \/ LogOut(t) \/ \E path \in Paths : Visit(t, path)
            \/ \E c \in Calls :
                 /\ calls[c].tab = t /\ calls'[c] # calls[c]
                 /\ api = "up"
                 /\ \/ calls[c].kind = "login"
                    \/ calls[c].kind \in {"save", "publish"} /\ calls[c].token \in accepted
           ]_screenVars

\* REQ-WEB-009 AC-3, AC-7, REQ-WEB-016: with one tab, no page takes to the login
\* form, of itself, somebody whose token is kept, however long the API is out of
\* reach.  A link does, and so does a button that favours or follows, but only
\* while the session is unavailable.
TokenSparesLogin ==
    [][\A t \in Tabs :
        screen[t].path # "login" /\ screen'[t].path = "login" =>
            \/ Visit(t, "login")
            \/ ClickWithoutUser(t) /\ session[t].status = "unavailable"
            \/ stored' = None]_screenVars

-----------------------------------------------------------------------------
(* Liveness *)

\* Nothing to show but a wait: no account to fill the form with, or no session
\* to read the personal feed with.
Waiting(t) ==
    \/ session[t].status \in {"pending", "unavailable"}
    \/ screen[t].path \in Protected /\ screen[t].account = None
    \/ screen[t].path = "following" /\ session[t].status # "authenticated"

\* REQ-WEB-016 AC-6: when the API stays up, no page waits for ever: the session
\* is resolved without a reload, and the page shows its account or has been left.
PageComesBack == <>[](api = "up") => \A t \in Tabs : Waiting(t) ~> ~Waiting(t)

=============================================================================
