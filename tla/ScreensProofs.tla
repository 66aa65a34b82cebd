---------------------------- MODULE ScreensProofs ----------------------------
(***************************************************************************)
(* What holds of the pages of Screens, on top of what SessionProofs says   *)
(* of the session behind them.                                             *)
(***************************************************************************)
EXTENDS Screens, SessionProofs

-----------------------------------------------------------------------------
(* The inductive invariant *)

PageRows == [path: Paths, account: Accounts \union {None}, awaits: Calls \union {None}]

\* A form shows the account of the session, as long as there is one, and it has
\* seen one only once the session is resolved: nothing that the loop of its tab
\* brings then can change it.
PageAt(t) ==
    /\ screen[t].account # None =>
         screen[t].path \in Protected /\ hydration[t].stage # "loading" /\ ~Resolving(t)
    /\ screen[t].path \in Protected /\ session[t].user # None =>
         screen[t].account = session[t].user

PagesInv ==
    /\ screen \in [Tabs -> PageRows]
    /\ \A t \in Tabs : PageAt(t)

ScreensInv == SInv /\ PagesInv

-----------------------------------------------------------------------------
(* The effects of a page *)

LEMMA OpenedFacts ==
    ASSUME NEW path \in Paths
    PROVE  /\ Opened(path) \in PageRows /\ Opened(path).path = path
           /\ Opened(path).account = None
BY DEF Opened, PageRows

\* A page that settles shows the account of the new session or the one it had,
\* or is left for the login form.
LEMMA SettleFacts ==
    ASSUME SInv', PagesInv, NEW t \in Tabs, NEW page \in PageRows, Settle(t, page)
    PROVE  /\ screen' \in [Tabs -> PageRows]
           /\ \A u \in Tabs : u # t => screen'[u] = screen[u]
           /\ TurnedAway(t, page) => screen'[t] = Opened("login")
           /\ ~TurnedAway(t, page) =>
                screen'[t].path = page.path /\ screen'[t].account = Kept(t, page)
<1>1. session'[t].user \in Accounts \union {None}
  <2>1. session'[t] \in Snapshots
    BY DEF SInv, Types, TypeOK
  <2>2. QED
    BY <2>1, SnapshotFacts
<1>2. Kept(t, page) \in Accounts \union {None}
  BY <1>1 DEF Kept, PageRows
<1>3. Opened("login") \in PageRows
  BY OpenedFacts DEF Paths
<1> DEFINE kept == [page EXCEPT !.account = Kept(t, page)]
<1>4. kept \in PageRows /\ kept.path = page.path /\ kept.account = Kept(t, page)
  BY <1>2 DEF PageRows
<1>5. screen' = [screen EXCEPT ![t] = IF TurnedAway(t, page) THEN Opened("login") ELSE kept]
  BY DEF Settle
<1>6. QED
  <2> HIDE DEF kept
  <2>1. QED
    BY <1>3, <1>4, <1>5 DEF PagesInv

\* A page that settles is as the invariant says, if what it had seen before was
\* seen under a resolved session.
LEMMA SettleStep ==
    ASSUME SInv', PagesInv, NEW t \in Tabs, NEW page \in PageRows, Settle(t, page),
           page.account # None => hydration'[t].stage # "loading" /\ ~Resolving(t)',
           \A u \in Tabs : u # t =>
             /\ session'[u] = session[u] /\ hydration'[u] = hydration[u]
             /\ generation'[u] = generation[u]
    PROVE  PagesInv'
<1>1. /\ screen' \in [Tabs -> PageRows]
      /\ \A u \in Tabs : u # t => screen'[u] = screen[u]
      /\ TurnedAway(t, page) => screen'[t] = Opened("login")
      /\ ~TurnedAway(t, page) =>
           screen'[t].path = page.path /\ screen'[t].account = Kept(t, page)
  BY SettleFacts
<1>2. ASSUME NEW u \in Tabs, u # t
      PROVE  PageAt(u)'
  BY <1>1, <1>2 DEF PagesInv, PageAt, Resolving, Stale
<1>3. PageAt(t)'
  <2>1. CASE TurnedAway(t, page)
    <3>1. screen'[t].account = None /\ screen'[t].path = "login"
      BY <1>1, <2>1, OpenedFacts DEF Paths
    <3>2. QED
      BY <3>1 DEF PageAt, Protected
  <2>2. CASE ~TurnedAway(t, page)
    <3>1. session'[t].user # None => hydration'[t].stage # "loading" /\ ~Resolving(t)'
      <4>1. session'[t] \in Snapshots /\ HydrationAt(t)'
        BY DEF SInv, Types, TypeOK
      <4>2. session'[t].user # None => session'[t].status = "authenticated"
        BY <4>1, SnapshotFacts
      <4>3. session'[t].status = "authenticated" =>
              hydration'[t].stage # "loading" /\ ~Resolving(t)'
        BY <4>1, SnapshotTypes DEF HydrationAt, Resolving
      <4>4. QED
        BY <4>2, <4>3
    <3>2. screen'[t].path = page.path /\ screen'[t].account = Kept(t, page)
      BY <1>1, <2>2
    <3>3. QED
      BY <3>1, <3>2 DEF PageAt, Kept
  <2>3. QED
    BY <2>1, <2>2
<1>4. QED
  BY <1>1, <1>2, <1>3 DEF PagesInv

-----------------------------------------------------------------------------
(* The invariant, action by action *)

\* What a session step leaves of the other tabs, and the loops it may start.
LEMMA RehydrateLocal ==
    ASSUME SInv, NEW t \in Tabs, Rehydrate(t)
    PROVE  /\ \A u \in Tabs : u # t =>
                session'[u] = session[u] /\ hydration'[u] = hydration[u]
           /\ generation' = generation
           /\ hydration[t].stage # "loading" /\ ~Resolving(t) =>
                /\ hydration'[t].stage # "loading" /\ ~Resolving(t)'
                /\ session'[t] = session[t]
<1>1. /\ \A s : Show(t, s) => \A u \in Tabs : u # t => session'[u] = session[u]
      /\ \A stage : Loop(t, stage) =>
           /\ \A u \in Tabs : u # t => hydration'[u] = hydration[u]
           /\ hydration'[t].stage = stage
           /\ hydration'[t].startedAt = hydration[t].startedAt
  BY DEF Show, Loop, SInv, Types, TypeOK, Hydrations
<1>2. CASE Mount(t)
  BY <1>1, <1>2 DEF Mount, SInv, Types
<1>3. CASE Conclude(t)
  <2>1. hydration[t].stage = "calling" /\ generation' = generation
    BY <1>3 DEF Conclude, Resolve, Refuse, Fail, TimeOut, Postpone
  <2>2. \/ Loop(t, "over")
        \/ Loop(t, "waiting") /\ ~Stale(t)
    BY <1>3 DEF Conclude, Resolve, Refuse, Fail, TimeOut, Postpone
  <2>3. session' = session \/ \E s : Show(t, s)
    BY <1>3 DEF Conclude, Resolve, Refuse, Fail, TimeOut, Postpone
  <2>4. Stale(t) => session' = session
    BY <1>3 DEF Conclude, Resolve, Refuse, Fail, TimeOut, Postpone
  <2>5. QED
    BY <1>1, <2>1, <2>2, <2>3, <2>4 DEF Resolving
<1>4. CASE Retry(t)
  <2>1. hydration[t].stage = "waiting" /\ UNCHANGED <<session, generation>>
    BY <1>4 DEF Retry
  <2>2. \/ Loop(t, "over") /\ Stale(t)
        \/ Loop(t, "calling") /\ ~Stale(t)
    <3>1. CASE Stale(t)
      BY <1>4, <3>1 DEF Retry
    <3>2. CASE ~Stale(t)
      BY <1>4, <3>2 DEF Retry
    <3>3. QED
      BY <3>1, <3>2
  <2>3. QED
    BY <1>1, <2>1, <2>2 DEF Resolving
<1>5. QED
  BY <1>2, <1>3, <1>4 DEF Rehydrate

\* A sign-in or a sign-out makes the loop of its tab stale.
LEMMA SignLocal ==
    ASSUME SInv, NEW t \in Tabs, SignOut(t) \/ \E token \in Tokens : SignIn(t, token),
           hydration' = hydration
    PROVE  /\ \A u \in Tabs : u # t =>
                /\ session'[u] = session[u] /\ hydration'[u] = hydration[u]
                /\ generation'[u] = generation[u]
           /\ ~Resolving(t)'
<1>1. /\ generation'[t] = generation[t] + 1
      /\ \A u \in Tabs : u # t => generation'[u] = generation[u] /\ session'[u] = session[u]
  BY DEF SignOut, SignIn, Show, SInv, Types, TypeOK
<1>2. Stale(t)'
  BY <1>1, LoopFacts DEF Stale, Hydrations
<1>3. QED
  BY <1>1, <1>2 DEF Resolving

\* Pages of a session that does not move.
LEMMA StillPages ==
    ASSUME PagesInv, UNCHANGED <<session, generation, hydration>>,
           screen' \in [Tabs -> PageRows],
           \A t \in Tabs : screen'[t].path = screen[t].path /\ screen'[t].account = screen[t].account
    PROVE  PagesInv'
BY DEF PagesInv, PageAt, Resolving, Stale

LEMMA InitScreensInv == ScreenInit => ScreensInv
<1> SUFFICES ASSUME ScreenInit PROVE ScreensInv
  OBVIOUS
<1>1. SInv
  BY InitSInv DEF ScreenInit
<1>2. screen \in [Tabs -> PageRows] /\ \A t \in Tabs : screen[t].account = None
  <2>1. \A o \in {Opened(path) : path \in Paths} : o \in PageRows /\ o.account = None
    BY OpenedFacts
  <2>2. QED
    BY <2>1 DEF ScreenInit
<1>3. \A t \in Tabs : session[t].user = None
  BY SnapshotTypes DEF ScreenInit, Init
<1>4. QED
  BY <1>1, <1>2, <1>3 DEF ScreensInv, PagesInv, PageAt

LEMMA RehydratedStep ==
    ASSUME ScreensInv, NEW t \in Tabs, Rehydrated(t)
    PROVE  ScreensInv'
<1>1. SInv'
  BY RehydrateStep DEF Rehydrated, ScreensInv
<1>2. screen[t] \in PageRows /\ PageAt(t) /\ Settle(t, screen[t])
  BY DEF ScreensInv, PagesInv, Rehydrated, Stay
<1>3. PagesInv'
  BY <1>1, <1>2, RehydrateLocal, SettleStep DEF Rehydrated, ScreensInv, PageAt
<1>4. QED
  BY <1>1, <1>3 DEF ScreensInv

LEMMA VisitStep ==
    ASSUME ScreensInv, NEW t \in Tabs, NEW path \in Paths, Visit(t, path)
    PROVE  ScreensInv'
<1>1. SInv' /\ UNCHANGED <<session, generation, hydration>>
  BY StutterStep DEF Visit, ScreensInv, vars
<1>2. Settle(t, Opened(path))
  BY DEF Visit, GoTo
<1>3. PagesInv'
  BY <1>1, <1>2, OpenedFacts, SettleStep DEF ScreensInv
<1>4. QED
  BY <1>1, <1>3 DEF ScreensInv

LEMMA ClickStep ==
    ASSUME ScreensInv, NEW t \in Tabs, ClickWithoutUser(t)
    PROVE  ScreensInv'
<1>1. SInv' /\ UNCHANGED <<session, generation, hydration>>
  BY StutterStep DEF ClickWithoutUser, ScreensInv, vars
<1>2. Settle(t, Opened("login")) /\ "login" \in Paths
  BY DEF ClickWithoutUser, GoTo, Paths
<1>3. PagesInv'
  BY <1>1, <1>2, OpenedFacts, SettleStep DEF ScreensInv
<1>4. QED
  BY <1>1, <1>3 DEF ScreensInv

\* The home page, or the page of what a form has made.
LEMMA GoneStep ==
    ASSUME ScreensInv, SInv', NEW t \in Tabs, GoTo(t, "public"),
           \A u \in Tabs : u # t =>
             /\ session'[u] = session[u] /\ hydration'[u] = hydration[u]
             /\ generation'[u] = generation[u]
    PROVE  PagesInv'
<1>1. PICK page \in PageRows : Settle(t, page) /\ page.account = None
  <2>1. CASE screen[t].path = "public"
    <3>1. screen[t] \in PageRows /\ screen[t].account = None
      BY <2>1 DEF ScreensInv, PagesInv, PageAt, Protected
    <3>2. QED
      BY <2>1, <3>1 DEF GoTo
  <2>2. CASE screen[t].path # "public"
    <3>1. Settle(t, Opened("public"))
      BY <2>2 DEF GoTo
    <3>2. QED
      BY <3>1, OpenedFacts DEF Paths
  <2>3. QED
    BY <2>1, <2>2
<1>2. QED
  BY <1>1, SettleStep DEF ScreensInv

LEMMA LogOutStep ==
    ASSUME ScreensInv, NEW t \in Tabs, LogOut(t)
    PROVE  ScreensInv'
<1>1. hydration[t].stage # "loading" /\ SInv
  BY DEF LogOut, ScreensInv, PagesInv, PageAt
<1>2. SignOut(t) /\ UNCHANGED <<accepted, api, hydration, calls>> /\ GoTo(t, "public")
  BY DEF LogOut, server
<1>3. accepted' \in SUBSET Tokens
  BY <1>1, <1>2 DEF SInv, Types, TypeOK
<1>4. SInv'
  BY <1>1, <1>2, <1>3, SnapshotTypes, SignStep DEF SignOut, Show
<1>5. PagesInv'
  BY <1>1, <1>2, <1>4, SignLocal, GoneStep
<1>6. QED
  BY <1>4, <1>5 DEF ScreensInv

LEMMA SubmitStep ==
    ASSUME ScreensInv, NEW c \in Calls, Submit(c)
    PROVE  ScreensInv'
<1>1. SInv' /\ Send(c) /\ UNCHANGED <<session, generation, hydration>>
  BY SendStep DEF Submit, ScreensInv, Send
<1>2. PICK t \in Tabs : calls'[c].tab = t
  BY <1>1 DEF Send, ScreensInv, SInv, Types, TypeOK
<1>3. CASE Stay(t)
  <2>1. screen[t] \in PageRows /\ PageAt(t) /\ Settle(t, screen[t])
    BY <1>3 DEF ScreensInv, PagesInv, Stay
  <2>2. PagesInv'
    BY <1>1, <2>1, SettleStep DEF ScreensInv, PageAt, Resolving, Stale
  <2>3. QED
    BY <1>1, <2>2 DEF ScreensInv
<1>4. CASE screen' = [screen EXCEPT ![t].awaits = c]
  <2>1. /\ screen' \in [Tabs -> PageRows]
        /\ \A u \in Tabs : screen'[u].path = screen[u].path /\ screen'[u].account = screen[u].account
    BY <1>4 DEF ScreensInv, PagesInv, PageRows
  <2>2. QED
    BY <1>1, <2>1, StillPages DEF ScreensInv
<1>5. QED
  BY <1>2, <1>3, <1>4 DEF Submit

\* The tab of a call that is answered, and how its session moves.
LEMMA AnswerLocal ==
    ASSUME SInv, NEW c \in Calls, Answer(c)
    PROVE  \E t \in Tabs :
             /\ calls[c].tab = t /\ hydration' = hydration /\ hydration[t].stage # "loading"
             /\ \A u \in Tabs : u # t =>
                  /\ session'[u] = session[u] /\ hydration'[u] = hydration[u]
                  /\ generation'[u] = generation[u]
             /\ ~Resolving(t) => ~Resolving(t)'
<1>1. PICK t \in Tabs : calls[c].tab = t
  BY DEF Answer, AnswerLogin, AnswerSave, AnswerDenied, Denied, AnswerOther, SInv, CallAt
<1>2. hydration[t].stage # "loading" /\ hydration' = hydration
  BY <1>1 DEF Answer, AnswerLogin, AnswerSave, AnswerDenied, Denied, AnswerOther, SInv, CallAt
<1>3. CASE UNCHANGED <<session, generation>>
  BY <1>1, <1>2, <1>3 DEF Resolving, Stale
<1>4. CASE SignOut(t) \/ \E token \in Tokens : SignIn(t, token)
  BY <1>1, <1>2, <1>4, SignLocal
<1>5. QED
  BY <1>1, <1>3, <1>4 DEF Answer, AnswerLogin, AnswerSave, AnswerDenied, AnswerOther

LEMMA AcceptedStep ==
    ASSUME ScreensInv, NEW c \in Calls, Accepted(c)
    PROVE  ScreensInv'
<1>1. Answer(c) /\ GoTo(calls[c].tab, "public")
  BY DEF Accepted, Answer
<1>2. SInv'
  BY <1>1, AnswerStep DEF ScreensInv
<1>3. PagesInv'
  BY <1>1, <1>2, AnswerLocal, GoneStep DEF ScreensInv
<1>4. QED
  BY <1>2, <1>3 DEF ScreensInv

LEMMA ToldPage ==
    ASSUME ScreensInv, NEW c \in Calls, NEW t \in Tabs, calls[c].tab = t, StayAnswered(c)
    PROVE  \E page \in PageRows :
             Settle(t, page) /\ page.path = screen[t].path /\ page.account = screen[t].account
<1> DEFINE page == [screen[t] EXCEPT !.awaits = IF @ = c THEN None ELSE @]
<1>1. page \in PageRows /\ page.path = screen[t].path /\ page.account = screen[t].account
  BY DEF ScreensInv, PagesInv, PageRows
<1>2. Settle(t, page)
  BY DEF StayAnswered
<1>3. QED
  BY <1>1, <1>2

LEMMA ToldStep ==
    ASSUME ScreensInv, NEW c \in Calls, Told(c)
    PROVE  ScreensInv'
<1>1. Answer(c) /\ StayAnswered(c) /\ SInv
  BY DEF Told, Answer, ScreensInv
<1>2. SInv'
  BY <1>1, AnswerStep
<1>3. PICK t \in Tabs :
        /\ calls[c].tab = t /\ hydration' = hydration /\ hydration[t].stage # "loading"
        /\ \A u \in Tabs : u # t =>
             /\ session'[u] = session[u] /\ hydration'[u] = hydration[u]
             /\ generation'[u] = generation[u]
        /\ ~Resolving(t) => ~Resolving(t)'
  BY <1>1, AnswerLocal
<1>4. PICK page \in PageRows :
        Settle(t, page) /\ page.path = screen[t].path /\ page.account = screen[t].account
  BY <1>1, <1>3, ToldPage
<1>5. page.account # None => hydration'[t].stage # "loading" /\ ~Resolving(t)'
  BY <1>3, <1>4 DEF ScreensInv, PagesInv, PageAt
<1>6. PagesInv'
  BY <1>2, <1>3, <1>4, <1>5, SettleStep DEF ScreensInv
<1>7. QED
  BY <1>2, <1>6 DEF ScreensInv

LEMMA OutsideScreens ==
    ASSUME ScreensInv, Outside \/ UNCHANGED screenVars
    PROVE  ScreensInv'
<1>1. SInv'
  BY OutsideStep, StutterStep DEF Outside, screenVars, ScreensInv
<1>2. UNCHANGED <<session, generation, hydration, screen>>
  BY DEF Outside, Expire, Weather, screenVars, vars
<1>3. QED
  BY <1>1, <1>2, StillPages DEF ScreensInv, PagesInv

LEMMA ScreensInvStep ==
    ASSUME ScreensInv, [ScreenNext]_screenVars
    PROVE  ScreensInv'
BY RehydratedStep, LogOutStep, VisitStep, ClickStep, SubmitStep, AcceptedStep, ToldStep,
   OutsideScreens
   DEF ScreenNext

\* The invariant of the session holds under its pages, with that of the pages.
THEOREM ScreensInvariance == ScreenSpec => []ScreensInv
<1>1. QED
  BY InitScreensInv, ScreensInvStep, PTL DEF ScreenSpec

\* A page that needs an account shows the one of the session, when there is one.
THEOREM ScreensTypeCorrectness == ScreenSpec => []ScreensTypeOK
<1>1. ScreensInv => ScreensTypeOK
  BY DEF ScreensInv, SInv, Types, PagesInv, PageAt, PageRows, ScreensTypeOK
<1>2. QED
  BY <1>1, ScreensInvariance, PTL

-----------------------------------------------------------------------------
(* A form in front of its account *)

\* A page that has seen an account stays, with the account of the new session or
\* the one it had.
LEMMA SettleKeeps ==
    ASSUME SInv', ScreensInv, NEW t \in Tabs, NEW page \in PageRows, Settle(t, page),
           page.path = screen[t].path, page.account = screen[t].account,
           screen[t].account # None,
           session'[t].user \in {session[t].user, None}
    PROVE  screen'[t].path = screen[t].path /\ screen'[t].account = screen[t].account
<1>1. PageAt(t)
  BY DEF ScreensInv, PagesInv
<1>2. Kept(t, page) = screen[t].account
  BY <1>1 DEF Kept, PageAt
<1>3. ~TurnedAway(t, page)
  BY <1>1, <1>2 DEF TurnedAway, PageAt, Protected
<1>4. QED
  BY <1>2, <1>3, SettleFacts DEF ScreensInv

\* A page that settles in one tab leaves those of the others.
LEMMA SettleElsewhere ==
    ASSUME NEW t, NEW page, Settle(t, page), PagesInv, NEW u \in Tabs, u # t
    PROVE  screen'[u] = screen[u]
BY DEF Settle, PagesInv

LEMMA FormStep ==
    ASSUME ScreensInv, ScreensInv', NEW t \in Tabs, screen[t].account # None, ScreenNext
    PROVE  \/ screen'[t].path = screen[t].path /\ screen'[t].account = screen[t].account
           \/ LogOut(t) \/ \E path \in Paths : Visit(t, path)
           \/ \E c \in Calls :
                /\ calls[c].tab = t /\ calls'[c] # calls[c]
                /\ api = "up"
                /\ \/ calls[c].kind = "login"
                   \/ calls[c].kind \in {"save", "publish"} /\ calls[c].token \in accepted
<1> DEFINE Same == screen'[t].path = screen[t].path /\ screen'[t].account = screen[t].account
<1>1. SInv /\ SInv' /\ PagesInv /\ PageAt(t) /\ screen[t] \in PageRows
  BY DEF ScreensInv, PagesInv
<1>2. ASSUME NEW u \in Tabs, Rehydrated(u)
      PROVE  Same
  <2>1. CASE u # t
    BY <1>1, <1>2, <2>1, SettleElsewhere DEF Rehydrated, Stay
  <2>2. CASE u = t
    <3>1. session'[t] = session[t]
      BY <1>1, <1>2, <2>2, RehydrateLocal DEF Rehydrated, PageAt
    <3>2. QED
      BY <1>1, <1>2, <2>2, <3>1, SettleKeeps DEF Rehydrated, Stay
  <2>3. QED
    BY <2>1, <2>2
<1>3. ASSUME NEW u \in Tabs, LogOut(u), u # t
      PROVE  Same
  BY <1>1, <1>3, SettleElsewhere DEF LogOut, GoTo
<1>4. ASSUME NEW u \in Tabs, NEW path \in Paths, Visit(u, path), u # t
      PROVE  Same
  BY <1>1, <1>4, SettleElsewhere DEF Visit, GoTo
<1>5. ASSUME NEW c \in Calls, Submit(c)
      PROVE  Same
  <2>1. PICK u \in Tabs : calls'[c].tab = u
    BY <1>1, <1>5 DEF Submit, Send, SInv, Types, TypeOK
  <2>2. session' = session
    BY <1>5 DEF Submit, Send
  <2>3. CASE screen' = [screen EXCEPT ![u].awaits = c]
    BY <1>1, <2>3 DEF PagesInv, PageRows
  <2>4. CASE Stay(u)
    <3>1. CASE u # t
      BY <1>1, <2>4, <3>1, SettleElsewhere DEF Stay
    <3>2. CASE u = t
      BY <1>1, <2>2, <2>4, <3>2, SettleKeeps DEF Stay
    <3>3. QED
      BY <3>1, <3>2
  <2>5. QED
    BY <1>5, <2>1, <2>3, <2>4 DEF Submit
<1>6. ASSUME NEW c \in Calls, Accepted(c)
      PROVE  \/ Same
             \/ /\ calls[c].tab = t /\ calls'[c] # calls[c] /\ api = "up"
                /\ \/ calls[c].kind = "login"
                   \/ calls[c].kind \in {"save", "publish"} /\ calls[c].token \in accepted
  <2>1. CASE calls[c].tab # t
    BY <1>1, <1>6, <2>1, SettleElsewhere DEF Accepted, GoTo
  <2>2. CASE calls[c].tab = t
    <3>1. calls[c].stage = "sent" /\ End(c)
      BY <1>6 DEF Accepted, AnswerLogin, AnswerSave, AnswerOther
    <3>2. calls'[c] # calls[c]
      BY <1>1, <3>1 DEF End, SInv, Types, TypeOK
    <3>3. /\ api = "up"
          /\ \/ calls[c].kind = "login"
             \/ calls[c].kind \in {"save", "publish"} /\ calls[c].token \in accepted
      BY <1>6 DEF Accepted, AnswerLogin, AnswerSave
    <3>4. QED
      BY <2>2, <3>2, <3>3
  <2>3. QED
    BY <2>1, <2>2
<1>7. ASSUME NEW c \in Calls, Told(c)
      PROVE  Same
  <2>1. CASE calls[c].tab # t
    BY <1>1, <1>7, <2>1, SettleElsewhere DEF Told, StayAnswered
  <2>2. CASE calls[c].tab = t
    <3>1. session'[t].user \in {session[t].user, None}
      <4>1. CASE session' = session
        BY <4>1
      <4>2. CASE session' # session
        <5>1. SignOut(t)
          BY <1>7, <2>2, <4>2 DEF Told, AnswerDenied, AnswerOther
        <5>2. session'[t] = Anonymous
          BY <1>1, <5>1 DEF SignOut, Show, SInv, Types, TypeOK
        <5>3. QED
          BY <5>2, SnapshotTypes
      <4>3. QED
        BY <4>1, <4>2
    <3>2. PICK page \in PageRows :
            Settle(t, page) /\ page.path = screen[t].path /\ page.account = screen[t].account
      BY <1>7, <2>2, ToldPage DEF Told
    <3>3. QED
      BY <1>1, <3>1, <3>2, SettleKeeps
  <2>3. QED
    BY <2>1, <2>2
<1>8. Outside => Same
  BY DEF Outside
<1>9. ASSUME NEW u \in Tabs, ClickWithoutUser(u)
      PROVE  Same
  <2>1. u # t
    BY <1>1, <1>9 DEF ClickWithoutUser, PageAt, Protected
  <2>2. QED
    BY <1>1, <1>9, <2>1, SettleElsewhere DEF ClickWithoutUser, GoTo
<1>10. QED
  BY <1>2, <1>3, <1>4, <1>5, <1>6, <1>7, <1>8, <1>9 DEF ScreenNext

\* REQ-WEB-019 AC-1, REQ-WEB-004 AC-7: a form in front of its account stays, and
\* stays that account's.
THEOREM FormStaysHolds == ScreenSpec => FormStays
<1>1. ScreensInv /\ ScreensInv' /\ [ScreenNext]_screenVars =>
        [\A t \in Tabs :
          screen[t].account # None =>
            \/ screen'[t].path = screen[t].path /\ screen'[t].account = screen[t].account
            \/ LogOut(t) \/ \E path \in Paths : Visit(t, path)
            \/ \E c \in Calls :
                 /\ calls[c].tab = t /\ calls'[c] # calls[c]
                 /\ api = "up"
                 /\ \/ calls[c].kind = "login"
                    \/ calls[c].kind \in {"save", "publish"} /\ calls[c].token \in accepted
           ]_screenVars
  BY FormStep
<1>2. QED
  BY <1>1, ScreensInvariance, PTL DEF ScreenSpec, FormStays

-----------------------------------------------------------------------------
(* A browser with one tab *)

LEMMA ScreensOneTabStep ==
    ASSUME NEW t, Tabs = {t}, ScreensInv, OneTab, [ScreenNext]_screenVars
    PROVE  OneTab'
<1> t \in Tabs /\ SInv
  BY DEF ScreensInv
<1>1. CASE Rehydrated(t)
  BY <1>1, RehydrateAlone DEF Rehydrated
<1>2. CASE LogOut(t)
  BY <1>2, SignAlone DEF LogOut
<1>3. ASSUME NEW c \in Calls, Submit(c)
      PROVE  OneTab'
  BY <1>3, QuietAlone DEF Submit, Send
<1>4. ASSUME NEW c \in Calls, Accepted(c) \/ Told(c)
      PROVE  OneTab'
  BY <1>4, AnswerAlone DEF Accepted, Told, Answer
<1>5. ASSUME NEW path \in Paths, Visit(t, path)
      PROVE  OneTab'
  BY <1>5, QuietAlone DEF Visit, vars
<1>6. CASE Outside \/ ClickWithoutUser(t) \/ UNCHANGED screenVars
  BY <1>6, QuietAlone DEF Outside, ClickWithoutUser, Expire, Weather, screenVars, vars
<1>7. QED
  BY <1>1, <1>2, <1>3, <1>4, <1>5, <1>6 DEF ScreenNext

LEMMA ScreensOneTab ==
    ASSUME NEW tab, Tabs = {tab}
    PROVE  ScreenSpec => []OneTab
<1>1. ScreenInit => OneTab
  BY InitOneTab DEF ScreenInit
<1>2. ScreensInv /\ OneTab /\ [ScreenNext]_screenVars => OneTab'
  BY ScreensOneTabStep
<1>3. QED
  BY <1>1, <1>2, ScreensInvariance, PTL DEF ScreenSpec

\* With one tab, a reload finds the account the page was showing.
THEOREM ScreensShownIsStored ==
    ASSUME NEW tab, Tabs = {tab}
    PROVE  ScreenSpec => []ShownIsStored
<1>1. OneTab => ShownIsStored
  BY DEF OneTab, OneTabAt, ShownIsStored
<1>2. QED
  BY <1>1, ScreensOneTab, PTL

\* REQ-WEB-016: with one tab, an outage of the API purges nothing.  The button
\* that signs out of a session already closed finds nothing to purge.
THEOREM ScreensOutagePurgesNothing ==
    ASSUME NEW tab, Tabs = {tab}
    PROVE  ScreenSpec => OutagePurgesNothing
<1>1. ASSUME ScreensInv, OneTab, [ScreenNext]_screenVars
      PROVE  [stored # None /\ stored' = None =>
               \/ \E t \in Tabs : ClickSignOut(t)
               \/ \E t \in Tabs : api = "up" /\ hydration[t].token = stored /\ stored \notin accepted
               \/ \E c \in Calls : Denied(c) /\ calls'[c] # calls[c]]_vars
  <2> SInv /\ tab \in Tabs
    BY <1>1 DEF ScreensInv
  <2>1. ASSUME LogOut(tab), stored # None
        PROVE  ClickSignOut(tab)
    <3>1. PageAt(tab) /\ HydrationAt(tab) /\ OneTabAt(tab)
      BY <1>1 DEF ScreensInv, PagesInv, SInv, OneTab
    <3>2. hydration[tab].stage # "loading" /\ ~Resolving(tab)
      BY <2>1, <3>1 DEF LogOut, PageAt
    <3>3. session[tab].status \notin {"pending", "unavailable"}
      BY <3>1, <3>2 DEF HydrationAt
    <3>4. session[tab].token = stored
      BY <3>1, <3>3 DEF OneTabAt
    <3>5. session[tab].status = "authenticated"
      BY <2>1, <3>3, <3>4, SnapshotFacts DEF SInv, Types, TypeOK
    <3>6. QED
      BY <2>1, <3>5 DEF LogOut, ClickSignOut
  <2>2. ASSUME NEW c \in Calls, Submit(c)
        PROVE  stored' = stored
    BY <2>2 DEF Submit, Send
  <2>3. ASSUME NEW path \in Paths, Visit(tab, path)
        PROVE  stored' = stored
    BY <2>3 DEF Visit, vars
  <2>4. Outside \/ ClickWithoutUser(tab) => stored' = stored
    BY DEF Outside, ClickWithoutUser, Expire, Weather, vars
  <2>5. \A t \in Tabs : Rehydrated(t) => Rehydrate(t)
    BY DEF Rehydrated
  <2>6. \A c \in Calls : Accepted(c) \/ Told(c) => Answer(c)
    BY DEF Accepted, Told, Answer
  <2>7. UNCHANGED screenVars => UNCHANGED vars
    BY DEF screenVars
  <2>8. QED
    BY <1>1, <2>1, <2>2, <2>3, <2>4, <2>5, <2>6, <2>7, PurgesForAReason DEF ScreenNext
<1>2. QED
  BY <1>1, ScreensInvariance, ScreensOneTab, PTL DEF ScreenSpec, OutagePurgesNothing

\* The login form comes by itself to a session that is anonymous only.
LEMMA LoginIsAnonymous ==
    ASSUME SInv', PagesInv, NEW t \in Tabs, NEW page \in PageRows, Settle(t, page),
           screen'[t].path = "login", page.path # "login"
    PROVE  session'[t].status = "anonymous"
BY SettleFacts DEF TurnedAway

LEMMA TokenStep ==
    ASSUME NEW t, Tabs = {t}, ScreensInv, ScreensInv', OneTab', ScreenNext,
           screen[t].path # "login", screen'[t].path = "login"
    PROVE  \/ Visit(t, "login")
           \/ ClickWithoutUser(t) /\ session[t].status = "unavailable"
           \/ stored' = None
<1> t \in Tabs
  OBVIOUS
<1>1. SInv' /\ SInv /\ PagesInv /\ screen[t] \in PageRows
  BY DEF ScreensInv, PagesInv
<1>2. session'[t].status = "anonymous" => stored' = None
  <2>1. session'[t] \in Snapshots /\ OneTabAt(t)'
    BY <1>1 DEF SInv, Types, TypeOK, OneTab
  <2>2. QED
    BY <2>1, SnapshotFacts DEF OneTabAt
<1>3. ASSUME Stay(t)
      PROVE  stored' = None
  BY <1>1, <1>2, <1>3, LoginIsAnonymous DEF Stay
<1>4. ASSUME NEW path \in Paths, path # "login", GoTo(t, path)
      PROVE  stored' = None
  <2>1. PICK page \in PageRows : Settle(t, page) /\ page.path = path
    <3>1. CASE path = screen[t].path
      BY <1>1, <1>4, <3>1 DEF GoTo
    <3>2. CASE path # screen[t].path
      BY <1>4, <3>2, OpenedFacts DEF GoTo
    <3>3. QED
      BY <3>1, <3>2
  <2>2. QED
    BY <1>1, <1>2, <1>4, <2>1, LoginIsAnonymous
<1>5. ASSUME NEW path \in Paths, Visit(t, path)
      PROVE  Visit(t, "login") \/ stored' = None
  BY <1>4, <1>5 DEF Visit
<1>6. ASSUME NEW c \in Calls, Submit(c)
      PROVE  stored' = None
  <2>1. calls'[c].tab = t
    BY <1>1, <1>6 DEF Submit, Send, SInv, Types, TypeOK
  <2>2. ~(screen' = [screen EXCEPT ![t].awaits = c])
    BY <1>1 DEF PagesInv, PageRows
  <2>3. QED
    BY <1>3, <1>6, <2>1, <2>2 DEF Submit
<1>7. ASSUME NEW c \in Calls, Accepted(c)
      PROVE  stored' = None
  <2>1. Answer(c)
    BY <1>7 DEF Accepted, Answer
  <2>2. calls[c].tab = t
    BY <1>1, <2>1, AnswerLocal
  <2>3. QED
    BY <1>4, <1>7, <2>2 DEF Accepted, Paths
<1>8. ASSUME NEW c \in Calls, Told(c)
      PROVE  stored' = None
  <2>1. Answer(c)
    BY <1>8 DEF Told, Answer
  <2>2. calls[c].tab = t
    BY <1>1, <2>1, AnswerLocal
  <2>3. PICK page \in PageRows : Settle(t, page) /\ page.path = screen[t].path
    BY <1>8, <2>2, ToldPage DEF Told
  <2>4. QED
    BY <1>1, <1>2, <2>3, LoginIsAnonymous
<1>9. LogOut(t) => stored' = None
  BY DEF LogOut, SignOut
<1>10. Rehydrated(t) => stored' = None
  BY <1>3 DEF Rehydrated
<1>11. ~Outside
  BY DEF Outside
<1>12. ASSUME ClickWithoutUser(t), session[t].status # "unavailable"
       PROVE  stored' = None
  <2>1. session'[t] = session[t] /\ session[t].user = None /\ session[t].status # "pending"
    BY <1>12 DEF ClickWithoutUser, vars
  <2>2. session[t] \in Snapshots
    BY <1>1 DEF SInv, Types, TypeOK
  <2>3. session[t].status = "anonymous"
    BY <1>12, <2>1, <2>2, SnapshotFacts
  <2>4. QED
    BY <1>2, <2>1, <2>3
<1>13. QED
  BY <1>5, <1>6, <1>7, <1>8, <1>9, <1>10, <1>11, <1>12 DEF ScreenNext

\* REQ-WEB-009 AC-3, AC-7, REQ-WEB-016: with one tab, no page takes to the login
\* form, of itself, somebody whose token is kept; a button that favours or follows
\* does, while the session is unavailable.
THEOREM TokenSparesLoginHolds ==
    ASSUME NEW tab, Tabs = {tab}
    PROVE  ScreenSpec => TokenSparesLogin
<1>1. ScreensInv /\ ScreensInv' /\ OneTab' /\ [ScreenNext]_screenVars =>
        [\A t \in Tabs :
          screen[t].path # "login" /\ screen'[t].path = "login" =>
            \/ Visit(t, "login")
            \/ ClickWithoutUser(t) /\ session[t].status = "unavailable"
            \/ stored' = None]_screenVars
  BY TokenStep
<1>2. QED
  BY <1>1, ScreensInvariance, ScreensOneTab, PTL DEF ScreenSpec, TokenSparesLogin

=============================================================================
