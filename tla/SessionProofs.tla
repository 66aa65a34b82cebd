---------------------------- MODULE SessionProofs ----------------------------
(***************************************************************************)
(* What holds of Session for any number of tabs, calls, accounts and       *)
(* tokens, whatever the API answers and when.                              *)
(*                                                                         *)
(* A rehydration that is under way and not stale is the only thing that    *)
(* may resolve a session, and a session that is not resolved has one: the  *)
(* invariant is that these two say the same of a tab.                      *)
(***************************************************************************)
EXTENDS Session, TLAPS

-----------------------------------------------------------------------------
(* The inductive invariant *)

Hydrations == [stage: {"loading", "calling", "waiting", "over"},
               token: Tokens \union {None}, startedAt: Nat]

Types ==
    /\ TypeOK
    /\ generation \in [Tabs -> Nat]
    /\ hydration \in [Tabs -> Hydrations]

\* The loop runs, and what it brings will be shown.
Resolving(t) == hydration[t].stage \in {"calling", "waiting"} /\ ~Stale(t)

HydrationAt(t) ==
    /\ hydration[t].stage = "loading" => session[t] = Unresolved
    /\ hydration[t].stage \in {"calling", "waiting"} => hydration[t].token \in Tokens
    /\ Resolving(t) => session[t] \in {Unresolved, Unavailable(hydration[t].token)}
    /\ session[t].status \in {"pending", "unavailable"} =>
         hydration[t].stage = "loading" \/ Resolving(t)

\* A request was sent by a tab that had mounted, and has not been loaded again.
CallAt(c) ==
    calls[c].stage = "sent" => calls[c].tab \in Tabs /\ hydration[calls[c].tab].stage # "loading"

SInv ==
    /\ Types
    /\ \A t \in Tabs : HydrationAt(t)
    /\ \A c \in Calls : CallAt(c)

-----------------------------------------------------------------------------
(* Snapshots and effects *)

LEMMA SnapshotFacts ==
    ASSUME NEW s \in Snapshots
    PROVE  /\ s.status \in {"pending", "anonymous", "authenticated", "unavailable"}
           /\ s.user \in Accounts \union {None} /\ s.token \in Tokens \union {None}
           /\ s.status = "pending" <=> s = Unresolved
           /\ s.status = "anonymous" => s.token = None
           /\ s.user # None <=> s.status = "authenticated"
           /\ s.status \in {"authenticated", "unavailable"} => s.token \in Tokens
           /\ s.status = "unavailable" => s = Unavailable(s.token)
BY TokenAssumption DEF Snapshots, Unresolved, Anonymous, Authenticated, Unavailable

LEMMA SnapshotTypes ==
    /\ Unresolved \in Snapshots /\ Unresolved.status = "pending" /\ Unresolved.user = None
    /\ Anonymous \in Snapshots /\ Anonymous.status = "anonymous"
    /\ Anonymous.user = None /\ Anonymous.token = None
    /\ \A k \in Tokens :
         /\ Authenticated(k) \in Snapshots /\ Authenticated(k).status = "authenticated"
         /\ Authenticated(k).token = k /\ Authenticated(k).user = OwnerOf[k]
         /\ Unavailable(k) \in Snapshots /\ Unavailable(k).status = "unavailable"
         /\ Unavailable(k).token = k /\ Unavailable(k).user = None
BY DEF Snapshots, Unresolved, Anonymous, Authenticated, Unavailable

\* A step of the loop of t, and what it shows.
LEMMA LoopStep ==
    ASSUME SInv, NEW t \in Tabs, NEW h \in Hydrations, NEW s \in Snapshots,
           hydration' = [hydration EXCEPT ![t] = h],
           session' = [session EXCEPT ![t] = s],
           generation' = generation, calls' = calls, api' = api,
           stored' \in Tokens \union {None}, accepted' \in SUBSET Tokens,
           generation[t] >= h.startedAt, HydrationAt(t)',
           hydration[t].stage # "loading" => h.stage # "loading"
    PROVE  SInv'
<1>1. Types'
  <2>1. /\ session' \in [Tabs -> Snapshots]
        /\ hydration' \in [Tabs -> Hydrations]
        /\ hydration'[t] = h /\ \A u \in Tabs : u # t => hydration'[u] = hydration[u]
    BY DEF SInv, Types, TypeOK
  <2>2. \A u \in Tabs :
          /\ generation'[u] >= hydration'[u].startedAt
          /\ hydration'[u].stage \in {"loading", "calling", "waiting", "over"}
          /\ hydration'[u].token \in Tokens \union {None}
    BY <2>1 DEF SInv, Types, TypeOK, Hydrations
  <2>3. QED
    BY <2>1, <2>2 DEF SInv, Types, TypeOK
<1>2. ASSUME NEW u \in Tabs, u # t
      PROVE  HydrationAt(u)'
  <2>1. HydrationAt(u) /\ hydration'[u] = hydration[u] /\ session'[u] = session[u]
    BY <1>2 DEF SInv, Types, TypeOK
  <2>2. QED
    BY <2>1 DEF HydrationAt, Resolving, Stale
<1>3. ASSUME NEW c \in Calls
      PROVE  CallAt(c)'
  <2>1. CallAt(c)
    BY DEF SInv
  <2>2. \A u \in Tabs : hydration[u].stage # "loading" => hydration'[u].stage # "loading"
    BY DEF SInv, Types
  <2>3. QED
    BY <2>1, <2>2 DEF CallAt
<1>4. QED
  BY <1>1, <1>2, <1>3 DEF SInv

\* A sign-in or a sign-out of a tab that has mounted: what its loop brings is
\* stale from then on.
LEMMA SignStep ==
    ASSUME SInv, NEW t \in Tabs, hydration[t].stage # "loading",
           NEW s \in Snapshots, s.status \in {"anonymous", "authenticated"},
           session' = [session EXCEPT ![t] = s],
           generation' = [generation EXCEPT ![t] = @ + 1],
           stored' \in Tokens \union {None}, accepted' \in SUBSET Tokens,
           api' = api, hydration' = hydration,
           calls' = calls \/ \E c \in Calls : End(c)
    PROVE  SInv'
<1>1. /\ session' \in [Tabs -> Snapshots] /\ session'[t] = s
      /\ generation' \in [Tabs -> Nat] /\ generation'[t] = generation[t] + 1
      /\ \A u \in Tabs : u # t => session'[u] = session[u] /\ generation'[u] = generation[u]
  BY DEF SInv, Types, TypeOK
<1>2. /\ calls' \in [Calls -> [stage: {"idle", "sent", "over"}, kind: Kinds \union {None},
                               tab: Tabs \union {None}, token: Tokens \union {None}]]
      /\ \A c \in Calls : calls'[c].stage = "sent" => calls'[c] = calls[c]
  <2>1. CASE calls' = calls
    BY <2>1 DEF SInv, Types, TypeOK
  <2>2. CASE \E c \in Calls : End(c)
    BY <2>2 DEF End, SInv, Types, TypeOK
  <2>3. QED
    BY <2>1, <2>2
<1>3. \A u \in Tabs : generation'[u] >= hydration'[u].startedAt
  <2>1. ASSUME NEW u \in Tabs
        PROVE  generation'[u] >= hydration'[u].startedAt
    <3>1. generation[u] >= hydration[u].startedAt /\ generation[u] \in Nat /\ hydration[u].startedAt \in Nat
      BY DEF SInv, Types, TypeOK, Hydrations
    <3>2. QED
      BY <1>1, <3>1
  <2>2. QED
    BY <2>1
<1>4. Types'
  BY <1>1, <1>2, <1>3 DEF SInv, Types, TypeOK
<1>5. HydrationAt(t)'
  <2>1. Stale(t)'
    <3>1. generation[t] >= hydration[t].startedAt /\ generation[t] \in Nat /\ hydration[t].startedAt \in Nat
      BY DEF SInv, Types, TypeOK, Hydrations
    <3>2. QED
      BY <1>1, <3>1 DEF Stale
  <2>2. HydrationAt(t)
    BY DEF SInv
  <2>3. QED
    BY <1>1, <2>1, <2>2 DEF HydrationAt, Resolving
<1>6. ASSUME NEW u \in Tabs, u # t
      PROVE  HydrationAt(u)'
  <2>1. HydrationAt(u) /\ session'[u] = session[u] /\ generation'[u] = generation[u]
    BY <1>1, <1>6 DEF SInv
  <2>2. QED
    BY <2>1 DEF HydrationAt, Resolving, Stale
<1>7. \A c \in Calls : CallAt(c)'
  BY <1>2 DEF SInv, CallAt
<1>8. QED
  BY <1>4, <1>5, <1>6, <1>7 DEF SInv

-----------------------------------------------------------------------------
(* The invariant, action by action *)

LEMMA InitSInv == Init => SInv
<1> SUFFICES ASSUME Init PROVE SInv
  OBVIOUS
<1>1. NotLoaded \in Hydrations /\ NotLoaded.stage = "loading" /\ NotLoaded.startedAt = 0
  BY DEF NotLoaded, Hydrations
<1>2. Types
  <2>1. session \in [Tabs -> Snapshots]
    BY SnapshotTypes DEF Init
  <2>2. \A t \in Tabs : hydration[t] = NotLoaded /\ generation[t] = 0
    BY DEF Init
  <2>3. \A t \in Tabs : /\ generation[t] >= hydration[t].startedAt
                        /\ hydration[t].stage \in {"loading", "calling", "waiting", "over"}
                        /\ hydration[t].token \in Tokens \union {None}
    <3>1. ASSUME NEW t \in Tabs
          PROVE  /\ generation[t] >= hydration[t].startedAt
                 /\ hydration[t].stage \in {"loading", "calling", "waiting", "over"}
                 /\ hydration[t].token \in Tokens \union {None}
      <4>1. generation[t] = 0 /\ hydration[t].startedAt = 0
        BY <1>1, <2>2
      <4>2. hydration[t] \in Hydrations
        BY <1>1, <2>2
      <4>3. QED
        BY <4>1, <4>2 DEF Hydrations
    <3>2. QED
      BY <3>1
  <2>4. generation \in [Tabs -> Nat] /\ hydration \in [Tabs -> Hydrations]
    BY <1>1 DEF Init
  <2>5. QED
    BY <2>1, <2>3, <2>4 DEF Init, Types, TypeOK
<1>3. \A t \in Tabs : HydrationAt(t)
  BY <1>1 DEF Init, HydrationAt, Resolving
<1>4. \A c \in Calls : CallAt(c)
  BY DEF Init, CallAt
<1>5. QED
  BY <1>2, <1>3, <1>4 DEF SInv

\* What the loop of a tab holds.
LEMMA LoopFacts ==
    ASSUME SInv, NEW t \in Tabs
    PROVE  /\ hydration[t] \in Hydrations /\ session[t] \in Snapshots /\ HydrationAt(t)
           /\ generation[t] \in Nat /\ generation[t] >= hydration[t].startedAt
           /\ \A stage \in {"loading", "calling", "waiting", "over"} : Loop(t, stage) =>
                \E h \in Hydrations :
                  /\ h.stage = stage /\ h.token = hydration[t].token
                  /\ h.startedAt = hydration[t].startedAt
                  /\ hydration' = [hydration EXCEPT ![t] = h]
                  /\ hydration'[t] = h
           /\ session' = session => session' = [session EXCEPT ![t] = session[t]]
<1>1. hydration[t] \in Hydrations /\ session[t] \in Snapshots /\ HydrationAt(t)
      /\ generation[t] \in Nat /\ generation[t] >= hydration[t].startedAt
  BY DEF SInv, Types, TypeOK
<1>2. ASSUME NEW stage \in {"loading", "calling", "waiting", "over"}, Loop(t, stage)
      PROVE  \E h \in Hydrations :
                  /\ h.stage = stage /\ h.token = hydration[t].token
                  /\ h.startedAt = hydration[t].startedAt
                  /\ hydration' = [hydration EXCEPT ![t] = h]
                  /\ hydration'[t] = h
  <2> DEFINE h == [hydration[t] EXCEPT !.stage = stage]
  <2>1. h \in Hydrations /\ h.stage = stage /\ h.token = hydration[t].token
        /\ h.startedAt = hydration[t].startedAt
    BY <1>1 DEF Hydrations
  <2>2. hydration' = [hydration EXCEPT ![t] = h] /\ hydration'[t] = h
    BY <1>2 DEF Loop, SInv, Types
  <2>3. QED
    BY <2>1, <2>2
<1>3. session' = session => session' = [session EXCEPT ![t] = session[t]]
  BY DEF SInv, Types, TypeOK
<1>4. QED
  BY <1>1, <1>2, <1>3

LEMMA MountStep ==
    ASSUME SInv, NEW t \in Tabs, Mount(t)
    PROVE  SInv'
<1>1. CASE stored = None
  <2>1. PICK h \in Hydrations : /\ h.stage = "over" /\ h.startedAt = hydration[t].startedAt
                                /\ hydration' = [hydration EXCEPT ![t] = h] /\ hydration'[t] = h
    BY <1>1, LoopFacts DEF Mount
  <2>2. session' = [session EXCEPT ![t] = Anonymous] /\ session'[t] = Anonymous
    BY <1>1 DEF Mount, Show, SInv, Types, TypeOK
  <2>3. HydrationAt(t)'
    BY <2>1, <2>2, SnapshotTypes DEF HydrationAt, Resolving
  <2>4. generation[t] >= h.startedAt
    BY <2>1, LoopFacts
  <2>5. UNCHANGED <<stored, accepted, api, generation, calls>> /\ hydration[t].stage = "loading"
    BY DEF Mount, server
  <2>6. stored' \in Tokens \union {None} /\ accepted' \in SUBSET Tokens
    BY <2>5 DEF SInv, Types, TypeOK
  <2>7. QED
    BY <2>1, <2>2, <2>3, <2>4, <2>5, <2>6, SnapshotTypes, LoopStep
<1>2. CASE stored # None
  <2> DEFINE h == [stage |-> "calling", token |-> stored, startedAt |-> generation[t]]
  <2>1. hydration' = [hydration EXCEPT ![t] = h] /\ session' = session
    BY <1>2 DEF Mount
  <2>2. stored \in Tokens /\ generation[t] \in Nat /\ hydration'[t] = h
    BY <1>2, <2>1 DEF SInv, Types, TypeOK
  <2>3. h \in Hydrations /\ h.stage = "calling" /\ h.token = stored /\ generation[t] >= h.startedAt
    BY <2>2 DEF Hydrations
  <2>4. UNCHANGED <<stored, accepted, api, generation, calls>> /\ hydration[t].stage = "loading"
    BY DEF Mount, server
  <2>5. HydrationAt(t)'
    <3>1. session'[t] = Unresolved
      BY <2>1, <2>4, LoopFacts DEF HydrationAt
    <3>2. Resolving(t)'
      BY <2>2, <2>3, <2>4 DEF Resolving, Stale
    <3>3. QED
      BY <2>2, <2>3, <3>1, <3>2 DEF HydrationAt
  <2>6. stored' \in Tokens \union {None} /\ accepted' \in SUBSET Tokens
    BY <2>4 DEF SInv, Types, TypeOK
  <2> HIDE DEF h
  <2>7. QED
    BY <2>1, <2>3, <2>4, <2>5, <2>6, LoopFacts, LoopStep
<1>3. QED
  BY <1>1, <1>2

\* The end of a loop: what it shows is resolved, or it was stale.
LEMMA OverStep ==
    ASSUME SInv, NEW t \in Tabs, hydration[t].stage \in {"calling", "waiting"}, Loop(t, "over"),
           \/ session' = session /\ Stale(t)
           \/ \E s \in Snapshots : s.status \in {"anonymous", "authenticated"} /\ Show(t, s),
           generation' = generation, calls' = calls, api' = api,
           stored' \in Tokens \union {None}, accepted' \in SUBSET Tokens
    PROVE  SInv'
<1>1. PICK h \in Hydrations : /\ h.stage = "over" /\ h.startedAt = hydration[t].startedAt
                              /\ hydration' = [hydration EXCEPT ![t] = h] /\ hydration'[t] = h
  BY LoopFacts
<1>2. PICK s \in Snapshots : /\ session' = [session EXCEPT ![t] = s] /\ session'[t] = s
                             /\ s.status \notin {"pending", "unavailable"}
  <2>1. CASE session' = session /\ Stale(t)
    <3>1. session[t] \in Snapshots /\ session' = [session EXCEPT ![t] = session[t]]
          /\ session'[t] = session[t]
      BY <2>1, LoopFacts
    <3>2. session[t].status \notin {"pending", "unavailable"}
      BY <2>1, LoopFacts DEF HydrationAt, Resolving
    <3>3. QED
      BY <3>1, <3>2
  <2>2. CASE \E s \in Snapshots : s.status \in {"anonymous", "authenticated"} /\ Show(t, s)
    BY <2>2 DEF Show, SInv, Types, TypeOK
  <2>3. QED
    BY <2>1, <2>2
<1>3. HydrationAt(t)'
  BY <1>1, <1>2 DEF HydrationAt, Resolving
<1>4. generation[t] >= h.startedAt
  BY <1>1, LoopFacts
<1>5. QED
  BY <1>1, <1>2, <1>3, <1>4, LoopStep

LEMMA ResolveStep ==
    ASSUME SInv, NEW t \in Tabs, Resolve(t)
    PROVE  SInv'
<1>1. PICK token \in Tokens :
        /\ Issue(token)
        /\ \/ Stale(t) /\ UNCHANGED <<stored, session>>
           \/ stored' = token /\ Show(t, Authenticated(token))
  BY DEF Resolve
<1>2. /\ hydration[t].stage = "calling" /\ Loop(t, "over")
      /\ UNCHANGED <<api, generation, calls>>
  BY DEF Resolve
<1>3. stored' \in Tokens \union {None} /\ accepted' \in SUBSET Tokens
  BY <1>1 DEF Issue, SInv, Types, TypeOK
<1>4. \/ session' = session /\ Stale(t)
      \/ \E s \in Snapshots : s.status \in {"anonymous", "authenticated"} /\ Show(t, s)
  BY <1>1, SnapshotTypes
<1>5. QED
  BY <1>2, <1>3, <1>4, OverStep

LEMMA RefuseStep ==
    ASSUME SInv, NEW t \in Tabs, Refuse(t)
    PROVE  SInv'
<1>1. /\ hydration[t].stage = "calling" /\ Loop(t, "over")
      /\ UNCHANGED <<accepted, api, generation, calls>>
  BY DEF Refuse, server
<1>2. stored' \in Tokens \union {None} /\ accepted' \in SUBSET Tokens
  BY <1>1 DEF Refuse, SInv, Types, TypeOK
<1>3. \/ session' = session /\ Stale(t)
      \/ \E s \in Snapshots : s.status \in {"anonymous", "authenticated"} /\ Show(t, s)
  BY SnapshotTypes DEF Refuse
<1>4. QED
  BY <1>1, <1>2, <1>3, OverStep

LEMMA PostponeStep ==
    ASSUME SInv, NEW t \in Tabs, Postpone(t)
    PROVE  SInv'
<1>1. /\ hydration[t].stage = "calling"
      /\ UNCHANGED <<stored, accepted, api, generation, calls>>
  BY DEF Postpone, server
<1>2. stored' \in Tokens \union {None} /\ accepted' \in SUBSET Tokens
  BY <1>1 DEF SInv, Types, TypeOK
<1>3. CASE Stale(t)
  BY <1>1, <1>2, <1>3, OverStep DEF Postpone
<1>4. CASE ~Stale(t)
  <2> DEFINE token == hydration[t].token
  <2>1. PICK h \in Hydrations :
          /\ h.stage = "waiting" /\ h.token = token /\ h.startedAt = hydration[t].startedAt
          /\ hydration' = [hydration EXCEPT ![t] = h] /\ hydration'[t] = h
    BY <1>4, LoopFacts DEF Postpone
  <2>2. session' = [session EXCEPT ![t] = Unavailable(token)] /\ session'[t] = Unavailable(token)
    BY <1>4 DEF Postpone, Show, SInv, Types, TypeOK
  <2>3. token \in Tokens
    BY <1>1, LoopFacts DEF HydrationAt
  <2>4. Resolving(t)'
    BY <1>1, <1>4, <2>1 DEF Resolving, Stale
  <2>5. HydrationAt(t)'
    BY <2>1, <2>2, <2>3, <2>4 DEF HydrationAt
  <2>6. generation[t] >= h.startedAt
    BY <2>1, LoopFacts
  <2>7. QED
    BY <1>1, <1>2, <2>1, <2>2, <2>3, <2>5, <2>6, SnapshotTypes, LoopStep
<1>5. QED
  BY <1>3, <1>4

LEMMA RetryStep ==
    ASSUME SInv, NEW t \in Tabs, Retry(t)
    PROVE  SInv'
<1>1. /\ hydration[t].stage = "waiting"
      /\ UNCHANGED <<stored, accepted, api, session, generation, calls>>
  BY DEF Retry, server
<1>2. stored' \in Tokens \union {None} /\ accepted' \in SUBSET Tokens
  BY <1>1 DEF SInv, Types, TypeOK
<1>3. CASE Stale(t)
  BY <1>1, <1>2, <1>3, OverStep DEF Retry
<1>4. CASE ~Stale(t)
  <2>1. PICK h \in Hydrations :
          /\ h.stage = "calling" /\ h.token = hydration[t].token
          /\ h.startedAt = hydration[t].startedAt
          /\ hydration' = [hydration EXCEPT ![t] = h] /\ hydration'[t] = h
    BY <1>4, LoopFacts DEF Retry
  <2>2. HydrationAt(t)'
    BY <1>1, <1>4, <2>1, LoopFacts DEF HydrationAt, Resolving, Stale
  <2>3. generation[t] >= h.startedAt /\ session' = [session EXCEPT ![t] = session[t]]
        /\ session[t] \in Snapshots
    BY <1>1, <2>1, LoopFacts
  <2>4. QED
    BY <1>1, <1>2, <2>1, <2>2, <2>3, LoopStep
<1>5. QED
  BY <1>3, <1>4

LEMMA RehydrateStep ==
    ASSUME SInv, NEW t \in Tabs, Rehydrate(t)
    PROVE  SInv'
BY MountStep, ResolveStep, RefuseStep, PostponeStep, RetryStep
   DEF Rehydrate, Conclude, Fail, TimeOut

\* A step that changes neither the session nor the loop of a tab.
LEMMA QuietStep ==
    ASSUME SInv, UNCHANGED <<stored, session, generation, hydration>>,
           accepted' \in SUBSET Tokens, api' \in {"up", "failing", "silent"},
           calls' \in [Calls -> [stage: {"idle", "sent", "over"}, kind: Kinds \union {None},
                                 tab: Tabs \union {None}, token: Tokens \union {None}]],
           \A c \in Calls : CallAt(c)'
    PROVE  SInv'
<1>1. Types'
  BY DEF SInv, Types, TypeOK
<1>2. \A t \in Tabs : HydrationAt(t)'
  BY DEF SInv, HydrationAt, Resolving, Stale
<1>3. QED
  BY <1>1, <1>2 DEF SInv

LEMMA SendStep ==
    ASSUME SInv, NEW c \in Calls, Send(c)
    PROVE  SInv'
<1>1. PICK t \in Tabs, kind \in Kinds :
        /\ hydration[t].stage # "loading"
        /\ calls' = [calls EXCEPT ![c] = [stage |-> "sent", kind |-> kind, tab |-> t,
                                          token |-> session[t].token]]
  BY DEF Send
<1>2. UNCHANGED <<stored, session, generation, hydration, accepted, api>>
  BY DEF Send, server
<1>3. session[t].token \in Tokens \union {None}
  BY LoopFacts, SnapshotFacts
<1>4. calls' \in [Calls -> [stage: {"idle", "sent", "over"}, kind: Kinds \union {None},
                            tab: Tabs \union {None}, token: Tokens \union {None}]]
  BY <1>1, <1>3 DEF SInv, Types, TypeOK
<1>5. \A d \in Calls : CallAt(d)'
  BY <1>1, <1>2 DEF SInv, Types, TypeOK, CallAt
<1>6. QED
  BY <1>2, <1>4, <1>5, QuietStep DEF SInv, Types, TypeOK

LEMMA ClickSignOutStep ==
    ASSUME SInv, NEW t \in Tabs, ClickSignOut(t)
    PROVE  SInv'
<1>1. hydration[t].stage # "loading"
  BY LoopFacts, SnapshotTypes DEF ClickSignOut, HydrationAt
<1>2. QED
  BY <1>1, SnapshotTypes, SignStep DEF ClickSignOut, SignOut, Show, server, SInv, Types, TypeOK

LEMMA ReloadStep ==
    ASSUME SInv, NEW t \in Tabs, Reload(t)
    PROVE  SInv'
<1>1. /\ session' = [session EXCEPT ![t] = Unresolved]
      /\ generation' = [generation EXCEPT ![t] = 0]
      /\ hydration' = [hydration EXCEPT ![t] = NotLoaded]
      /\ UNCHANGED <<stored, accepted, api>>
  BY DEF Reload, server
<1>2. /\ calls' = [c \in Calls |-> IF calls[c].tab = t THEN [calls[c] EXCEPT !.stage = "over"]
                                                      ELSE calls[c]]
  BY DEF Reload
<1>3. NotLoaded \in Hydrations /\ NotLoaded.stage = "loading" /\ NotLoaded.startedAt = 0
  BY DEF NotLoaded, Hydrations
<1>4. /\ session' \in [Tabs -> Snapshots] /\ session'[t] = Unresolved
      /\ generation' \in [Tabs -> Nat] /\ generation'[t] = 0
      /\ hydration' \in [Tabs -> Hydrations] /\ hydration'[t] = NotLoaded
      /\ \A u \in Tabs : u # t => /\ session'[u] = session[u] /\ generation'[u] = generation[u]
                                  /\ hydration'[u] = hydration[u]
  BY <1>1, <1>3, SnapshotTypes DEF SInv, Types, TypeOK
<1>5. \A u \in Tabs : /\ generation'[u] >= hydration'[u].startedAt
                      /\ hydration'[u].stage \in {"loading", "calling", "waiting", "over"}
                      /\ hydration'[u].token \in Tokens \union {None}
  <2>1. ASSUME NEW u \in Tabs
        PROVE  /\ generation'[u] >= hydration'[u].startedAt
               /\ hydration'[u] \in Hydrations
    <3>1. CASE u = t
      BY <1>3, <1>4, <3>1
    <3>2. CASE u # t
      BY <1>4, <3>2, LoopFacts
    <3>3. QED
      BY <3>1, <3>2
  <2>2. QED
    BY <2>1 DEF Hydrations
<1>6. calls' \in [Calls -> [stage: {"idle", "sent", "over"}, kind: Kinds \union {None},
                            tab: Tabs \union {None}, token: Tokens \union {None}]]
  BY <1>2 DEF SInv, Types, TypeOK
<1>7. Types'
  BY <1>1, <1>4, <1>5, <1>6 DEF SInv, Types, TypeOK
<1>8. ASSUME NEW u \in Tabs
      PROVE  HydrationAt(u)'
  <2>1. CASE u = t
    BY <1>3, <1>4, <2>1 DEF HydrationAt, Resolving
  <2>2. CASE u # t
    BY <1>4, <2>2, LoopFacts DEF HydrationAt, Resolving, Stale
  <2>3. QED
    BY <2>1, <2>2
<1>9. ASSUME NEW c \in Calls
      PROVE  CallAt(c)'
  <2>1. calls'[c].stage = "sent" => calls'[c] = calls[c] /\ calls[c].tab # t
    BY <1>2 DEF SInv, Types, TypeOK
  <2>2. CallAt(c)
    BY DEF SInv
  <2>3. QED
    BY <1>4, <2>1, <2>2 DEF CallAt
<1>10. QED
  BY <1>7, <1>8, <1>9 DEF SInv

LEMMA AnswerLoginStep ==
    ASSUME SInv, NEW c \in Calls, AnswerLogin(c)
    PROVE  SInv'
<1>1. PICK token \in Tokens : Issue(token) /\ SignIn(calls[c].tab, token)
  BY DEF AnswerLogin
<1>2. calls[c].tab \in Tabs /\ hydration[calls[c].tab].stage # "loading"
  BY DEF AnswerLogin, SInv, CallAt
<1>3. accepted' \in SUBSET Tokens
  BY <1>1 DEF Issue, SInv, Types, TypeOK
<1>4. End(c) /\ UNCHANGED <<api, hydration>>
  BY DEF AnswerLogin
<1>5. QED
  BY <1>1, <1>2, <1>3, <1>4, SnapshotTypes, SignStep DEF SignIn, Show

LEMMA AnswerSaveStep ==
    ASSUME SInv, NEW c \in Calls, AnswerSave(c)
    PROVE  SInv'
<1>1. PICK token \in Tokens : Issue(token) /\ SignIn(calls[c].tab, token)
  BY DEF AnswerSave
<1>2. calls[c].tab \in Tabs /\ hydration[calls[c].tab].stage # "loading"
  BY DEF AnswerSave, SInv, CallAt
<1>3. accepted' \in SUBSET Tokens
  BY <1>1 DEF Issue, SInv, Types, TypeOK
<1>4. End(c) /\ UNCHANGED <<api, hydration>>
  BY DEF AnswerSave
<1>5. QED
  BY <1>1, <1>2, <1>3, <1>4, SnapshotTypes, SignStep DEF SignIn, Show

\* The end of a call that changes no session.
LEMMA EndStep ==
    ASSUME SInv, NEW c \in Calls, End(c),
           UNCHANGED <<stored, session, generation, hydration, accepted, api>>
    PROVE  SInv'
<1>1. calls' \in [Calls -> [stage: {"idle", "sent", "over"}, kind: Kinds \union {None},
                            tab: Tabs \union {None}, token: Tokens \union {None}]]
      /\ \A d \in Calls : calls'[d].stage = "sent" => calls'[d] = calls[d]
  BY DEF End, SInv, Types, TypeOK
<1>2. \A d \in Calls : CallAt(d)'
  BY <1>1 DEF SInv, CallAt
<1>3. QED
  BY <1>1, <1>2, QuietStep DEF SInv, Types, TypeOK

LEMMA AnswerDeniedStep ==
    ASSUME SInv, NEW c \in Calls, AnswerDenied(c)
    PROVE  SInv'
<1>1. End(c) /\ UNCHANGED <<accepted, api, hydration>>
  BY DEF AnswerDenied, server
<1>2. CASE calls[c].token = None
  BY <1>1, <1>2, EndStep DEF AnswerDenied
<1>3. CASE calls[c].token # None
  <2>1. calls[c].tab \in Tabs /\ hydration[calls[c].tab].stage # "loading"
    BY DEF AnswerDenied, Denied, SInv, CallAt
  <2>2. SignOut(calls[c].tab)
    BY <1>3 DEF AnswerDenied
  <2>3. accepted' \in SUBSET Tokens
    BY <1>1 DEF SInv, Types, TypeOK
  <2>4. QED
    BY <1>1, <2>1, <2>2, <2>3, SnapshotTypes, SignStep DEF SignOut, Show
<1>4. QED
  BY <1>2, <1>3

LEMMA AnswerOtherStep ==
    ASSUME SInv, NEW c \in Calls, AnswerOther(c)
    PROVE  SInv'
BY EndStep DEF AnswerOther, server

LEMMA AnswerStep ==
    ASSUME SInv, NEW c \in Calls, Answer(c)
    PROVE  SInv'
BY AnswerLoginStep, AnswerSaveStep, AnswerDeniedStep, AnswerOtherStep DEF Answer

LEMMA OutsideStep ==
    ASSUME SInv, (\E token \in Tokens : Expire(token)) \/ Weather
    PROVE  SInv'
<1>1. UNCHANGED <<stored, session, generation, hydration, calls>>
  BY DEF Expire, Weather
<1>2. accepted' \in SUBSET Tokens /\ api' \in {"up", "failing", "silent"}
  BY DEF Expire, Weather, SInv, Types, TypeOK
<1>3. \A c \in Calls : CallAt(c)'
  BY <1>1 DEF SInv, CallAt
<1>4. QED
  BY <1>1, <1>2, <1>3, QuietStep DEF SInv, Types, TypeOK

LEMMA StutterStep ==
    ASSUME SInv, UNCHANGED vars
    PROVE  SInv'
<1>1. UNCHANGED <<stored, session, generation, hydration, calls, accepted, api>>
  BY DEF vars
<1>2. \A c \in Calls : CallAt(c)'
  BY <1>1 DEF SInv, CallAt
<1>3. QED
  BY <1>1, <1>2, QuietStep DEF SInv, Types, TypeOK

LEMMA SInvStep ==
    ASSUME SInv, [Next]_vars
    PROVE  SInv'
BY RehydrateStep, ClickSignOutStep, ReloadStep, SendStep, AnswerStep, OutsideStep, StutterStep
   DEF Next

\* The invariant holds of any number of tabs over one storage.
THEOREM Invariance == Spec => []SInv
<1>1. QED
  BY InitSInv, SInvStep, PTL DEF Spec

\* The states of the session are those that a SessionSnapshot can represent.
THEOREM TypeCorrectness == Spec => []TypeOK
<1>1. SInv => TypeOK
  BY DEF SInv, Types
<1>2. QED
  BY <1>1, Invariance, PTL

-----------------------------------------------------------------------------
(* A session opens as the user asked *)

\* A rehydration shows a session to a tab that waits for one, and closes none.
LEMMA RehydrateShows ==
    ASSUME SInv, NEW t \in Tabs, Rehydrate(t), NEW u \in Tabs, session'[u] # session[u]
    PROVE  u = t /\ session[u].status \in {"pending", "unavailable"}
<1>1. \A s : Show(t, s) => \A v \in Tabs : v # t => session'[v] = session[v]
  BY DEF Show, SInv, Types, TypeOK
<1>2. HydrationAt(t) /\ Unresolved.status = "pending"
  BY SnapshotTypes DEF SInv
<1>3. CASE Mount(t)
  <2>1. u = t
    BY <1>1, <1>3 DEF Mount
  <2>2. QED
    BY <1>2, <1>3, <2>1 DEF Mount, HydrationAt
<1>4. CASE Conclude(t)
  <2>1. u = t /\ ~Stale(t) /\ hydration[t].stage = "calling"
    BY <1>1, <1>4 DEF Conclude, Resolve, Refuse, Fail, TimeOut, Postpone
  <2>2. hydration[t].token \in Tokens /\ session[t] \in {Unresolved, Unavailable(hydration[t].token)}
    BY <1>2, <2>1 DEF HydrationAt, Resolving
  <2>3. QED
    BY <2>1, <2>2, SnapshotTypes
<1>5. CASE Retry(t)
  BY <1>5 DEF Retry
<1>6. QED
  BY <1>3, <1>4, <1>5 DEF Rehydrate

\* A sign-out shows an anonymous page to the tab it is made in.
LEMMA SignOutShows ==
    ASSUME SInv, NEW t, SignOut(t), NEW u \in Tabs, session'[u] # session[u]
    PROVE  u = t /\ session'[u] = Anonymous
BY DEF SignOut, Show, SInv, Types, TypeOK

\* AC-3 of REQ-WEB-002: the answer to a rehydration asked before a sign-in or a
\* sign-out neither opens a closed session nor replaces an account.
THEOREM OpensAsAskedHolds == Spec => OpensAsAsked
<1>1. ASSUME SInv, [Next]_vars
      PROVE  [\A t \in Tabs :
               session[t].status \in {"anonymous", "authenticated"} /\ session'[t] # session[t] =>
                 \/ session'[t].status \in {"anonymous", "pending"}
                 \/ \E c \in Calls : (AnswerLogin(c) \/ AnswerSave(c)) /\ calls[c].tab = t]_vars
  <2> SUFFICES ASSUME NEW t \in Tabs, session[t].status \in {"anonymous", "authenticated"},
                      session'[t] # session[t], Next
               PROVE  \/ session'[t].status \in {"anonymous", "pending"}
                      \/ \E c \in Calls : (AnswerLogin(c) \/ AnswerSave(c)) /\ calls[c].tab = t
    BY <1>1 DEF vars
  <2>1. ASSUME NEW u \in Tabs
        PROVE  ~Rehydrate(u)
    BY <1>1, RehydrateShows
  <2>2. ASSUME NEW u \in Tabs, ClickSignOut(u)
        PROVE  session'[t].status = "anonymous"
    BY <1>1, <2>2, SignOutShows, SnapshotTypes DEF ClickSignOut
  <2>3. ASSUME NEW u \in Tabs, Reload(u)
        PROVE  session'[t].status = "pending"
    <3>1. session'[t] = Unresolved
      BY <1>1, <2>3 DEF Reload, SInv, Types, TypeOK
    <3>2. QED
      BY <3>1, SnapshotTypes
  <2>4. ASSUME NEW c \in Calls, AnswerLogin(c) \/ AnswerSave(c)
        PROVE  calls[c].tab = t
    <3>1. \E token \in Tokens : SignIn(calls[c].tab, token)
      BY <2>4 DEF AnswerLogin, AnswerSave
    <3>2. QED
      BY <1>1, <3>1 DEF SignIn, Show, SInv, Types, TypeOK
  <2>5. ASSUME NEW c \in Calls, AnswerDenied(c)
        PROVE  session'[t].status = "anonymous"
    <3>1. SignOut(calls[c].tab)
      BY <2>5 DEF AnswerDenied
    <3>2. QED
      BY <1>1, <3>1, SignOutShows, SnapshotTypes
  <2>6. /\ \A c \in Calls : ~Send(c) /\ ~AnswerOther(c)
        /\ \A token \in Tokens : ~Expire(token)
        /\ ~Weather
    BY DEF Send, AnswerOther, Expire, Weather
  <2>7. QED
    BY <2>1, <2>2, <2>3, <2>4, <2>5, <2>6 DEF Next, Answer
<1>2. QED
  BY <1>1, Invariance, PTL DEF Spec, OpensAsAsked

-----------------------------------------------------------------------------
(* A browser with one tab: nothing else writes its storage *)

OneTabAt(t) ==
    /\ session[t].status # "pending" => session[t].token = stored
    /\ Resolving(t) => stored = hydration[t].token

OneTab == \A t \in Tabs : OneTabAt(t)

LEMMA InitOneTab == Init => OneTab
<1>1. ASSUME Init, NEW t \in Tabs
      PROVE  OneTabAt(t)
  <2>1. session[t].status = "pending" /\ hydration[t].stage = "loading"
    BY <1>1, SnapshotTypes DEF Init, NotLoaded
  <2>2. QED
    BY <2>1 DEF OneTabAt, Resolving
<1>2. QED
  BY <1>1 DEF OneTab

LEMMA QuietAlone ==
    ASSUME OneTab, UNCHANGED <<stored, session, generation, hydration>>
    PROVE  OneTab'
BY DEF OneTab, OneTabAt, Resolving, Stale

LEMMA RehydrateAlone ==
    ASSUME NEW t, Tabs = {t}, SInv, OneTab, Rehydrate(t)
    PROVE  OneTab'
<1> t \in Tabs
  OBVIOUS
<1>1. /\ OneTabAt(t) /\ HydrationAt(t) /\ Unresolved.status = "pending"
      /\ \A s : Show(t, s) => session'[t] = s
      /\ \A stage : Loop(t, stage) =>
           /\ hydration'[t].stage = stage /\ hydration'[t].token = hydration[t].token
           /\ hydration'[t].startedAt = hydration[t].startedAt
  BY SnapshotTypes DEF OneTab, SInv, Types, TypeOK, Show, Loop, Hydrations
<1>2. CASE Mount(t)
  <2>1. CASE stored = None
    BY <1>1, <1>2, <2>1, SnapshotTypes DEF Mount, OneTab, OneTabAt, Resolving
  <2>2. CASE stored # None
    <3>1. session'[t] = Unresolved /\ stored' = stored /\ hydration'[t].token = stored
      BY <1>1, <1>2, <2>2 DEF Mount, HydrationAt, SInv, Types
    <3>2. QED
      BY <1>1, <3>1 DEF OneTab, OneTabAt
  <2>3. QED
    BY <2>1, <2>2
<1>3. CASE Conclude(t)
  <2>1. hydration[t].stage = "calling" /\ hydration[t].token \in Tokens /\ generation' = generation
    BY <1>1, <1>3 DEF Conclude, Resolve, Refuse, Fail, TimeOut, Postpone, HydrationAt
  <2>2. CASE Stale(t)
    <3>1. UNCHANGED <<stored, session>> /\ Loop(t, "over")
      BY <1>3, <2>2 DEF Conclude, Resolve, Refuse, Fail, TimeOut, Postpone
    <3>2. QED
      BY <1>1, <3>1 DEF OneTab, OneTabAt, Resolving
  <2>3. CASE ~Stale(t)
    <3>1. CASE Resolve(t)
      BY <1>1, <2>3, <3>1, SnapshotTypes DEF Resolve, OneTab, OneTabAt, Resolving
    <3>2. CASE Refuse(t)
      BY <1>1, <2>3, <3>2, SnapshotTypes DEF Refuse, OneTab, OneTabAt, Resolving
    <3>3. CASE Fail(t) \/ TimeOut(t)
      <4>1. /\ session'[t] = Unavailable(hydration[t].token) /\ stored' = stored
            /\ hydration'[t].token = hydration[t].token
        BY <1>1, <2>3, <3>3 DEF Fail, TimeOut, Postpone
      <4>2. stored = hydration[t].token
        BY <1>1, <2>1, <2>3 DEF OneTabAt, Resolving
      <4>3. QED
        BY <2>1, <4>1, <4>2, SnapshotTypes DEF OneTab, OneTabAt
    <3>4. QED
      BY <1>3, <3>1, <3>2, <3>3 DEF Conclude
  <2>4. QED
    BY <2>2, <2>3
<1>4. CASE Retry(t)
  <2>1. UNCHANGED <<stored, session, generation>> /\ hydration[t].stage = "waiting"
    BY <1>4 DEF Retry
  <2>2. hydration'[t].token = hydration[t].token /\ hydration'[t].startedAt = hydration[t].startedAt
    BY <1>1, <1>4 DEF Retry
  <2>3. QED
    BY <1>1, <2>1, <2>2 DEF OneTab, OneTabAt, Resolving, Stale
<1>5. QED
  BY <1>2, <1>3, <1>4 DEF Rehydrate

\* A sign-in and a sign-out write the storage with what they show.
LEMMA SignAlone ==
    ASSUME NEW t, Tabs = {t}, SInv, NEW token,
           \/ SignOut(t) /\ token = None
           \/ token \in Tokens /\ SignIn(t, token),
           hydration' = hydration
    PROVE  OneTab'
<1> t \in Tabs
  OBVIOUS
<1>1. generation'[t] = generation[t] + 1
  BY DEF SignOut, SignIn, SInv, Types
<1>2. Stale(t)'
  BY <1>1, LoopFacts DEF Stale, Hydrations
<1>3. stored' = token /\ session'[t].token = token
  BY SnapshotTypes DEF SignOut, SignIn, Show, SInv, Types, TypeOK
<1>4. QED
  BY <1>2, <1>3 DEF OneTab, OneTabAt, Resolving

LEMMA AnswerAlone ==
    ASSUME NEW t, Tabs = {t}, SInv, OneTab, NEW c \in Calls, Answer(c)
    PROVE  OneTab'
<1>1. calls[c].tab = t
  BY DEF Answer, AnswerLogin, AnswerSave, AnswerDenied, Denied, AnswerOther, SInv, CallAt
<1>2. CASE AnswerLogin(c) \/ AnswerSave(c)
  <2>1. PICK token \in Tokens : SignIn(t, token)
    BY <1>1, <1>2 DEF AnswerLogin, AnswerSave
  <2>2. hydration' = hydration
    BY <1>2 DEF AnswerLogin, AnswerSave
  <2>3. QED
    BY <2>1, <2>2, SignAlone
<1>3. CASE AnswerDenied(c)
  BY <1>1, <1>3, SignAlone, QuietAlone DEF AnswerDenied
<1>4. CASE AnswerOther(c)
  BY <1>4, QuietAlone DEF AnswerOther
<1>5. QED
  BY <1>2, <1>3, <1>4 DEF Answer

LEMMA OneTabStep ==
    ASSUME NEW t, Tabs = {t}, SInv, OneTab, [Next]_vars
    PROVE  OneTab'
<1>1. CASE Rehydrate(t)
  BY <1>1, RehydrateAlone
<1>2. CASE ClickSignOut(t)
  BY <1>2, SignAlone DEF ClickSignOut
<1>3. CASE Reload(t)
  <2>1. session'[t] = Unresolved /\ hydration'[t] = NotLoaded
    BY <1>3 DEF Reload, SInv, Types, TypeOK
  <2>2. QED
    BY <2>1, SnapshotTypes DEF OneTab, OneTabAt, Resolving, NotLoaded
<1>4. ASSUME NEW c \in Calls, Answer(c)
      PROVE  OneTab'
  BY <1>4, AnswerAlone
<1>5. ASSUME NEW c \in Calls, Send(c)
      PROVE  OneTab'
  BY <1>5, QuietAlone DEF Send
<1>6. CASE (\E token \in Tokens : Expire(token)) \/ Weather
  BY <1>6, QuietAlone DEF Expire, Weather
<1>7. CASE UNCHANGED vars
  BY <1>7, QuietAlone DEF vars
<1>8. QED
  BY <1>1, <1>2, <1>3, <1>4, <1>5, <1>6, <1>7 DEF Next

\* With one tab, a reload finds the account the page was showing.
THEOREM ShownIsStoredHolds ==
    ASSUME NEW tab, Tabs = {tab}
    PROVE  Spec => []ShownIsStored
<1>1. SInv /\ OneTab /\ [Next]_vars => OneTab'
  BY OneTabStep
<1>2. OneTab => ShownIsStored
  BY DEF OneTab, OneTabAt, ShownIsStored
<1>3. QED
  BY <1>1, <1>2, InitOneTab, Invariance, PTL DEF Spec

\* A token leaves the storage by a sign-out, or by the verdict of an API that
\* answers.
LEMMA PurgesForAReason ==
    ASSUME NEW t, Tabs = {t}, SInv, OneTab, stored # None, stored' = None,
           Rehydrate(t) \/ \E c \in Calls : Answer(c)
    PROVE  \/ \E u \in Tabs : api = "up" /\ hydration[u].token = stored /\ stored \notin accepted
           \/ \E c \in Calls : Denied(c) /\ calls'[c] # calls[c]
<1> t \in Tabs
  OBVIOUS
<1>1. CASE Mount(t) \/ Retry(t) \/ Fail(t) \/ TimeOut(t)
  BY <1>1 DEF Mount, Retry, Fail, TimeOut, Postpone
<1>2. CASE Resolve(t)
  BY <1>2, TokenAssumption DEF Resolve
<1>3. CASE Refuse(t)
  <2>1. ~Stale(t) /\ hydration[t].stage = "calling"
    BY <1>3 DEF Refuse
  <2>2. stored = hydration[t].token
    BY <2>1 DEF OneTab, OneTabAt, Resolving
  <2>3. QED
    BY <1>3, <2>2 DEF Refuse
<1>4. ASSUME NEW c \in Calls, AnswerLogin(c) \/ AnswerSave(c) \/ AnswerOther(c)
      PROVE  FALSE
  BY <1>4, TokenAssumption DEF AnswerLogin, AnswerSave, AnswerOther, SignIn
<1>5. ASSUME NEW c \in Calls, AnswerDenied(c)
      PROVE  Denied(c) /\ calls'[c] # calls[c]
  <2>1. calls'[c].stage = "over" /\ calls[c].stage = "sent"
    BY <1>5 DEF AnswerDenied, Denied, End, SInv, Types, TypeOK
  <2>2. QED
    BY <1>5, <2>1 DEF AnswerDenied
<1>6. QED
  BY <1>1, <1>2, <1>3, <1>4, <1>5 DEF Rehydrate, Conclude, Answer

\* REQ-WEB-016: with one tab, an outage of the API purges nothing.
THEOREM OutagePurgesNothingHolds ==
    ASSUME NEW tab, Tabs = {tab}
    PROVE  Spec => OutagePurgesNothing
<1>1. SInv /\ OneTab /\ [Next]_vars => OneTab'
  BY OneTabStep
<1>2. ASSUME SInv, OneTab, [Next]_vars
      PROVE  [stored # None /\ stored' = None =>
               \/ \E t \in Tabs : ClickSignOut(t)
               \/ \E t \in Tabs : api = "up" /\ hydration[t].token = stored /\ stored \notin accepted
               \/ \E c \in Calls : Denied(c) /\ calls'[c] # calls[c]]_vars
  <2>1. ASSUME NEW t \in Tabs, Reload(t)
        PROVE  stored' = stored
    BY <2>1 DEF Reload
  <2>2. ASSUME NEW c \in Calls, Send(c)
        PROVE  stored' = stored
    BY <2>2 DEF Send
  <2>3. (\E token \in Tokens : Expire(token)) \/ Weather => stored' = stored
    BY DEF Expire, Weather
  <2>4. QED
    BY <1>2, <2>1, <2>2, <2>3, PurgesForAReason DEF Next
<1>3. QED
  BY <1>1, <1>2, InitOneTab, Invariance, PTL DEF Spec, OutagePurgesNothing

=============================================================================
