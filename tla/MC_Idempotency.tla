-------------------------- MODULE MC_Idempotency ---------------------------
(***************************************************************************)
(* Small instances of Idempotency.                                         *)
(***************************************************************************)
EXTENDS Idempotency, TLC

CONSTANTS
    u1, u2,             \* accounts
    articles, ofA, ofB, \* POST /api/articles, the comments of two articles
    publish, comment,   \* the two route patterns
    tale,               \* a slug several articles may have
    q3,                 \* one of the requests
    k,                  \* a key
    b, bShuffled, c,    \* two bodies, the first with its fields in two orders
    fb, fc              \* their canonical forms

MCPatternOf == [url \in Urls |-> IF url = articles THEN publish ELSE comment]

MCCanonOf == [body \in Bodies |-> IF body = c THEN fc ELSE fb]

Call(user, url, key, body) == [user |-> user, url |-> url, key |-> key, body |-> body]

\* One call and everything a client may change in it.
VariedMenu == { Call(u1, articles, k, b), Call(u1, articles, k, bShuffled),
                Call(u1, articles, k, c), Call(u2, articles, k, b),
                Call(u1, ofA, k, b), Call(u1, articles, NoKey, b),
                Call(u1, articles, BadKey, b) }

\* Calls that contend for one key.
ContendedMenu == { Call(u1, articles, k, b), Call(u1, articles, k, c),
                   Call(u1, articles, NoKey, b) }

\* The same comment, posted under one key to two articles.
TwoArticlesMenu == { Call(u1, ofA, k, b), Call(u1, ofB, k, b) }

Symmetry == Permutations(Requests)

\* All the requests but one repeat the same call; the other may differ.
RepeatedBut(q) == \A p \in Requests \ {q} : sent[p] = Call(u1, articles, k, b)

RepeatedFaultyInit == Init /\ \E q \in Requests : RepeatedBut(q)

RepeatedFaultySpec == RepeatedFaultyInit /\ [][FaultyNext]_vars

\* The same up to the names of the requests, where no symmetry is declared.
RepeatedInit == Init /\ RepeatedBut(q3)

RepeatedFairSpec == RepeatedInit /\ [][Next]_vars /\ Fairness

=============================================================================
