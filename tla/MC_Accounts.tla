---------------------------- MODULE MC_Accounts -----------------------------
(***************************************************************************)
(* Two accounts, and three requests that fight for their names, edit them  *)
(* and follow them, while either may be removed.                           *)
(***************************************************************************)
EXTENDS Accounts, TLC

CONSTANTS
    q1, q2, q3,     \* requests
    ann, bob,       \* accounts already there
    m1, m2, m3,     \* e-mails
    n1, n2, n3,     \* usernames
    secret, other,  \* passwords
    null, text      \* bios

Row(email, username) == [email |-> email, username |-> username, password |-> secret, bio |-> null]

TwoAccounts == (ann :> Row(m1, n1)) @@ (bob :> Row(m2, n2))

Request(op, bearer) ==
    [op |-> op, bearer |-> bearer, name |-> None, email |-> None, username |-> None,
     password |-> None, bio |-> None]

SignUp(email, username) ==
    [Request("register", None) EXCEPT !.email = email, !.username = username,
                                      !.password = secret, !.bio = null]

LogIn(email, password) == [Request("login", None) EXCEPT !.email = email, !.password = password]

On(op, bearer, name) == [Request(op, bearer) EXCEPT !.name = name]

Edit(bearer) == Request("update", bearer)

\* Names taken, given up and taken again, fields changed one at a time.
NameMenu ==
    {SignUp(m3, n3), SignUp(m1, n3),
     [Edit(ann) EXCEPT !.username = n3], [Edit(ann) EXCEPT !.email = m2],
     [Edit(ann) EXCEPT !.bio = text], [Edit(bob) EXCEPT !.username = n1, !.email = m3],
     [Edit(bob) EXCEPT !.password = other]}

\* Logins, readings and follows, anonymous ones included.
ReaderMenu ==
    {LogIn(m1, secret), LogIn(m1, other), Request("me", ann), Request("me", None),
     On("profile", ann, n2), On("profile", None, n2), On("follow", ann, n2), On("unfollow", ann, n2),
     On("follow", bob, n1), On("follow", None, n1)}

MCMenu == NameMenu \union ReaderMenu

Symmetry == Permutations(Requests)

=============================================================================
