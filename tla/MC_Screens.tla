----------------------------- MODULE MC_Screens -----------------------------
(***************************************************************************)
(* A tab, two accounts with a token each, two calls.                       *)
(***************************************************************************)
EXTENDS Screens, TLC

CONSTANTS
    t1,             \* tab
    c1, c2,         \* calls
    ann, bob,       \* accounts
    ann1, bob1

Owners == (ann1 :> ann) @@ (bob1 :> bob)

=============================================================================
