----------------------------- MODULE MC_Session -----------------------------
(***************************************************************************)
(* Two accounts, one of which may be issued two tokens in a row.           *)
(***************************************************************************)
EXTENDS Session, TLC

CONSTANTS
    t1, t2,         \* tabs
    c1, c2,         \* calls
    ann, bob,       \* accounts
    ann1, ann2, bob1

Owners == (ann1 :> ann) @@ (ann2 :> ann) @@ (bob1 :> bob)

Symmetry == Permutations(Calls) \union Permutations(Tabs)

=============================================================================
