------------------------------ MODULE Directory -----------------------------
(***************************************************************************)
(* What a name promises to those who hold it, be it the slug of an article *)
(* or the e-mail or username of an account: at any time it leads to one    *)
(* entry at most, an entry moves to a free name or stays where it is, and  *)
(* one that has been removed never comes back.                             *)
(***************************************************************************)

CONSTANTS
    Ids,        \* entries, past and future
    Names,
    None

VARIABLES
    address,    \* name of each entry, None when it is not to be found
    published   \* entries that have had one

vars == <<address, published>>

Init ==
    /\ DOMAIN address = Ids
    /\ \A a \in Ids : IF a \in published THEN address[a] \in Names ELSE address[a] = None
    /\ \A a, b \in published : address[a] = address[b] => a = b

Free(s) == \A a \in Ids : address[a] # s

\* Entry a is given the name that address' has for it.
Settle(a) ==
    /\ address'[a] \in Names
    /\ Free(address'[a])
    /\ address' = [address EXCEPT ![a] = address'[a]]

Publish(a) ==
    /\ a \notin published
    /\ Settle(a)
    /\ published' = published \union {a}

Move(a) ==
    /\ address[a] # None
    /\ Settle(a)
    /\ UNCHANGED published

Drop(a) ==
    /\ address[a] # None
    /\ address' = [address EXCEPT ![a] = None]
    /\ UNCHANGED published

Next == \E a \in Ids : Publish(a) \/ Move(a) \/ Drop(a)

Spec == Init /\ [][Next]_vars

=============================================================================
