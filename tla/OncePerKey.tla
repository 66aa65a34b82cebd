----------------------------- MODULE OncePerKey -----------------------------
(***************************************************************************)
(* What an Idempotency-Key promises to the clients that share it, without  *)
(* a word of how: a key is taken by one execution at a time, an execution  *)
(* that succeeds settles it for good, and everyone served under a settled  *)
(* key is served what settled it.                                          *)
(***************************************************************************)

CONSTANTS
    Clients,    \* the calls made under the keys
    Resources,  \* what an execution may show
    Slots,      \* the keys, each with its account and its route
    None

VARIABLES
    phase,      \* phase[s]: free, taken or settled
    result,     \* result[s]: the response that settled s
    served      \* served[c]: the key and the response client c was served

vars == <<phase, result, served>>

Init ==
    /\ phase = [s \in Slots |-> "free"]
    /\ result = [s \in Slots |-> None]
    /\ served = [c \in Clients |-> None]

Take(s) ==
    /\ phase[s] = "free"
    /\ phase' = [phase EXCEPT ![s] = "taken"]
    /\ UNCHANGED <<result, served>>

\* The execution failed: the key is free again.
GiveBack(s) ==
    /\ phase[s] = "taken"
    /\ phase' = [phase EXCEPT ![s] = "free"]
    /\ UNCHANGED <<result, served>>

\* The execution of client c succeeded, and its response shows r: it settles
\* the key and is served.
Settle(c, s, r) ==
    /\ phase[s] = "taken"
    /\ served[c] = None
    /\ phase' = [phase EXCEPT ![s] = "settled"]
    /\ result' = [result EXCEPT ![s] = [by |-> c, shows |-> r]]
    /\ served' = [served EXCEPT ![c] = <<s, result'[s]>>]

Replay(c, s) ==
    /\ phase[s] = "settled"
    /\ served[c] = None
    /\ served' = [served EXCEPT ![c] = <<s, result[s]>>]
    /\ UNCHANGED <<phase, result>>

Next ==
    \E s \in Slots :
        \/ Take(s)
        \/ GiveBack(s)
        \/ \E c \in Clients :
            \/ Replay(c, s)
            \/ \E r \in Resources : Settle(c, s, r)

Spec == Init /\ [][Next]_vars

=============================================================================
