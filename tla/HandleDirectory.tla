-------------------------- MODULE HandleDirectory --------------------------
(***************************************************************************)
(* What the handle registry promises: a directory in which every handle    *)
(* has at most one owner and every wallet owns at most one handle.  It     *)
(* changes one claim, one release or one transfer to a wallet without a    *)
(* handle at a time.                                                       *)
(***************************************************************************)
CONSTANTS
    Handles,        \* names that can be owned
    Wallets,        \* wallets
    Nobody          \* the owner of a free handle

VARIABLE owner      \* owner of each handle, or Nobody

OwnsNone(w) == \A n \in Handles : owner[n] # w

Init == owner = [n \in Handles |-> Nobody]

Claim(w, n) ==
    /\ owner[n] = Nobody /\ OwnsNone(w)
    /\ owner' = [owner EXCEPT ![n] = w]

Release(w, n) ==
    /\ owner[n] = w
    /\ owner' = [owner EXCEPT ![n] = Nobody]

Transfer(w, v, n) ==
    /\ owner[n] = w /\ OwnsNone(v)
    /\ owner' = [owner EXCEPT ![n] = v]

Next ==
    \E n \in Handles, w \in Wallets :
        Claim(w, n) \/ Release(w, n) \/ \E v \in Wallets : Transfer(w, v, n)

Spec == Init /\ [][Next]_owner
=============================================================================
