------------------------------ MODULE BlockSet ------------------------------
(***************************************************************************)
(* What a block list promises: per key, a set of at most MaxBlocked        *)
(* wallets that transfers under that key never go to.  BlockList keeps the *)
(* set in the fixed array the program stores.                              *)
(***************************************************************************)
EXTENDS Integers, FiniteSets

CONSTANTS
    Keys,           \* (sender, mint) pairs
    Wallets,        \* wallets that can be blocked
    MaxBlocked      \* MAX_BLOCKED

VARIABLE blockedSet \* the wallets blocked under each key

Init == blockedSet = [k \in Keys |-> {}]

Add(k, w) ==
    /\ w \notin blockedSet[k]
    /\ Cardinality(blockedSet[k]) < MaxBlocked
    /\ blockedSet' = [blockedSet EXCEPT ![k] = @ \cup {w}]

Remove(k, w) ==
    /\ w \in blockedSet[k]
    /\ blockedSet' = [blockedSet EXCEPT ![k] = @ \ {w}]

Next == \E k \in Keys, w \in Wallets : Add(k, w) \/ Remove(k, w)

Spec == Init /\ [][Next]_blockedSet
=============================================================================
