---------------------------- MODULE MCTimeWindow ----------------------------
(* A sender a who sets and drops the time window and no other rule. *)
EXTENDS StedeHook

CONSTANT a

MCDelegates == [w \in Wallets |-> w]

MCEndowment == [w \in Wallets |-> 0]
=============================================================================
