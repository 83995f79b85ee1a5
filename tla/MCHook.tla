------------------------------- MODULE MCHook -------------------------------
(* A sender a with a delegate d, a payee b and a friend f. *)
EXTENDS HookAudit, TLC

CONSTANTS a, b, d, f

MCDelegates == [w \in Wallets |-> IF w = a THEN d ELSE w]

MCEndowment == [w \in Wallets |-> IF w = a THEN 2 ELSE 0]

\* With the friend named before the transfer; with the friend named after it,
\* which the rule does not see; the delegate alone.
MCTransactions ==
    {[signers |-> {a, f}, names |-> <<{f}, {a, b}>>],
     [signers |-> {a, f}, names |-> <<{a, b}, {f}>>],
     [signers |-> {d}, names |-> <<{d, a, b}>>]}
=============================================================================
