----------------------------- MODULE MCPipeline -----------------------------
(* A sender a, a payee b, a friend f or the payee for a friend; nobody has a
   delegate. *)
EXTENDS HookPipeline, TLC

CONSTANTS a, b, f

MCDelegates == [w \in Wallets |-> w]

MCEndowment == [w \in Wallets |-> IF w = a THEN 2 ELSE 0]

MCTransactions ==
    {[signers |-> {a, f}, names |-> <<{f}, {a, b}>>],
     [signers |-> {a, f}, names |-> <<{a, b}, {f}>>],
     [signers |-> {a, b}, names |-> <<{b}, {a, b}>>]}
=============================================================================
