------------------------------ MODULE MCVault ------------------------------
(* Constants of the vault runs: every user starts with the same endowment. *)
EXTENDS Vault, TLC

MCEndowment == [u \in Users |-> 2]
MCSymmetry == Permutations(Users)
=============================================================================
