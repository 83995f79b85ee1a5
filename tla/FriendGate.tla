----------------------------- MODULE FriendGate -----------------------------
(***************************************************************************)
(* stede_rule_friend_gate: a transfer at or above the threshold needs the  *)
(* signature of a friend on the transaction that carries it.  One config   *)
(* PDA per (sender, Stede mint) key.  A call that returns an error changes *)
(* nothing.                                                                *)
(*                                                                         *)
(* A transaction is the sequence of the wallets its top-level instructions *)
(* name and the set of the wallets that signed it: a signer is flagged as  *)
(* one in every instruction that names it.  The rule reads both from the   *)
(* Instructions sysvar, with the index of the instruction being executed.  *)
(***************************************************************************)
EXTENDS Integers, Sequences

CONSTANTS
    Keys,           \* (sender, mint) pairs
    NoAccount,      \* a PDA that does not exist
    Wallets,        \* wallets
    Default,        \* Pubkey::default(), nobody's wallet
    SenderOf,       \* the wallet of each key
    Thresholds      \* thresholds a sender may ask for, zero included

VARIABLE friendGate \* the config PDA of each key

Configured(k) == friendGate[k] # NoAccount

Init == friendGate = [k \in Keys |-> NoAccount]

\* A faulty variant: one may name oneself.
SetFriendGateToSelf(k, threshold, friend) ==
    /\ threshold > 0
    /\ friend # Default
    /\ friendGate' = [friendGate EXCEPT ![k] =
          [threshold |-> threshold, friend_wallet |-> friend]]

SetFriendGate(k, threshold, friend) ==
    /\ threshold > 0
    /\ friend # Default
    /\ friend # SenderOf[k]
    /\ friendGate' = [friendGate EXCEPT ![k] =
          [threshold |-> threshold, friend_wallet |-> friend]]

DisableFriendGate(k) ==
    /\ Configured(k)
    /\ friendGate' = [friendGate EXCEPT ![k] = NoAccount]

\* The scan stops at the instruction being executed: a signer that only
\* later instructions name, or none does, is not seen.
SignersSeen(tx, current_index) ==
    tx.signers \cap UNION {tx.names[i] : i \in 1..current_index}

\* What check_transfer answers for a transfer of this amount made by this
\* instruction of the transaction; it changes nothing.
Approves(k, amount, tx, current_index) ==
    Configured(k) /\ amount >= friendGate[k].threshold =>
        friendGate[k].friend_wallet \in SignersSeen(tx, current_index)

CheckTransfer(k, amount, tx, current_index) ==
    Approves(k, amount, tx, current_index) /\ UNCHANGED friendGate

Next ==
    \E k \in Keys :
        \/ \E t \in Thresholds, w \in Wallets \cup {Default} : SetFriendGate(k, t, w)
        \/ DisableFriendGate(k)

Spec == Init /\ [][Next]_friendGate

\* Every PDA holds a value of its type; nobody is their own friend.
TypeOK ==
    /\ friendGate \in [Keys -> [threshold : Nat \ {0}, friend_wallet : Wallets]
                                \cup {NoAccount}]
    /\ \A k \in Keys : Configured(k) => friendGate[k].friend_wallet # SenderOf[k]
=============================================================================
