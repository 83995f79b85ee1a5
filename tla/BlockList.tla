----------------------------- MODULE BlockList -----------------------------
(***************************************************************************)
(* stede_rule_block_handle: one BlockList PDA per (sender, Stede mint)     *)
(* key, an array of MaxBlocked wallets in which the all-zero key marks an  *)
(* empty slot, and a count of the others.  The PDA is created by the first *)
(* add and never closed.  A call that returns an error changes nothing.    *)
(***************************************************************************)
EXTENDS Integers, FiniteSets, Functions

CONSTANTS
    Keys,           \* (sender, mint) pairs
    NoAccount,      \* a PDA that does not exist
    Wallets,        \* real wallets
    Default,        \* Pubkey::default(), the empty slot and nobody's wallet
    MaxBlocked      \* MAX_BLOCKED

ASSUME BlockListAssumption ==
    /\ MaxBlocked \in Nat \ {0}
    /\ Default \notin Wallets
    /\ NoAccount \notin [blocked : [1..MaxBlocked -> Wallets \cup {Default}], count : Int]

VARIABLE blockList  \* the PDA of each key

Slots == 1..MaxBlocked

Configured(k) == blockList[k] # NoAccount

\* Where the wallet is stored, as the position scan finds it: no slot holds
\* the default key as a blocked wallet.
Find(pda, w) == {i \in Slots : pda.blocked[i] = w /\ w # Default}

\* A faulty variant: the slot after the last occupied one, so that a slot
\* freed by a removal is not reused but overwritten when the array is full.
FirstEmptyAtEnd(pda) ==
    IF pda.count < MaxBlocked THEN {pda.count + 1} ELSE {}

\* The first empty slot, as a set with that slot or none.
FirstEmpty(pda) ==
    {i \in Slots : /\ pda.blocked[i] = Default
                   /\ \A j \in Slots : j < i => pda.blocked[j] # Default}

Empty == [blocked |-> [i \in Slots |-> Default], count |-> 0]

Init == blockList = [k \in Keys |-> NoAccount]

\* A faulty variant: the wallet is not looked for before it is stored.
AddWithoutLookup(k, w) ==
    LET pda == IF Configured(k) THEN blockList[k] ELSE Empty
    IN  /\ w # Default
        /\ \E i \in FirstEmpty(pda) :
              blockList' = [blockList EXCEPT ![k] =
                  [blocked |-> [pda.blocked EXCEPT ![i] = w], count |-> pda.count + 1]]

AddBlocked(k, w) ==
    LET pda == IF Configured(k) THEN blockList[k] ELSE Empty
    IN  /\ w # Default
        /\ Find(pda, w) = {}
        /\ \E i \in FirstEmpty(pda) :
              blockList' = [blockList EXCEPT ![k] =
                  [blocked |-> [pda.blocked EXCEPT ![i] = w], count |-> pda.count + 1]]

\* A faulty variant: the count is left alone.
RemoveWithoutCounting(k, w) ==
    /\ Configured(k)
    /\ \E i \in Find(blockList[k], w) :
          blockList' = [blockList EXCEPT ![k] =
              [blocked |-> [blockList[k].blocked EXCEPT ![i] = Default],
               count   |-> blockList[k].count]]

RemoveBlocked(k, w) ==
    /\ Configured(k)
    /\ \E i \in Find(blockList[k], w) :
          blockList' = [blockList EXCEPT ![k] =
              [blocked |-> [blockList[k].blocked EXCEPT ![i] = Default],
               count   |-> IF blockList[k].count > 0 THEN blockList[k].count - 1 ELSE 0]]

\* A faulty variant: the scan stops at the first count slots, which is where
\* the wallets would be if removals kept the array packed.
ApprovesScanningCount(k, w) ==
    Configured(k) => \A i \in Find(blockList[k], w) : i > blockList[k].count

\* What check_transfer answers for a recipient; it changes nothing.
Approves(k, w) == Configured(k) => Find(blockList[k], w) = {}

CheckTransfer(k, w) == Approves(k, w) /\ UNCHANGED blockList

Next ==
    \E k \in Keys, w \in Wallets \cup {Default} :
        AddBlocked(k, w) \/ RemoveBlocked(k, w) \/ CheckTransfer(k, w)

Spec == Init /\ [][Next]_blockList

-----------------------------------------------------------------------------
(* Properties. *)

\* Every PDA holds a value of its type.
TypeOK ==
    blockList \in [Keys -> [blocked : [Slots -> Wallets \cup {Default}],
                            count   : 0..MaxBlocked] \cup {NoAccount}]

Occupied(pda) == {i \in Slots : pda.blocked[i] # Default}

\* The array stores a set: no wallet twice, so one removal unblocks it.
NoDuplicates ==
    \A k \in Keys : Configured(k) =>
        \A i, j \in Occupied(blockList[k]) :
            blockList[k].blocked[i] = blockList[k].blocked[j] => i = j

\* The count is the number of occupied slots after any order of additions
\* and removals, which leave holes in the array; the saturating arithmetic
\* never saturates.
CountIsOccupancy ==
    \A k \in Keys : Configured(k) =>
        blockList[k].count = Cardinality(Occupied(blockList[k]))

Members(k) ==
    IF Configured(k) THEN Range(blockList[k].blocked) \ {Default} ELSE {}

Abstract == INSTANCE BlockSet WITH blockedSet <- [k \in Keys |-> Members(k)]

\* The array with its holes implements the bounded set: an addition adds
\* exactly one wallet and is never made to a full list, a removal removes
\* exactly one, whatever slots they touch.
ImplementsBlockSet == Abstract!Spec
=============================================================================
