--------------------------- MODULE HandleRegistry ---------------------------
(***************************************************************************)
(* stede_handle_registry: a forward PDA per handle, naming its owner, and  *)
(* a reverse PDA per wallet, naming its handle.  The accounts hold their   *)
(* rent, the forward one the anti-squat deposit as well; closing refunds   *)
(* whatever lamports are in them.  A call that returns an error changes    *)
(* nothing.  Fees and the claimed_at stamp, which nothing reads back, are  *)
(* left out.                                                               *)
(***************************************************************************)
EXTENDS Integers

CONSTANTS
    Names,          \* names a wallet may ask for, ill-formed ones included:
                    \* [id, length, startsWithDigit, wellFormed, reserved]
    Wallets,        \* wallets
    NoAccount,      \* a PDA that does not exist
    MinLen, MaxLen, \* MIN_LEN, MAX_LEN
    Deposit,        \* ANTI_SQUAT_DEPOSIT
    HandleRent,     \* rent-exempt minimum of a forward PDA
    ReverseRent,    \* rent-exempt minimum of a reverse PDA
    Gifts,          \* lamports anyone may send to a PDA's address
    GiftedNames,    \* bounds of the model: the names whose forward PDAs, and
    GiftedWallets,  \* the wallets whose reverse PDAs, receive gifts
    Funds           \* lamports each wallet starts with

ASSUME HandleRegistryAssumption ==
    /\ Deposit \in Nat /\ HandleRent \in Nat /\ ReverseRent \in Nat
    /\ Gifts \subseteq Nat
    /\ Funds \in [Wallets -> Nat]
    /\ GiftedNames \subseteq Names /\ GiftedWallets \subseteq Wallets
    /\ NoAccount \notin Wallets /\ NoAccount \notin Names

VARIABLES
    handle,         \* owner in the forward PDA of each name
    reverse,        \* handle in the reverse PDA of each wallet
    held,           \* lamports at the forward PDA's address of each name
    reverseHeld,    \* lamports at the reverse PDA's address of each wallet
    lamports        \* lamports of each wallet

vars == <<handle, reverse, held, reverseHeld, lamports>>

Init ==
    /\ handle = [n \in Names |-> NoAccount]
    /\ reverse = [w \in Wallets |-> NoAccount]
    /\ held = [n \in Names |-> 0]
    /\ reverseHeld = [w \in Wallets |-> 0]
    /\ lamports = Funds

validate_handle(n) ==
    /\ MinLen <= n.length /\ n.length <= MaxLen
    /\ ~n.startsWithDigit /\ n.wellFormed /\ ~n.reserved

\* What init takes from the payer for an address that holds some lamports:
\* what was sent there before is not asked for again.
TopUp(have, rent) == IF have >= rent THEN 0 ELSE rent - have

ForwardCost(n) == TopUp(held[n], HandleRent)

ReverseCost(w) == TopUp(reverseHeld[w], ReverseRent)

ClaimCost(w, n) == ForwardCost(n) + ReverseCost(w) + Deposit

\* What a claim that may be made writes.
Claimed(w, n) ==
    /\ ClaimCost(w, n) <= lamports[w]
    /\ handle' = [handle EXCEPT ![n] = w]
    /\ reverse' = [reverse EXCEPT ![w] = n]
    /\ held' = [held EXCEPT ![n] = @ + ForwardCost(n) + Deposit]
    /\ reverseHeld' = [reverseHeld EXCEPT ![w] = @ + ReverseCost(w)]
    /\ lamports' = [lamports EXCEPT ![w] = @ - ClaimCost(w, n)]

\* Faulty variants: init_if_needed on the reverse PDA; the name not validated.
ClaimAnother(w, n) == handle[n] = NoAccount /\ validate_handle(n) /\ Claimed(w, n)

ClaimUnvalidated(w, n) ==
    handle[n] = NoAccount /\ reverse[w] = NoAccount /\ Claimed(w, n)

\* Both PDAs are created, which fails if either exists, then the deposit is
\* paid.
ClaimHandle(w, n) ==
    /\ handle[n] = NoAccount /\ reverse[w] = NoAccount
    /\ validate_handle(n)
    /\ Claimed(w, n)

\* The reverse PDA closed is the owner's; that it names this handle is not
\* checked.
ReleaseHandle(w, n) ==
    /\ handle[n] = w
    /\ reverse[w] # NoAccount
    /\ handle' = [handle EXCEPT ![n] = NoAccount]
    /\ reverse' = [reverse EXCEPT ![w] = NoAccount]
    /\ held' = [held EXCEPT ![n] = 0]
    /\ reverseHeld' = [reverseHeld EXCEPT ![w] = 0]
    /\ lamports' = [lamports EXCEPT ![w] = @ + held[n] + reverseHeld[w]]

MayTransfer(w, v, n) ==
    /\ handle[n] = w
    /\ reverse[w] # NoAccount /\ reverse[v] = NoAccount
    /\ ReverseCost(v) <= lamports[w]

\* Faulty variants: the old reverse PDA stays; it is closed in favour of the
\* new owner; the deposit goes back to the old owner.
TransferKeepingReverse(w, v, n) ==
    /\ MayTransfer(w, v, n)
    /\ handle' = [handle EXCEPT ![n] = v]
    /\ reverse' = [reverse EXCEPT ![v] = n]
    /\ reverseHeld' = [reverseHeld EXCEPT ![v] = @ + ReverseCost(v)]
    /\ lamports' = [lamports EXCEPT ![w] = @ - ReverseCost(v)]
    /\ UNCHANGED held

TransferClosingToNewOwner(w, v, n) ==
    /\ MayTransfer(w, v, n)
    /\ handle' = [handle EXCEPT ![n] = v]
    /\ reverse' = [reverse EXCEPT ![v] = n, ![w] = NoAccount]
    /\ reverseHeld' = [reverseHeld EXCEPT ![v] = @ + ReverseCost(v), ![w] = 0]
    /\ lamports' = [lamports EXCEPT ![w] = @ - ReverseCost(v), ![v] = @ + reverseHeld[w]]
    /\ UNCHANGED held

TransferReturningDeposit(w, v, n) ==
    /\ MayTransfer(w, v, n)
    /\ handle' = [handle EXCEPT ![n] = v]
    /\ reverse' = [reverse EXCEPT ![v] = n, ![w] = NoAccount]
    /\ reverseHeld' = [reverseHeld EXCEPT ![v] = @ + ReverseCost(v), ![w] = 0]
    /\ held' = [held EXCEPT ![n] = @ - Deposit]
    /\ lamports' = [lamports EXCEPT ![w] = @ - ReverseCost(v) + reverseHeld[w] + Deposit]

\* The new reverse PDA is created, at the current owner's cost, before the
\* old one is closed in the owner's favour: a transfer to oneself fails.
\* The deposit stays with the handle.
TransferHandle(w, v, n) ==
    /\ MayTransfer(w, v, n)
    /\ handle' = [handle EXCEPT ![n] = v]
    /\ reverse' = [reverse EXCEPT ![v] = n, ![w] = NoAccount]
    /\ reverseHeld' = [reverseHeld EXCEPT ![v] = @ + ReverseCost(v), ![w] = 0]
    /\ lamports' = [lamports EXCEPT ![w] = @ - ReverseCost(v) + reverseHeld[w]]
    /\ UNCHANGED held

\* Not instructions of the registry: lamports sent to a PDA's address,
\* whether the account exists or not.
SendToForward(w, n, amount) ==
    /\ amount <= lamports[w]
    /\ held' = [held EXCEPT ![n] = @ + amount]
    /\ lamports' = [lamports EXCEPT ![w] = @ - amount]
    /\ UNCHANGED <<handle, reverse, reverseHeld>>

SendToReverse(w, v, amount) ==
    /\ amount <= lamports[w]
    /\ reverseHeld' = [reverseHeld EXCEPT ![v] = @ + amount]
    /\ lamports' = [lamports EXCEPT ![w] = @ - amount]
    /\ UNCHANGED <<handle, reverse, held>>

Next ==
    \E w \in Wallets :
        \/ \E n \in Names :
              \/ ClaimHandle(w, n)
              \/ ReleaseHandle(w, n)
              \/ \E v \in Wallets : TransferHandle(w, v, n)
        \/ \E amount \in Gifts :
              \/ \E n \in GiftedNames : SendToForward(w, n, amount)
              \/ \E v \in GiftedWallets : SendToReverse(w, v, amount)

Spec == Init /\ [][Next]_vars

-----------------------------------------------------------------------------
(* Properties. *)

\* Every account holds a value of its type, and only names that pass the
\* format rules are ever owned.
TypeOK ==
    /\ handle \in [Names -> Wallets \cup {NoAccount}]
    /\ reverse \in [Wallets -> Names \cup {NoAccount}]
    /\ held \in [Names -> Nat]
    /\ reverseHeld \in [Wallets -> Nat]
    /\ lamports \in [Wallets -> Nat]
    /\ \A n \in Names : handle[n] # NoAccount => validate_handle(n)

\* The two families of accounts say the same, although no instruction reads
\* the name in a reverse PDA: each is the inverse of the other.
ForwardMatchesReverse ==
    \A n \in Names, w \in Wallets : handle[n] = w <=> reverse[w] = n

\* What the two PDAs of an owned handle hold pays their rent and the whole
\* deposit, also after transfers and when lamports were sent to the addresses
\* before they were accounts.
OwnedIsFunded ==
    \A n \in Names : handle[n] # NoAccount =>
        /\ held[n] >= HandleRent + Deposit
        /\ reverseHeld[handle[n]] >= ReverseRent

\* What a wallet has or would have if it released its handle.
Wealth(w) ==
    lamports[w] + reverseHeld[w] + (IF reverse[w] = NoAccount THEN 0 ELSE held[reverse[w]])

GaveItsHandle(w) ==
    \E n \in Names :
        /\ handle[n] = w /\ handle'[n] \in Wallets \ {w}
        /\ Wealth(w)' >= Wealth(w) - held[n] - ReverseRent

SentLamports(w) == lamports'[w] < lamports[w] /\ UNCHANGED <<handle, reverse>>

\* Whatever others claim, transfer and release, a wallet gets poorer only by
\* its own gifts: by lamports it sent somewhere, or by a handle it passed on,
\* with the deposit and at most the rent of the new owner's reverse PDA.
\* Claims and releases cost nothing that is not to be had back.
LossesAreGifts ==
    [][\A w \in Wallets :
         Wealth(w)' < Wealth(w) => GaveItsHandle(w) \/ SentLamports(w)]_vars

Directory == INSTANCE HandleDirectory
    WITH Handles <- Names, Nobody <- NoAccount, owner <- handle

\* The forward PDAs alone are a directory in which a wallet owns at most one
\* handle: that is enforced through the reverse PDAs only.
ImplementsDirectory == Directory!Spec
=============================================================================
