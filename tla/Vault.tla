------------------------------- MODULE Vault -------------------------------
(***************************************************************************)
(* stede_vault: wraps an underlying stablecoin into Stede dollars, one     *)
(* vault per underlying mint (the PDA is seeded by the mint, so vaults are *)
(* independent and one is modelled).  A Solana instruction is atomic: an   *)
(* instruction whose require! or CPI fails leaves every account unchanged, *)
(* hence a refused call is a stuttering step and each action below is one  *)
(* successful instruction with all the CPIs its handler makes.  The        *)
(* underlying is a plain stablecoin (USDC, AUDD): what is sent arrives.    *)
(*                                                                         *)
(* DirectDeposit, DirectBurn and StedeTransfer are not vault instructions: *)
(* the token programs let any holder do them, and the vault has to live    *)
(* with the outcome.                                                       *)
(***************************************************************************)
EXTENDS Integers, FiniteSets, Functions

CONSTANTS
    Users,          \* wallets; any of them may be the first to initialise
    NoAccount,      \* an account that does not exist
    MaxU64,         \* largest value of a token amount
    Amounts,        \* amounts an instruction may carry
    Endowment       \* underlying tokens each user starts with

ASSUME VaultAssumption ==
    /\ IsFiniteSet(Users)
    /\ MaxU64 \in Nat
    /\ Amounts \subseteq 0..MaxU64
    /\ Endowment \in [Users -> Nat]
    /\ NoAccount \notin [admin : Users, locked_amount : Int, paused : BOOLEAN]

VARIABLES
    vault,          \* the Vault PDA: admin, locked_amount, paused
    token_vault,    \* balance of the vault's underlying token account
    stede_supply,   \* supply recorded in the Stede mint
    meta_list,      \* whether the mint's ExtraAccountMetaList exists
    underlying,     \* balance of each user's underlying token account
    stede           \* balance of each user's Stede token account

vars == <<vault, token_vault, stede_supply, meta_list, underlying, stede>>

Initialized == vault # NoAccount

Init ==
    /\ vault = NoAccount
    /\ token_vault = 0
    /\ stede_supply = 0
    /\ meta_list = FALSE
    /\ underlying = Endowment
    /\ stede = [u \in Users |-> 0]

-----------------------------------------------------------------------------
(* Instructions of stede_vault. *)

InitializeVault(u) ==
    /\ ~Initialized
    /\ vault' = [admin |-> u, locked_amount |-> 0, paused |-> FALSE]
    /\ UNCHANGED <<token_vault, stede_supply, meta_list, underlying, stede>>

\* The CPI creates the account, so it fails when the account exists.
InitializeVaultHook(u) ==
    /\ Initialized
    /\ u = vault.admin
    /\ ~meta_list
    /\ meta_list' = TRUE
    /\ UNCHANGED <<vault, token_vault, stede_supply, underlying, stede>>

\* Faulty variants of wrap and unwrap, to show that the properties see them:
\* the pause flag not read; the deposit CPI left out.
WrapWhilePaused(u, amount) ==
    /\ Initialized
    /\ amount > 0 /\ amount <= underlying[u]
    /\ stede_supply + amount <= MaxU64 /\ vault.locked_amount + amount <= MaxU64
    /\ underlying' = [underlying EXCEPT ![u] = @ - amount]
    /\ token_vault' = token_vault + amount
    /\ stede' = [stede EXCEPT ![u] = @ + amount]
    /\ stede_supply' = stede_supply + amount
    /\ vault' = [vault EXCEPT !.locked_amount = @ + amount]
    /\ UNCHANGED meta_list

WrapWithoutDeposit(u, amount) ==
    /\ Initialized /\ ~vault.paused
    /\ amount > 0 /\ amount <= underlying[u]
    /\ stede_supply + amount <= MaxU64 /\ vault.locked_amount + amount <= MaxU64
    /\ stede' = [stede EXCEPT ![u] = @ + amount]
    /\ stede_supply' = stede_supply + amount
    /\ vault' = [vault EXCEPT !.locked_amount = @ + amount]
    /\ UNCHANGED <<token_vault, meta_list, underlying>>

Wrap(u, amount) ==
    /\ Initialized
    /\ ~vault.paused
    /\ amount > 0
    /\ amount <= underlying[u]                       \* transfer_checked
    /\ stede_supply + amount <= MaxU64               \* mint_to
    /\ vault.locked_amount + amount <= MaxU64        \* checked_add
    /\ underlying' = [underlying EXCEPT ![u] = @ - amount]
    /\ token_vault' = token_vault + amount
    /\ stede' = [stede EXCEPT ![u] = @ + amount]
    /\ stede_supply' = stede_supply + amount
    /\ vault' = [vault EXCEPT !.locked_amount = @ + amount]
    /\ UNCHANGED meta_list

\* The burn CPI left out.
UnwrapWithoutBurn(u, amount) ==
    /\ Initialized /\ ~vault.paused
    /\ amount > 0 /\ vault.locked_amount >= amount /\ amount <= token_vault
    /\ token_vault' = token_vault - amount
    /\ underlying' = [underlying EXCEPT ![u] = @ + amount]
    /\ vault' = [vault EXCEPT !.locked_amount = @ - amount]
    /\ UNCHANGED <<meta_list, stede, stede_supply>>

Unwrap(u, amount) ==
    /\ Initialized
    /\ ~vault.paused
    /\ amount > 0
    /\ vault.locked_amount >= amount
    /\ amount <= stede[u] /\ amount <= stede_supply  \* burn
    /\ amount <= token_vault                         \* transfer_checked
    /\ stede' = [stede EXCEPT ![u] = @ - amount]
    /\ stede_supply' = stede_supply - amount
    /\ token_vault' = token_vault - amount
    /\ underlying' = [underlying EXCEPT ![u] = @ + amount]
    /\ vault' = [vault EXCEPT !.locked_amount = @ - amount]
    /\ UNCHANGED meta_list

SetPaused(u, paused) ==
    /\ Initialized
    /\ u = vault.admin
    /\ vault' = [vault EXCEPT !.paused = paused]
    /\ UNCHANGED <<token_vault, stede_supply, meta_list, underlying, stede>>

-----------------------------------------------------------------------------
(* What happens around the vault. *)

\* stede_hook's own instruction is permissionless: anyone may create the
\* list for the mint, before or instead of the admin.
InitializeExtraAccountMetaList ==
    /\ Initialized
    /\ ~meta_list
    /\ meta_list' = TRUE
    /\ UNCHANGED <<vault, token_vault, stede_supply, underlying, stede>>

DirectDeposit(u, amount) ==
    /\ Initialized
    /\ 0 < amount /\ amount <= underlying[u]
    /\ underlying' = [underlying EXCEPT ![u] = @ - amount]
    /\ token_vault' = token_vault + amount
    /\ UNCHANGED <<vault, stede_supply, meta_list, stede>>

DirectBurn(u, amount) ==
    /\ Initialized
    /\ 0 < amount /\ amount <= stede[u] /\ amount <= stede_supply
    /\ stede' = [stede EXCEPT ![u] = @ - amount]
    /\ stede_supply' = stede_supply - amount
    /\ UNCHANGED <<vault, token_vault, meta_list, underlying>>

\* A transfer the rules let through; Token-2022 cannot resolve the hook's
\* accounts before the list exists.
StedeTransfer(u, v, amount) ==
    /\ meta_list
    /\ u # v
    /\ 0 < amount /\ amount <= stede[u]
    /\ stede' = [stede EXCEPT ![u] = @ - amount, ![v] = @ + amount]
    /\ UNCHANGED <<vault, token_vault, stede_supply, meta_list, underlying>>

Next ==
    \/ InitializeExtraAccountMetaList
    \/ \E u \in Users :
        \/ InitializeVault(u)
        \/ InitializeVaultHook(u)
        \/ \E paused \in BOOLEAN : SetPaused(u, paused)
        \/ \E amount \in Amounts :
            \/ Wrap(u, amount)
            \/ Unwrap(u, amount)
            \/ DirectDeposit(u, amount)
            \/ DirectBurn(u, amount)
            \/ \E v \in Users : StedeTransfer(u, v, amount)

Spec == Init /\ [][Next]_vars

-----------------------------------------------------------------------------
(* Properties. *)

Accounts == [admin : Users, locked_amount : 0..MaxU64, paused : BOOLEAN]

\* Every account holds a value of its type; amounts are natural numbers.
TypeOK ==
    /\ vault \in Accounts \cup {NoAccount}
    /\ token_vault \in Nat
    /\ stede_supply \in 0..MaxU64
    /\ meta_list \in BOOLEAN
    /\ underlying \in [Users -> Nat]
    /\ stede \in [Users -> Nat]

\* Full backing: the Stede supply never exceeds what the vault has recorded
\* as locked, and the record never exceeds what the token account holds.
\* Wrap, unwrap, deposits made around the vault, burns made around the vault
\* and pauses may interleave in any order.
Solvent ==
    IF Initialized
    THEN stede_supply <= vault.locked_amount /\ vault.locked_amount <= token_vault
    ELSE stede_supply = 0 /\ token_vault = 0

\* Each Stede token in circulation is somebody's: the holders' balances add
\* up to the supply, and whatever all of them together can ask unwrap for is
\* covered, so unwrap's InsufficientLocked and the release transfer can only
\* fail for a holder asking more than they hold.
EveryHolderRedeemable ==
    /\ SumFunction(stede) = stede_supply
    /\ Initialized => SumFunction(stede) <= vault.locked_amount
                      /\ SumFunction(stede) <= token_vault

\* The three records wrap and unwrap keep (token account, mint supply,
\* locked_amount) move together: locked_amount changes only by the amount
\* the other two change by in the same step.
LockedMovesInLockstep ==
    [][Initialized =>
         LET moved == vault'.locked_amount - vault.locked_amount
         IN  moved # 0 => /\ token_vault' - token_vault = moved
                          /\ stede_supply' - stede_supply = moved]_vars

\* The pause is an emergency stop: while it is set no Stede is issued and no
\* underlying leaves the vault, whoever acts and whatever was under way.
PauseStopsTheVault ==
    [][Initialized /\ vault.paused =>
         stede_supply' <= stede_supply /\ token_vault' >= token_vault]_vars

\* The equality state.rs states of the three records (see the README: it
\* holds only while nobody deposits into or burns around the vault).
BackingEquality ==
    Initialized => token_vault = vault.locked_amount /\ vault.locked_amount = stede_supply
=============================================================================
