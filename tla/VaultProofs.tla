---------------------------- MODULE VaultProofs ----------------------------
(***************************************************************************)
(* Proofs about the vault, for any users, amounts and endowments.          *)
(*                                                                         *)
(* Solvent is inductive together with TypeOK: every instruction and every  *)
(* external event moves the three records by the same amount, or moves the *)
(* supply down alone (a direct burn), or the balance up alone (a direct    *)
(* deposit).  What all holders own adds up to the supply, by the lemmas    *)
(* about sums.                                                             *)
(***************************************************************************)
EXTENDS Vault, FunctionSums, TLAPS

\* The actions of Next, one alternative each, so that a proof by cases on a
\* step has one case per instruction.
LEMMA StepCases ==
    ASSUME [Next]_vars
    PROVE  \/ InitializeExtraAccountMetaList
           \/ \E u \in Users : InitializeVault(u)
           \/ \E u \in Users : InitializeVaultHook(u)
           \/ \E u \in Users, paused \in BOOLEAN : SetPaused(u, paused)
           \/ \E u \in Users, amount \in Amounts : Wrap(u, amount)
           \/ \E u \in Users, amount \in Amounts : Unwrap(u, amount)
           \/ \E u \in Users, amount \in Amounts : DirectDeposit(u, amount)
           \/ \E u \in Users, amount \in Amounts : DirectBurn(u, amount)
           \/ \E u \in Users, v \in Users, amount \in Amounts : StedeTransfer(u, v, amount)
           \/ UNCHANGED vars
  BY DEF Next

\* Every account keeps a value of its type, amounts never go below zero, and
\* locked_amount and the supply stay within u64 (wrap.rs, unwrap.rs).
THEOREM TypeCorrect == Spec => []TypeOK
<1> USE VaultAssumption DEF TypeOK, Accounts, Initialized
<1>1. Init => TypeOK
  <2> SUFFICES ASSUME Init PROVE TypeOK
    OBVIOUS
  <2>1. meta_list \in BOOLEAN
    BY Zenon DEF Init
  <2>2. QED
    BY <2>1 DEF Init
<1>2. TypeOK /\ [Next]_vars => TypeOK'
  <2> SUFFICES ASSUME TypeOK, [Next]_vars PROVE TypeOK'
    OBVIOUS
  <2>1. CASE InitializeExtraAccountMetaList
    BY <2>1 DEF InitializeExtraAccountMetaList
  <2>2. CASE \E u \in Users : InitializeVault(u)
    BY <2>2 DEF InitializeVault
  <2>3. CASE \E u \in Users : InitializeVaultHook(u)
    BY <2>3 DEF InitializeVaultHook
  <2>4. CASE \E u \in Users, paused \in BOOLEAN : SetPaused(u, paused)
    BY <2>4 DEF SetPaused
  <2>5. ASSUME NEW u \in Users, NEW amount \in Amounts, Wrap(u, amount)
        PROVE  TypeOK'
    BY <2>5 DEF Wrap
  <2>6. ASSUME NEW u \in Users, NEW amount \in Amounts, Unwrap(u, amount)
        PROVE  TypeOK'
    BY <2>6 DEF Unwrap
  <2>7. ASSUME NEW u \in Users, NEW amount \in Amounts, DirectDeposit(u, amount)
        PROVE  TypeOK'
    BY <2>7 DEF DirectDeposit
  <2>8. ASSUME NEW u \in Users, NEW amount \in Amounts, DirectBurn(u, amount)
        PROVE  TypeOK'
    BY <2>8 DEF DirectBurn
  <2>9. ASSUME NEW u \in Users, NEW v \in Users, NEW amount \in Amounts,
               StedeTransfer(u, v, amount)
        PROVE  TypeOK'
    BY <2>9 DEF StedeTransfer
  <2>10. CASE UNCHANGED vars
    BY <2>10 DEF vars
  <2>11. QED
    BY <2>1, <2>2, <2>3, <2>4, <2>5, <2>6, <2>7, <2>8, <2>9, <2>10, StepCases
<1>3. QED
  BY <1>1, <1>2, PTL DEF Spec

\* Full backing survives every interleaving of wraps, unwraps, pauses and of
\* deposits and burns made around the vault.
THEOREM Backed == Spec => []Solvent
<1> USE VaultAssumption DEF TypeOK, Accounts, Initialized, Solvent
<1>1. Init => Solvent
  BY DEF Init
<1>2. TypeOK /\ Solvent /\ [Next]_vars => Solvent'
  <2> SUFFICES ASSUME TypeOK, Solvent, [Next]_vars PROVE Solvent'
    OBVIOUS
  <2>1. CASE InitializeExtraAccountMetaList
    BY <2>1 DEF InitializeExtraAccountMetaList
  <2>2. CASE \E u \in Users : InitializeVault(u)
    BY <2>2 DEF InitializeVault
  <2>3. CASE \E u \in Users : InitializeVaultHook(u)
    BY <2>3 DEF InitializeVaultHook
  <2>4. CASE \E u \in Users, paused \in BOOLEAN : SetPaused(u, paused)
    BY <2>4 DEF SetPaused
  <2>5. ASSUME NEW u \in Users, NEW amount \in Amounts, Wrap(u, amount)
        PROVE  Solvent'
    BY <2>5 DEF Wrap
  <2>6. ASSUME NEW u \in Users, NEW amount \in Amounts, Unwrap(u, amount)
        PROVE  Solvent'
    BY <2>6 DEF Unwrap
  <2>7. ASSUME NEW u \in Users, NEW amount \in Amounts, DirectDeposit(u, amount)
        PROVE  Solvent'
    BY <2>7 DEF DirectDeposit
  <2>8. ASSUME NEW u \in Users, NEW amount \in Amounts, DirectBurn(u, amount)
        PROVE  Solvent'
    BY <2>8 DEF DirectBurn
  <2>9. ASSUME NEW u \in Users, NEW v \in Users, NEW amount \in Amounts,
               StedeTransfer(u, v, amount)
        PROVE  Solvent'
    BY <2>9 DEF StedeTransfer
  <2>10. CASE UNCHANGED vars
    BY <2>10 DEF vars
  <2>11. QED
    BY <2>1, <2>2, <2>3, <2>4, <2>5, <2>6, <2>7, <2>8, <2>9, <2>10, StepCases
<1>3. QED
  BY <1>1, <1>2, TypeCorrect, PTL DEF Spec

\* locked_amount never moves without the token account and the supply moving
\* by the same amount in the same instruction.
THEOREM Lockstep == Spec => LockedMovesInLockstep
<1> USE VaultAssumption DEF TypeOK, Accounts, Initialized
<1> DEFINE moved == vault'.locked_amount - vault.locked_amount
           Together == Initialized => (moved # 0 => /\ token_vault' - token_vault = moved
                                                    /\ stede_supply' - stede_supply = moved)
<1>1. TypeOK /\ [Next]_vars => Together
  <2> SUFFICES ASSUME TypeOK, [Next]_vars, Initialized PROVE Together
    OBVIOUS
  <2>1. CASE vault' = vault
    BY <2>1
  <2>2. CASE \E u \in Users : InitializeVault(u)
    BY <2>2 DEF InitializeVault
  <2>3. CASE \E u \in Users, paused \in BOOLEAN : SetPaused(u, paused)
    BY <2>3 DEF SetPaused
  <2>4. ASSUME NEW u \in Users, NEW amount \in Amounts, Wrap(u, amount)
        PROVE  Together
    BY <2>4 DEF Wrap
  <2>5. ASSUME NEW u \in Users, NEW amount \in Amounts, Unwrap(u, amount)
        PROVE  Together
    BY <2>5 DEF Unwrap
  <2>6. QED
    BY <2>1, <2>2, <2>3, <2>4, <2>5, StepCases
       DEF InitializeExtraAccountMetaList, InitializeVaultHook, DirectDeposit,
           DirectBurn, StedeTransfer, vars
<1>2. TypeOK /\ [Next]_vars
        => [Initialized =>
              LET delta == vault'.locked_amount - vault.locked_amount
              IN  delta # 0 => /\ token_vault' - token_vault = delta
                               /\ stede_supply' - stede_supply = delta]_vars
  BY <1>1
<1>3. QED
  BY <1>2, TypeCorrect, PTL DEF Spec, LockedMovesInLockstep

\* While the pause is set nothing is issued and nothing leaves the vault.
THEOREM PauseHolds == Spec => PauseStopsTheVault
<1> USE VaultAssumption DEF TypeOK, Accounts, Initialized
<1> DEFINE Stopped == Initialized /\ vault.paused =>
             stede_supply' <= stede_supply /\ token_vault' >= token_vault
<1>1. TypeOK /\ [Next]_vars => Stopped
  <2> SUFFICES ASSUME TypeOK, [Next]_vars, Initialized PROVE Stopped
    OBVIOUS
  <2>1. CASE UNCHANGED <<vault, token_vault, stede_supply>>
    BY <2>1
  <2>2. CASE \E u \in Users : InitializeVault(u)
    BY <2>2 DEF InitializeVault
  <2>3. CASE \E u \in Users, paused \in BOOLEAN : SetPaused(u, paused)
    BY <2>3 DEF SetPaused
  <2>4. ASSUME NEW u \in Users, NEW amount \in Amounts, Wrap(u, amount)
        PROVE  Stopped
    BY <2>4 DEF Wrap
  <2>5. ASSUME NEW u \in Users, NEW amount \in Amounts, Unwrap(u, amount)
        PROVE  Stopped
    BY <2>5 DEF Unwrap
  <2>6. ASSUME NEW u \in Users, NEW amount \in Amounts, DirectDeposit(u, amount)
        PROVE  Stopped
    BY <2>6 DEF DirectDeposit
  <2>7. ASSUME NEW u \in Users, NEW amount \in Amounts, DirectBurn(u, amount)
        PROVE  Stopped
    BY <2>7 DEF DirectBurn
  <2>8. QED
    BY <2>1, <2>2, <2>3, <2>4, <2>5, <2>6, <2>7, StepCases
       DEF InitializeExtraAccountMetaList, InitializeVaultHook, StedeTransfer, vars
<1>2. QED
  BY <1>1, TypeCorrect, PTL DEF Spec, PauseStopsTheVault

-----------------------------------------------------------------------------
(* Sums. *)

\* Balances are integers, and their sum is one.
LEMMA Balances ==
    ASSUME TypeOK
    PROVE  stede \in [Users -> Int] /\ SumFunction(stede) \in Int
<1>1. stede \in [Users -> Int]
  BY DEF TypeOK
<1> QED
  BY <1>1, VaultAssumption, SumFunctionType

\* The holders' balances and the supply move together, whoever mints, burns
\* or transfers.
THEOREM HoldersOwnTheSupply == Spec => [](SumFunction(stede) = stede_supply)
<1> DEFINE Owned == SumFunction(stede) = stede_supply
<1>1. Init => Owned
  BY VaultAssumption, SumOfZeros DEF Init
<1>2. TypeOK /\ Owned /\ [Next]_vars => Owned'
  <2> SUFFICES ASSUME TypeOK, Owned, [Next]_vars PROVE Owned'
    OBVIOUS
  <2>0. /\ stede \in [Users -> Int] /\ SumFunction(stede) \in Int
        /\ stede_supply \in Int /\ Amounts \subseteq Int /\ IsFiniteSet(Users)
    BY VaultAssumption, Balances DEF TypeOK
  <2>1. CASE UNCHANGED <<stede, stede_supply>>
    BY <2>1
  <2>2. ASSUME NEW u \in Users, NEW amount \in Amounts, Wrap(u, amount)
        PROVE  Owned'
    <3>1. stede' = [stede EXCEPT ![u] = @ + amount]
          /\ stede_supply' = stede_supply + amount
      BY <2>2 DEF Wrap
    <3>2. SumFunction([stede EXCEPT ![u] = @ + amount]) = SumFunction(stede) + amount
      BY <2>0, SumAdd, Zenon
    <3>3. QED
      BY <2>0, <3>1, <3>2
  <2>3. ASSUME NEW u \in Users, NEW amount \in Amounts,
               Unwrap(u, amount) \/ DirectBurn(u, amount)
        PROVE  Owned'
    <3>1. stede' = [stede EXCEPT ![u] = @ - amount]
          /\ stede_supply' = stede_supply - amount
      BY <2>3 DEF Unwrap, DirectBurn
    <3>2. SumFunction([stede EXCEPT ![u] = @ - amount]) = SumFunction(stede) - amount
      BY <2>0, SumTake, Zenon
    <3>3. QED
      BY <2>0, <3>1, <3>2
  <2>4. ASSUME NEW u \in Users, NEW v \in Users, NEW amount \in Amounts,
               StedeTransfer(u, v, amount)
        PROVE  Owned'
    <3>1. /\ stede' = [stede EXCEPT ![u] = @ - amount, ![v] = @ + amount]
          /\ u # v /\ stede_supply' = stede_supply
      BY <2>4 DEF StedeTransfer
    <3>2. SumFunction(stede') = SumFunction(stede)
      <4>1. /\ IsFiniteSet(Users) /\ amount \in Int /\ u # v
            /\ stede \in [Users -> Int] /\ stede' \in [Users -> Int]
            /\ stede'[u] = stede[u] - amount /\ stede'[v] = stede[v] + amount
            /\ \A z \in Users \ {u, v} : stede'[z] = stede[z]
        BY <2>0, <3>1
      <4>2. QED
        BY <4>1, SumMove
    <3>3. QED
      BY <3>1, <3>2
  <2>5. QED
    BY <2>1, <2>2, <2>3, <2>4, StepCases
       DEF InitializeExtraAccountMetaList, InitializeVault, InitializeVaultHook, SetPaused,
           DirectDeposit, vars
<1>3. QED
  BY <1>1, <1>2, TypeCorrect, PTL DEF Spec

\* All holders together can be paid out: what they hold is the supply, which
\* the record and the token account cover.
THEOREM Redeemable == Spec => []EveryHolderRedeemable
<1>1. TypeOK /\ Solvent /\ SumFunction(stede) = stede_supply => EveryHolderRedeemable
  BY VaultAssumption DEF TypeOK, Accounts, Initialized, Solvent, EveryHolderRedeemable
<1> QED
  BY <1>1, TypeCorrect, Backed, HoldersOwnTheSupply, PTL
=============================================================================
