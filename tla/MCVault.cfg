\* Three holders with two units of underlying each: enough for wraps by one
\* holder to be unwrapped by another, with deposits and burns in between.
SPECIFICATION Spec
CONSTANTS
    Users = {alice, bob, carol}
    NoAccount = NoAccount
    MaxU64 = 6
    Amounts = {0, 1, 2}
    Endowment <- MCEndowment
SYMMETRY MCSymmetry
INVARIANTS
    Solvent
    EveryHolderRedeemable
PROPERTIES
    LockedMovesInLockstep
    PauseStopsTheVault
